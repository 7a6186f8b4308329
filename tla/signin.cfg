SPECIFICATION LoginSpec
CONSTANTS
    Password = {p1, p2}
    Login = {l1, l2}
    Session = {s1, s2}
    Challenge = {k1}
    MaxAttempts = 2
    Initial = {p1}
    Target = {"BLOCKED"}
    MayStop = {l1}
    Guess = {TRUE, FALSE}
    None = None
SYMMETRY Interchangeable
CHECK_DEADLOCK FALSE
INVARIANTS
    
    CounterHasWindow
    
