SPECIFICATION Spec
CONSTANTS
    Password = {p1, p2}
    Login = {l1}
    Session = {s1}
    Challenge = {}
    MaxAttempts = 2
    Initial = {p1}
    Target = {"BLOCKED"}
    MayStop = {}
    Guess = {TRUE}
    Way = {"admin"}
    None = None
    Change = {c1}
    ResetToken = {t1}
CHECK_DEADLOCK FALSE
INVARIANTS
    BlockedStaysBlocked
