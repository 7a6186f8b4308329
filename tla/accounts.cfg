SPECIFICATION Spec
CONSTANTS
    Password = {p1, p2}
    Login = {l1}
    Session = {s1}
    Challenge = {}
    MaxAttempts = 1
    Initial = {p1}
    Target = {}
    MayStop = {c1, c2}
    Guess = {TRUE}
    Way = {"link", "own", "admin"}
    None = None
    Change = {c1, c2}
    ResetToken = {t1}
SYMMETRY Interchangeable
CHECK_DEADLOCK FALSE
INVARIANTS
    TypeOK
    PasswordChangeEndsSessions
    ResetLinkIsSpent
