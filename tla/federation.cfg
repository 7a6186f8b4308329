SPECIFICATION Spec
CONSTANTS
    q1 = q1
    q2 = q2
    a1 = a1
    a2 = a2
    k1 = k1
    x1 = x1
    x2 = x2
    c1 = c1
    c2 = c2
    s1 = s1
    s2 = s2
    Rotation = {q1, q2}
    Configured = FALSE
    Bearer <- Bearers
    Code = {k1}
    Exchange = {x1, x2}
    Admin = {a1, a2}
    Original = Original
    None = None
    Call = {c1, c2}
    Account = {u, m}
    MfaAccount = {m}
    Session = {s1, s2}
    OtpCells = 4
    CodeLengths = {6, 7, 8}
    Scenarios <- Parts
CHECK_DEADLOCK FALSE
INVARIANTS
    TypeOK
    
    OneSessionPerCode
    LastSecretWorks
    TokenPresentedOnce
    
