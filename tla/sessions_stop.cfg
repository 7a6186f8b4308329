SPECIFICATION FairSpec
CONSTANTS
    u1 = u1
    User = {u1}
    Device = {d1}
    Session = {s1}
    Token = {t1, t2}
    Request = {r1, r2}
    MayStop = {r1}
    MayExpire = {s1, t1}
    None = None
    Owner <- OneOwner
PROPERTIES
    NoAccessAfterEnd
    RevocationCompletes
