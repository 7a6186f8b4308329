SPECIFICATION Spec
CONSTANTS
    u1 = u1
    User = {u1}
    Device = {}
    Session = {s1}
    Token = {t1, t2, t3}
    Request = {r1}
    MayStop = {}
    MayExpire = {}
    None = None
    Owner <- OneOwner
INVARIANTS
    ReuseMeansReuse
