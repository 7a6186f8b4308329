SPECIFICATION Spec
CONSTANTS
    u1 = u1
    User = {u1}
    Device = {d1}
    Session = {s1, s2}
    Token = {t1, t2, t3}
    Request = {r1, r2}
    MayStop = {}
    MayExpire = {}
    None = None
    Owner <- OneOwner
SYMMETRY Interchangeable
INVARIANTS
    TypeOK
    RotationChain
    OneMintPerRequest
    NoOrphanCredential
    FirstTokenDiesForACause
PROPERTIES
    NoAccessAfterEnd
    ImplementsLifecycle
