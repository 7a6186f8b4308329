SPECIFICATION FairSpec
CONSTANTS
    User = {a, b}
    Role = {sa}
    SuperAdmin = sa
    RoleName = {}
    Permission = {}
    Catalog = {}
    Request = {r1, r2}
    BootstrapUser = None
    Kinds = {"setRoles"}
    None = None
    Null = Null
    a = a
    b = b
    Wishes = {{"SUPER_ADMIN"}, {}}
    Granted <- BothAdmins
    Event = {r1, r2, v1}
    EventType = {"role.changed", "permission.changed", "user.created", "user.deleted", "security.alert"}
    TestType = "security.alert"
    Endpoint = {e1}
    Subscriptions = {{"role.changed"}}
    MaxSecret = 2
    MaxRetries = 2
    Answers = {"accepted", "refused", "late"}
    MaxIncidents = 1
CHECK_DEADLOCK FALSE
INVARIANTS
    TypeOK
    PostsFollowConfiguration
    OutcomeIsTrue
PROPERTIES
    ChangeReachesSubscribers
