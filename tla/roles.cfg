SPECIFICATION RolesSpec
CONSTANTS
    User = {a, b}
    Role = {sa, i1, i2}
    SuperAdmin = sa
    RoleName = {"OWN"}
    Permission = {"role.assign", "role.update"}
    Catalog = {"role.assign"}
    Request = {r1, r2}
    BootstrapUser = None
    Kinds = {"createRole", "updateRole", "deleteRole", "createPermission", "setRoles", "createUser", "onboard", "deleteUser", "bootstrap"}
    None = None
    a = a
    b = b
    i1 = i1
    Wishes = {{}, {"SUPER_ADMIN"}, {"OWN"}, {"role.update"}, {"role.assign", "role.update"}, {"*"}}
    Granted <- Worlds
SYMMETRY Interchangeable
CHECK_DEADLOCK FALSE
INVARIANTS
    RolesTypeOK
    BootstrapStaysOpen
    
PROPERTIES
    
    BootstrapFindsNoAdmin
