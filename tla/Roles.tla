------------------------------- MODULE Roles -------------------------------
(***************************************************************************)
(* Users, roles and permissions: apps/api/src/services/rbac.ts,            *)
(* bootstrap.ts, setUserRoles, createUser and deleteUser of user.ts,       *)
(* onboardEmployee of wfm.ts, requirePermissions of plugins/auth.ts,       *)
(* routes/roles.ts and bootstrap.ts.                                       *)
(*                                                                         *)
(* A request is one call of a handler.  Each statement that another        *)
(* request may come between is one action; only createUser uses a          *)
(* transaction.  emitEvent, the last statement of every handler but two,   *)
(* belongs to Administration.                                              *)
(***************************************************************************)
EXTENDS Naturals, FiniteSets, FiniteSetsExt

CONSTANTS
    User,                   \* email addresses users may have
    Role,                   \* ids of roles, never drawn twice
    SuperAdmin,             \* the id of SUPER_ADMIN, the system role
    RoleName,               \* names of the other roles
    Permission,             \* names of permissions the catalog may get
    Catalog,                \* those it has from the start
    Request,
    BootstrapUser,          \* BOOTSTRAP_ADMIN_EMAIL, None if it is not set
    Kinds,                  \* the operations requests may call for
    Wishes,                 \* the sets of names or permissions they may send
    Granted,                \* what user_roles may hold at the start
    None

Kind == {"createRole", "updateRole", "deleteRole", "createPermission",
         "setRoles", "createUser", "onboard", "deleteUser", "bootstrap"}

ASSUME RoleAssumption == SuperAdmin \in Role /\ "SUPER_ADMIN" \notin RoleName
ASSUME CatalogAssumption == Catalog \subseteq Permission
ASSUME KindsAssumption == Kinds \subseteq Kind
ASSUME GrantedAssumption == Granted \subseteq SUBSET [user : User, role : Role]
ASSUME BootstrapAssumption == BootstrapUser \in User \cup {None}
ASSUME NoneRoleAssumption == None \notin User \cup Role \cup RoleName \cup {"SUPER_ADMIN"}
ASSUME UserAssumption == IsFiniteSet(User) /\ User # {} /\ User \cap Role = {}

VARIABLES
    users,                  \* users
    roles,                  \* roles and role_permissions
    catalog,                \* permissions
    grants,                 \* user_roles
    at,                     \* the statement each request is about to execute
    requests,               \* what each request has read
    outcomes,               \* how it has ended
    audit,                  \* what the audit log says users and roles have
    spoiled,                \* users and roles of which it need not be true
    mishap                  \* whether a race has cost the last Super Admin,
                            \* or a bootstrap ended half way

roleVars == <<users, roles, catalog, grants, at, requests, outcomes, audit,
              spoiled, mishap>>
rows == <<users, roles, catalog, grants>>
history == <<audit, spoiled, mishap>>

-----------------------------------------------------------------------------
Name == RoleName \cup {"SUPER_ADMIN"}
Grant == [user : User, role : Role]

Wildcard == "*"

Step == {"idle", "permit", "read", "check", "number", "insert", "clear", "fill",
         "reread", "delete", "next", "remove", "add", "assign", "audit", "emit",
         "over"}

UserState == {"none", "live", "deleted"}
RoleRow == [state : UserState, name : Name, permissions : SUBSET Permission]

(* "held": the permissions authenticate read; "wanted": the names or       *)
(* permissions the caller sends; "current": the roles setUserRoles found;  *)
(* "todo": those it has still to take or give; "late": a user was inserted *)
(* since it drew its number; "raced": since its last check, a change has   *)
(* come that the check was to guard against; "shared": another request has *)
(* been at work on the same user or role; "changed": it has written.       *)
Local == [kind : Kind, actor : User \cup {None}, held : SUBSET Permission,
          user : User \cup {None}, role : Role \cup {None},
          name : Name, wanted : SUBSET (Permission \cup Name \cup {Wildcard}),
          current : SUBSET Name, todo : SUBSET Name,
          late : BOOLEAN, raced : BOOLEAN, shared : BOOLEAN, changed : BOOLEAN]

Outcome == {"none", "ok", "refused", "taken", "dead"}

RolesTypeOK ==
    /\ users \in [User -> UserState]
    /\ roles \in [Role -> RoleRow]
    /\ \A i \in Role : roles[i].permissions \subseteq catalog
    /\ catalog \subseteq Permission
    /\ grants \subseteq Grant
    /\ at \in [Request -> Step]
    /\ requests \in [Request -> Local]
    /\ outcomes \in [Request -> Outcome]
    /\ audit \in [User \cup Role -> SUBSET (Permission \cup Name \cup {Wildcard})]
    /\ spoiled \subseteq User \cup Role
    /\ mishap \in BOOLEAN

NoRole(n) == [state |-> "none", name |-> n, permissions |-> {}]
Idle == [kind |-> "bootstrap", actor |-> None, held |-> {}, user |-> None,
         role |-> None, name |-> "SUPER_ADMIN", wanted |-> {}, current |-> {}, todo |-> {},
         late |-> FALSE, raced |-> FALSE, shared |-> FALSE, changed |-> FALSE]

-----------------------------------------------------------------------------
Exists(i) == roles[i].state = "live"
IdsOf(n) == {i \in Role : Exists(i) /\ roles[i].name = n}
RolesOf(u) == {roles[i].name : i \in {g.role : g \in {h \in grants : h.user = u}}}
Holders(i) == {g.user : g \in {h \in grants : h.role = i}}
Admins == Holders(SuperAdmin)
Live(u) == users[u] = "live"

(* getPermissionsForUser: SUPER_ADMIN has the whole catalog.               *)
PermissionsOf(u) ==
    IF u \in Admins THEN catalog
    ELSE UNION {roles[g.role].permissions : g \in {h \in grants : h.user = u}}

(* What the route asks for: one of these suffices.                         *)
Needed(kind) ==
    CASE kind = "createRole" -> {"role.create"}
      [] kind = "updateRole" -> {"role.update", "permission.assign"}
      [] kind = "deleteRole" -> {"role.delete"}
      [] kind = "createPermission" -> {"permission.assign"}
      [] kind = "setRoles" -> {"role.assign"}
      [] kind = "createUser" -> {"user.create"}
      [] kind = "onboard" -> {"wfm.employee.manage"}
      [] kind = "deleteUser" -> {"user.delete"}
      [] kind = "bootstrap" -> {}

(* A seeded database: without users, or with Super Admins, other users and *)
(* a role of the administrators' own.                                      *)
RolesInit ==
    /\ roles \in [Role -> [state : {"none", "live"}, name : Name, permissions : SUBSET Catalog]]
    /\ \A i \in Role :
          IF i = SuperAdmin THEN roles[i] = [NoRole("SUPER_ADMIN") EXCEPT !.state = "live"]
          ELSE /\ roles[i].name # "SUPER_ADMIN"
               /\ ~Exists(i) => roles[i].permissions = {}
    /\ \A i, j \in Role : Exists(i) /\ Exists(j) /\ roles[i].name = roles[j].name => i = j
    /\ users \in [User -> UserState]
    /\ grants \in Granted
    /\ \A g \in grants : users[g.user] # "none" /\ Exists(g.role)
    /\ (\A u \in User : users[u] = "none") \/ (\E u \in Admins : Live(u))
    /\ catalog = Catalog
    /\ at = [r \in Request |-> "idle"]
    /\ requests = [r \in Request |-> Idle]
    /\ outcomes = [r \in Request |-> "none"]
    /\ audit = [x \in User \cup Role |-> IF x \in User THEN RolesOf(x)
                                         ELSE roles[x].permissions]
    /\ spoiled = {}
    /\ mishap = FALSE

-----------------------------------------------------------------------------
At(r, s) == at[r] = s
Goto(r, s) == at' = [at EXCEPT ![r] = s]
Set(r, l) == requests' = [requests EXCEPT ![r] = l]
Active(r) == at[r] \notin {"idle", "over"}

(* What the handler had read is gone with it.                              *)
End(r, outcome) ==
    /\ Goto(r, "over")
    /\ outcomes' = [outcomes EXCEPT ![r] = outcome]
    /\ Set(r, Idle)

(* The user or role a request is about.                                    *)
Target(l) == IF l.kind \in {"createRole", "updateRole", "deleteRole"} THEN l.role ELSE l.user

(* Requests that may change what a user or role has, between their first   *)
(* statement and their audit record.                                       *)
Changing == Kind \ {"createPermission", "onboard", "deleteUser"}
AtWork(r) ==
    /\ Active(r) /\ ~At(r, "permit")
    /\ requests[r].kind \in Changing
    /\ At(r, "emit") => requests[r].kind = "bootstrap"
Others(r, x) == {q \in Request \ {r} : AtWork(q) /\ Target(requests[q]) = x}

(* A request takes its target in hand; whoever has it too is not alone.    *)
Take(r, x, l) ==
    /\ requests' = [q \in Request |->
          IF q = r THEN [l EXCEPT !.shared = Others(r, x) # {}]
          ELSE IF q \in Others(r, x) THEN [requests[q] EXCEPT !.shared = TRUE]
          ELSE requests[q]]
    /\ spoiled' = IF Others(r, x) # {} THEN spoiled \cup {x} ELSE spoiled

(* What comes between the check and the write of other requests.           *)
SetAndRace(r, l, raced(_)) ==
    requests' = [q \in Request |->
        IF q = r THEN l ELSE [requests[q] EXCEPT !.raced = @ \/ raced(q)]]

(* A request that gives up half way leaves the audit log behind.           *)
HalfDone(r) == AtWork(r) /\ requests[r].changed
Fail(r) ==
    /\ End(r, "refused")
    /\ spoiled' = IF HalfDone(r) THEN spoiled \cup {Target(requests[r])} ELSE spoiled
    /\ mishap' = (mishap \/ (HalfDone(r) /\ requests[r].kind = "bootstrap"))
    /\ UNCHANGED <<rows, audit>>

-----------------------------------------------------------------------------
(* What callers may ask for.                                               *)
Blank(kind) == [Idle EXCEPT !.kind = kind]
NewRole(l, n, ps) == [l EXCEPT !.name = n, !.wanted = ps]
RoleToHave(l, i, ps) == [l EXCEPT !.role = i, !.wanted = ps]
UserToHave(l, u, ns) == [l EXCEPT !.user = u, !.wanted = ns]

Asked(kind) ==
    LET l == Blank(kind) IN
    CASE kind = "createRole" ->
           {NewRole(l, n, ps) :
              n \in RoleName, ps \in Wishes \cap SUBSET (Permission \cup {Wildcard})}
      [] kind = "updateRole" ->
           {RoleToHave(l, i, ps) :
              i \in Role, ps \in Wishes \cap SUBSET (Permission \cup {Wildcard})}
      [] kind = "deleteRole" -> {[l EXCEPT !.role = i] : i \in Role}
      [] kind = "createPermission" -> {[l EXCEPT !.wanted = {p}] : p \in Permission}
      [] kind \in {"setRoles", "createUser", "onboard"} ->
           {UserToHave(l, u, ns) : u \in User, ns \in Wishes \cap SUBSET Name}
      [] kind = "deleteUser" -> {[l EXCEPT !.user = u] : u \in User}
      [] kind = "bootstrap" -> {[l EXCEPT !.user = u] : u \in User}

(* authenticate: the account is live; its permissions are read here.       *)
Authenticate(r, a) ==
    /\ At(r, "idle")
    /\ Live(a)
    /\ \E kind \in Kinds \ {"bootstrap"} : \E l \in Asked(kind) :
          Set(r, [l EXCEPT !.actor = a, !.held = PermissionsOf(a)])
    /\ Goto(r, "permit")
    /\ UNCHANGED <<rows, outcomes, history>>

First(kind) ==
    CASE kind \in {"createRole", "createUser"} -> "check"
      [] kind = "createPermission" -> "insert"
      [] OTHER -> "read"

(* requirePermissions: a Super Admin by now, or one of the permissions     *)
(* among those read before.                                                *)
Permit(r) ==
    LET l == requests[r] IN
    /\ At(r, "permit")
    /\ IF l.actor \in Admins \/ Needed(l.kind) \cap l.held # {}
       THEN /\ Set(r, [l EXCEPT !.actor = None, !.held = {}])
            /\ Goto(r, First(l.kind))
            /\ UNCHANGED outcomes
       ELSE End(r, "refused")
    /\ UNCHANGED <<rows, history>>

-----------------------------------------------------------------------------
(* Roles and their permissions.                                            *)

(* createRole looks the name up, then inserts it: the name is unique.      *)
CheckRoleName(r) ==
    /\ At(r, "check") /\ requests[r].kind = "createRole"
    /\ IF IdsOf(requests[r].name) = {}
       THEN Goto(r, "insert") /\ UNCHANGED <<requests, outcomes>>
       ELSE End(r, "refused")
    /\ UNCHANGED <<rows, history>>

InsertRole(r, i) ==
    LET l == requests[r] IN
    /\ At(r, "insert") /\ l.kind = "createRole"
    /\ roles[i].state = "none"
    /\ IF IdsOf(l.name) = {}
       THEN /\ roles' = [roles EXCEPT ![i] = [NoRole(l.name) EXCEPT !.state = "live"]]
            /\ Take(r, i, [l EXCEPT !.role = i, !.changed = TRUE])
            /\ Goto(r, "clear")
            /\ UNCHANGED outcomes
       ELSE End(r, "taken") /\ UNCHANGED <<roles, spoiled>>
    /\ UNCHANGED <<users, catalog, grants, audit, mishap>>

(* updateRole and the handler of DELETE read the role.                     *)
ReadRole(r) ==
    LET l == requests[r] IN
    /\ At(r, "read") /\ l.kind \in {"updateRole", "deleteRole"}
    /\ IF Exists(l.role) /\ l.role # SuperAdmin
       THEN /\ Take(r, l.role, l)
            /\ Goto(r, IF l.kind = "updateRole" THEN "clear" ELSE "check")
            /\ UNCHANGED <<rows, outcomes, audit, mishap>>
       ELSE Fail(r)

(* setRolePermissions refuses the wildcard, then deletes what the role has *)
(* and inserts what it is to have.                                         *)
ClearPermissions(r) ==
    LET l == requests[r] IN
    /\ At(r, "clear")
    /\ IF Wildcard \in l.wanted THEN Fail(r)
       ELSE /\ roles' = [roles EXCEPT ![l.role].permissions = {}]
            /\ Set(r, [l EXCEPT !.changed = TRUE])
            /\ Goto(r, "fill")
            /\ UNCHANGED <<users, catalog, grants, outcomes, history>>

AfterFill(l) == IF l.kind = "updateRole" THEN "reread" ELSE "audit"

(* Mutant: the names are taken as they come, without the catalog.          *)
FillWithAnyName(r) ==
    LET l == requests[r]
    IN  /\ At(r, "fill")
        /\ roles' = [roles EXCEPT ![l.role].permissions = @ \cup l.wanted]
        /\ Set(r, l)
        /\ Goto(r, AfterFill(l))
        /\ UNCHANGED <<users, catalog, grants, outcomes, history>>

(* Names that are not in the catalog select nothing; if no name is, the    *)
(* foreign key has nothing to refuse even when the role is gone.           *)
FillPermissions(r) ==
    LET l == requests[r]
        known == l.wanted \cap catalog
    IN  /\ At(r, "fill")
        /\ IF known # {} /\ ~Exists(l.role) THEN Fail(r)
           ELSE /\ roles' = [roles EXCEPT ![l.role].permissions = @ \cup known]
                /\ Goto(r, AfterFill(l))
                /\ UNCHANGED <<users, catalog, grants, requests, outcomes, history>>

(* updateRole answers with the role; without one the handler cannot name   *)
(* it in the audit log.                                                    *)
RereadRole(r) ==
    /\ At(r, "reread")
    /\ IF Exists(requests[r].role)
       THEN Goto(r, "audit") /\ UNCHANGED <<rows, requests, outcomes, history>>
       ELSE Fail(r)

(* Mutant: the check of the assignments is left out.                       *)
CheckNothing(r) ==
    /\ At(r, "check") /\ requests[r].kind = "deleteRole"
    /\ Set(r, [requests[r] EXCEPT !.raced = FALSE])
    /\ Goto(r, "delete")
    /\ UNCHANGED <<rows, outcomes, history>>

(* deleteRole: nobody may have the role.                                   *)
CheckHolders(r) ==
    LET l == requests[r] IN
    /\ At(r, "check") /\ l.kind = "deleteRole"
    /\ IF Holders(l.role) = {}
       THEN /\ Set(r, [l EXCEPT !.raced = FALSE])
            /\ Goto(r, "delete")
            /\ UNCHANGED <<rows, outcomes, history>>
       ELSE Fail(r)

(* Whoever has been given it since loses it with the row.                  *)
DeleteRole(r) ==
    LET l == requests[r] IN
    /\ At(r, "delete") /\ l.kind = "deleteRole"
    /\ roles' = [roles EXCEPT ![l.role] = [@ EXCEPT !.state = "deleted", !.permissions = {}]]
    /\ grants' = {g \in grants : g.role # l.role}
    /\ spoiled' = IF l.raced THEN spoiled \cup Holders(l.role) ELSE spoiled
    /\ requests' = [q \in Request |->
          IF q = r THEN [l EXCEPT !.changed = TRUE]
          ELSE [requests[q] EXCEPT !.shared = @ \/ (l.raced /\ requests[q].user \in Holders(l.role))]]
    /\ Goto(r, "audit")
    /\ UNCHANGED <<users, catalog, outcomes, audit, mishap>>

(* createPermission: an upsert.                                            *)
InsertPermission(r) ==
    /\ At(r, "insert") /\ requests[r].kind = "createPermission"
    /\ catalog' = catalog \cup requests[r].wanted
    /\ Set(r, [requests[r] EXCEPT !.changed = TRUE])
    /\ Goto(r, "audit")
    /\ UNCHANGED <<users, roles, grants, outcomes, history>>

-----------------------------------------------------------------------------
(* Users and their roles.                                                  *)

Remains(todo) == IF todo = {} THEN "audit" ELSE "next"

(* setUserRoles reads the roles of a user who is not deleted.              *)
ReadUser(r) ==
    LET l == requests[r]
        current == RolesOf(l.user)
        todo == (current \ l.wanted) \cup (l.wanted \ current)
    IN  /\ At(r, "read") /\ l.kind = "setRoles"
        /\ IF Live(l.user)
           THEN /\ Take(r, l.user, [l EXCEPT !.current = current, !.todo = todo])
                /\ Goto(r, Remains(todo))
                /\ UNCHANGED <<rows, outcomes, audit, mishap>>
           ELSE Fail(r)

(* Takes come before gives.                                                *)
InOrder(l, n) == n \in l.todo /\ (l.todo \cap l.current # {} => n \in l.current)

(* Mutant: the count is compared with zero.                                *)
NextRoleOffByOne(r, n) ==
    LET l == requests[r] IN
    /\ At(r, "next") /\ InOrder(l, n)
    /\ IF IdsOf(n) = {} THEN Fail(r)
       ELSE /\ \E i \in IdsOf(n) :
                  Set(r, [l EXCEPT !.role = i, !.todo = @ \ {n}, !.raced = FALSE])
            /\ Goto(r, IF n \in l.current THEN "remove" ELSE "add")
            /\ UNCHANGED <<rows, outcomes, history>>

(* assignRoleToUser and removeRoleFromUser look the role up by its name;   *)
(* the removal of SUPER_ADMIN counts the Super Admins.                     *)
NextRole(r, n) ==
    LET l == requests[r] IN
    /\ At(r, "next") /\ InOrder(l, n)
    /\ IF \/ IdsOf(n) = {}
          \/ n \in l.current /\ n = "SUPER_ADMIN" /\ Cardinality(Admins) <= 1
       THEN Fail(r)
       ELSE /\ \E i \in IdsOf(n) :
                  Set(r, [l EXCEPT !.role = i, !.todo = @ \ {n}, !.raced = FALSE])
            /\ Goto(r, IF n \in l.current THEN "remove" ELSE "add")
            /\ UNCHANGED <<rows, outcomes, history>>

(* The count that another removal has overtaken guards nothing.            *)
RemoveGrant(r) ==
    LET l == requests[r] 
        takesAdmin == l.role = SuperAdmin
    IN  /\ At(r, "remove")
        /\ grants' = grants \ {[user |-> l.user, role |-> l.role]}
        /\ SetAndRace(r, [l EXCEPT !.changed = TRUE],
                      LAMBDA q : takesAdmin /\ At(q, "remove"))
        /\ mishap' = (mishap \/ (takesAdmin /\ l.raced /\ Admins \subseteq {l.user}))
        /\ Goto(r, Remains(l.todo))
        /\ UNCHANGED <<users, roles, catalog, outcomes, audit, spoiled>>

(* A grant makes worthless the count of a bootstrap and the check of a     *)
(* deletion.                                                               *)
Overtakes(q, ids) ==
    \/ Active(q) /\ requests[q].kind = "bootstrap" /\ SuperAdmin \in ids
    \/ At(q, "delete") /\ requests[q].role \in ids

(* The insert fails when the role has been deleted since it was looked up. *)
AddGrant(r) ==
    LET l == requests[r] IN
    /\ At(r, "add")
    /\ IF ~Exists(l.role) THEN Fail(r)
       ELSE /\ grants' = grants \cup {[user |-> l.user, role |-> l.role]}
            /\ SetAndRace(r, [l EXCEPT !.changed = TRUE],
                  LAMBDA q : Overtakes(q, {l.role}))
            /\ Goto(r, Remains(l.todo))
            /\ UNCHANGED <<users, roles, catalog, outcomes, history>>

(* deleteUser: roles stay with the row.                                    *)
ReadAccount(r) ==
    /\ At(r, "read") /\ requests[r].kind = "deleteUser"
    /\ IF Live(requests[r].user)
       THEN Goto(r, "delete") /\ UNCHANGED <<rows, requests, outcomes, history>>
       ELSE Fail(r)

DeleteUser(r) ==
    LET l == requests[r] IN
    /\ At(r, "delete") /\ l.kind = "deleteUser"
    /\ users' = [users EXCEPT ![l.user] = "deleted"]
    /\ Set(r, [l EXCEPT !.changed = TRUE])
    /\ Goto(r, "audit")
    /\ UNCHANGED <<roles, catalog, grants, outcomes, history>>

(* Mutant: the bootstrap counts the live Super Admins alone.               *)
CountLiveAdmins(r, u) ==
    /\ "bootstrap" \in Kinds
    /\ At(r, "idle")
    /\ BootstrapUser \in {None, u}
    /\ ~\E a \in Admins : Live(a)
    /\ Take(r, u, [Idle EXCEPT !.user = u])
    /\ Goto(r, "check")
    /\ UNCHANGED <<rows, outcomes, audit, mishap>>

(* bootstrapSuperAdmin counts the Super Admins; the secret is right, the   *)
(* address the one that is expected.                                       *)
CountAdmins(r, u) ==
    /\ "bootstrap" \in Kinds
    /\ At(r, "idle")
    /\ BootstrapUser \in {None, u}
    /\ IF Admins = {}
       THEN /\ Take(r, u, [Idle EXCEPT !.user = u])
            /\ Goto(r, "check")
            /\ UNCHANGED outcomes
       ELSE End(r, "refused") /\ UNCHANGED spoiled
    /\ UNCHANGED <<rows, audit, mishap>>

(* onboardEmployee looks for another employee of the same id.  Which ids   *)
(* are taken is not modelled: here, and when the user is inserted, this    *)
(* one may be.                                                             *)
ReadEmployeeId(r) ==
    /\ At(r, "read") /\ requests[r].kind = "onboard"
    /\ \/ Goto(r, "check") /\ UNCHANGED <<requests, outcomes>>
       \/ End(r, "refused")
    /\ UNCHANGED <<rows, history>>

(* createUser, called by the bootstrap and the onboarding too, looks for a *)
(* user who is not deleted.                                                *)
Creating == {"createUser", "onboard", "bootstrap"}

CheckEmail(r) ==
    LET l == requests[r] IN
    /\ At(r, "check") /\ l.kind \in Creating
    /\ IF Live(l.user) THEN Fail(r)
       ELSE /\ IF l.kind = "bootstrap"
               THEN UNCHANGED <<requests, spoiled>>
               ELSE Take(r, l.user, l)
            /\ Goto(r, "number")
            /\ UNCHANGED <<rows, outcomes, audit, mishap>>

(* nextUserNumber: the highest number so far, plus one.                    *)
NextUserNumber(r) ==
    /\ At(r, "number")
    /\ Set(r, [requests[r] EXCEPT !.late = FALSE])
    /\ Goto(r, "insert")
    /\ UNCHANGED <<rows, outcomes, history>>

(* The transaction of createUser: the user, then the roles by name.  The   *)
(* address must be new, deleted users included, and so must the number; a  *)
(* user inserted meanwhile has taken it if he is of the same type.         *)
(* createUser writes no audit record.                                      *)
InsertUser(r) ==
    LET l == requests[r]
        ids == UNION {IdsOf(n) : n \in l.wanted}
    IN  /\ At(r, "insert") /\ l.kind \in Creating
        /\ \/ /\ users[l.user] # "none" \/ l.late \/ l.kind = "onboard"
              /\ End(r, "taken")
              /\ UNCHANGED <<rows, history>>
           \/ /\ users[l.user] = "none"
              /\ IF \E n \in l.wanted : IdsOf(n) = {} THEN Fail(r)
                 ELSE /\ users' = [users EXCEPT ![l.user] = "live"]
                      /\ grants' = grants \cup [user : {l.user}, role : ids]
                      /\ requests' = [q \in Request |->
                            IF q = r THEN [l EXCEPT !.changed = TRUE]
                            ELSE [requests[q] EXCEPT
                                    !.late = @ \/ At(q, "insert"),
                                    !.raced = @ \/ Overtakes(q, ids)]]
                      /\ spoiled' = spoiled \cup {l.user}
                      /\ Goto(r, "emit")
                      /\ UNCHANGED <<roles, catalog, outcomes, audit, mishap>>

AssignSuperAdmin(r) ==
    LET l == requests[r] IN
    /\ At(r, "assign")
    /\ grants' = grants \cup {[user |-> l.user, role |-> SuperAdmin]}
    /\ SetAndRace(r, l, LAMBDA q : Overtakes(q, {SuperAdmin}))
    /\ Goto(r, "audit")
    /\ UNCHANGED <<users, roles, catalog, outcomes, history>>

-----------------------------------------------------------------------------
(* recordAudit: what a user or role has now, as far as the request knows;  *)
(* of a permission, a deletion or an onboarding, nothing of the kind.      *)
RecordAudit(r) ==
    LET l == requests[r] IN
    /\ At(r, "audit")
    /\ IF l.kind \in Changing
       THEN /\ audit' = [audit EXCEPT ![Target(l)] =
                           IF l.kind = "bootstrap" THEN {"SUPER_ADMIN"} ELSE l.wanted]
            /\ spoiled' = IF l.shared THEN spoiled ELSE spoiled \ {Target(l)}
       ELSE UNCHANGED <<audit, spoiled>>
    /\ IF l.kind \in {"bootstrap", "onboard"} THEN End(r, "ok")
       ELSE Goto(r, "emit") /\ UNCHANGED <<requests, outcomes>>
    /\ UNCHANGED <<rows, mishap>>

(* What follows when the event is createUser's: the bootstrap gives the    *)
(* role, the onboarding fills in the employee's profile, of which the      *)
(* model has nothing, and writes its audit record.                         *)
Afterwards(kind) == IF kind = "bootstrap" THEN "assign" ELSE "audit"

(* emitEvent has returned.                                                 *)
Announced(r) ==
    /\ At(r, "emit")
    /\ IF requests[r].kind \in {"bootstrap", "onboard"}
       THEN Goto(r, Afterwards(requests[r].kind)) /\ UNCHANGED <<requests, outcomes>>
       ELSE End(r, "ok")
    /\ UNCHANGED <<rows, history>>

(* A statement fails: the request ends with an error.  emitEvent never     *)
(* fails its caller.                                                       *)
QueryFails(r) ==
    /\ Active(r) /\ ~At(r, "emit")
    /\ Fail(r)

(* The process dies with every request it serves.                          *)
LoseRequests ==
    LET halfDone == {r \in Request : HalfDone(r)} IN
    /\ at' = [r \in Request |-> IF Active(r) THEN "over" ELSE at[r]]
    /\ outcomes' = [r \in Request |-> IF Active(r) THEN "dead" ELSE outcomes[r]]
    /\ requests' = [r \in Request |-> Idle]
    /\ spoiled' = spoiled \cup {Target(requests[r]) : r \in halfDone}
    /\ mishap' = (mishap \/ \E r \in halfDone : requests[r].kind = "bootstrap")
    /\ UNCHANGED <<rows, audit>>

-----------------------------------------------------------------------------
RoleStep(r) ==
    \/ CheckRoleName(r) \/ \E i \in Role : InsertRole(r, i)
    \/ ReadRole(r) \/ ClearPermissions(r) \/ FillPermissions(r) \/ RereadRole(r)
    \/ CheckHolders(r) \/ DeleteRole(r) \/ InsertPermission(r)

UserStep(r) ==
    \/ ReadUser(r) \/ \E n \in Name : NextRole(r, n)
    \/ RemoveGrant(r) \/ AddGrant(r)
    \/ ReadAccount(r) \/ DeleteUser(r)
    \/ ReadEmployeeId(r) \/ CheckEmail(r) \/ NextUserNumber(r) \/ InsertUser(r) \/ AssignSuperAdmin(r)

RequestStep(r) == Permit(r) \/ RoleStep(r) \/ UserStep(r) \/ RecordAudit(r)

Arrival(r) ==
    \/ \E a \in User : Authenticate(r, a)
    \/ \E u \in User : CountAdmins(r, u)

RolesNext ==
    \/ \E r \in Request : Arrival(r) \/ RequestStep(r) \/ Announced(r) \/ QueryFails(r)
    \/ LoseRequests

RolesSpec == RolesInit /\ [][RolesNext]_roleVars

-----------------------------------------------------------------------------
LiveAdmins == {u \in Admins : Live(u)}

(* "Cannot remove the last Super Admin" (rbac.ts).  The last Super Admin   *)
(* who can sign in is lost only when his account is deleted, which nothing *)
(* prevents, or when his role is taken by a removal whose count another    *)
(* has overtaken, or has counted a deleted account.                        *)
LosesLastAdmin ==
    \/ \E u \in User : Live(u) /\ ~Live(u)'
    \/ \E r \in Request : At(r, "remove") /\ requests[r].raced
    \/ \E u \in Admins' : ~Live(u)

LastAdminIsLostKnowingly ==
    [][LiveAdmins # {} /\ LiveAdmins' = {} => LosesLastAdmin]_roleVars

(* "Refuses to run when any Super Admin already exists" (bootstrap.ts): a  *)
(* bootstrap makes a second Super Admin only if another was made between   *)
(* its count and its assignment.                                           *)
BootstrapFindsNoAdmin ==
    [][\A r \in Request :
          (at[r] = "assign" /\ at'[r] = "audit") => Admins = {} \/ requests[r].raced]_roleVars

(* Without a Super Admin the bootstrap is still open, unless one ended     *)
(* half way or two removals raced: an address it accepts is free, or one   *)
(* is under way.                                                           *)
BootstrapStaysOpen ==
    Admins = {} /\ ~mishap =>
        \/ \E u \in User : users[u] = "none" /\ BootstrapUser \in {None, u}
        \/ \E r \in Request : AtWork(r) /\ requests[r].kind = "bootstrap"

(* The last audit record about a user or role tells what there is: it      *)
(* lists all that the user or role has, and whatever it lists is there,    *)
(* but for permissions the catalog did not have.  Excepted are users and   *)
(* roles whose requests overlapped, or gave up half way, or lost a grant   *)
(* with a role deleted after it.                                           *)
Actual(x) == IF x \in User THEN RolesOf(x) ELSE roles[x].permissions
Listed(x) == IF x \in User THEN audit[x] ELSE audit[x] \cap Catalog

AuditTellsTheState ==
    \A x \in (User \cup Role) \ spoiled :
        \/ \E q \in Request : AtWork(q) /\ Target(requests[q]) = x
        \/ Listed(x) \subseteq Actual(x) /\ Actual(x) \subseteq audit[x]
=============================================================================
