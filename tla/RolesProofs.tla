----------------------------- MODULE RolesProofs -----------------------------
(***************************************************************************)
(* Proofs about Roles, for any numbers of users, roles, permissions and    *)
(* requests.                                                               *)
(*                                                                         *)
(* The invariant has four layers: types, with what is known of a request   *)
(* from its kind and statement (Ready); what the rows of the tables have   *)
(* in common (RowsInv); the checks requests rely on later (ChecksInv); and *)
(* the work in hand on users and roles (WorkInv).                          *)
(***************************************************************************)
EXTENDS Roles, FiniteSetTheorems, TLAPS

-----------------------------------------------------------------------------
(* What is known of a request.                                             *)
OfRole == {"createRole", "updateRole", "deleteRole"}
OfUser == {"setRoles", "createUser", "onboard", "deleteUser", "bootstrap"}

(* The statements of each handler.                                         *)
StepsOf(kind) ==
    CASE kind = "createRole" -> {"permit", "check", "insert", "clear", "fill", "audit", "emit"}
      [] kind = "updateRole" -> {"permit", "read", "clear", "fill", "reread", "audit", "emit"}
      [] kind = "deleteRole" -> {"permit", "read", "check", "delete", "audit", "emit"}
      [] kind = "createPermission" -> {"permit", "insert", "audit", "emit"}
      [] kind = "setRoles" -> {"permit", "read", "next", "remove", "add", "audit", "emit"}
      [] kind = "createUser" -> {"permit", "check", "number", "insert", "emit"}
      [] kind = "onboard" -> {"permit", "read", "check", "number", "insert", "emit", "audit"}
      [] kind = "deleteUser" -> {"permit", "read", "delete", "audit", "emit"}
      [] kind = "bootstrap" -> {"check", "number", "insert", "emit", "assign", "audit"}

(* Those after which it may have written something.                        *)
WrittenAt(kind) ==
    CASE kind = "createRole" -> {"clear", "fill", "audit", "emit"}
      [] kind = "updateRole" -> {"fill", "reread", "audit", "emit"}
      [] kind = "setRoles" -> {"next", "remove", "add", "audit", "emit"}
      [] kind \in {"createUser", "onboard"} -> {"emit", "audit"}
      [] kind = "bootstrap" -> {"emit", "assign", "audit"}
      [] OTHER -> {"audit", "emit"}

ReadyAt(s, l) ==
    /\ s \in StepsOf(l.kind)
    /\ l.changed => s \in WrittenAt(l.kind)
    /\ l.kind \in OfUser => l.user \in User /\ l.wanted \subseteq Name
    /\ l.kind \notin OfUser =>
          l.user = None /\ l.wanted \subseteq Permission \cup {Wildcard}
    /\ l.kind = "createPermission" => l.wanted \subseteq Permission
    /\ l.kind \in {"deleteRole", "bootstrap"} => l.wanted = {}
    /\ l.kind = "createRole" =>
          /\ l.name \in RoleName
          /\ IF s \in {"permit", "check", "insert"} THEN l.role = None ELSE l.role \in Role
    /\ l.kind \in {"updateRole", "deleteRole"} => l.role \in Role
    /\ l.kind \in {"updateRole", "deleteRole"} /\ s \notin {"permit", "read"}
          => l.role # SuperAdmin
    /\ s \in {"remove", "add"} => l.role \in Role

Ready == \A r \in Request : Active(r) => ReadyAt(at[r], requests[r])

(* The rows: SUPER_ADMIN is there, names are unique, the foreign keys of   *)
(* user_roles hold, the catalog only grows.                                *)
RowsInv ==
    /\ Exists(SuperAdmin)
    /\ \A i \in Role : roles[i].name = "SUPER_ADMIN" <=> i = SuperAdmin
    /\ \A i, j \in Role : Exists(i) /\ Exists(j) /\ roles[i].name = roles[j].name => i = j
    /\ \A g \in grants : Exists(g.role) /\ users[g.user] # "none"
    /\ Catalog \subseteq catalog

(* What a check found still holds, or the request has been overtaken.      *)
AdminCounted(r) ==
    at[r] = "remove" /\ requests[r].role = SuperAdmin =>
        requests[r].raced \/ \E u, v \in Admins : u # v

NoAdminCounted(r) ==
    requests[r].kind = "bootstrap" /\ at[r] \in {"check", "number", "insert", "emit", "assign"} =>
        requests[r].raced \/ Admins = {}

NoHolderFound(r) ==
    at[r] = "delete" /\ requests[r].kind = "deleteRole" =>
        requests[r].raced \/ Holders(requests[r].role) = {}

(* A user who has been found or inserted stays in the table.               *)
UserIsThere(r) ==
    \/ requests[r].kind = "setRoles" /\ at[r] \in {"next", "remove", "add", "audit"}
    \/ requests[r].kind = "bootstrap" /\ at[r] \in {"emit", "assign", "audit"}
    => users[requests[r].user] # "none"

ChecksInv ==
    \A r \in Request : 
        AdminCounted(r) /\ NoAdminCounted(r) /\ NoHolderFound(r) /\ UserIsThere(r)

(* Before there is a Super Admin, only bootstraps get past their check.    *)
Bootstrapping ==
    Admins = {} /\ ~mishap =>
        /\ grants = {}
        /\ \A u \in User : users[u] # "none" =>
              \E r \in Request : /\ at[r] \in {"emit", "assign"}
                                 /\ requests[r].kind = "bootstrap"
                                 /\ requests[r].user = u /\ requests[r].changed
        /\ \A r \in Request : Active(r) =>
              requests[r].kind = "bootstrap" \/ (At(r, "permit") /\ requests[r].held = {})

-----------------------------------------------------------------------------
(* The work in hand: requests that have taken their user or role.          *)
TakenAt(kind) ==
    CASE kind = "createRole" -> {"clear", "fill", "audit"}
      [] kind = "updateRole" -> {"clear", "fill", "reread", "audit"}
      [] kind = "deleteRole" -> {"check", "delete", "audit"}
      [] kind = "setRoles" -> {"next", "remove", "add", "audit"}
      [] kind = "createUser" -> {"number", "insert"}
      [] kind = "bootstrap" -> {"check", "number", "insert", "emit", "assign", "audit"}
      [] OTHER -> {}

InHand(r) == at[r] \in TakenAt(requests[r].kind)
Alone(r) == InHand(r) /\ ~requests[r].shared

Overlaps ==
    \A q, r \in Request :
        q # r /\ InHand(q) /\ InHand(r) /\ Target(requests[q]) = Target(requests[r])
            => requests[r].shared

SharedIsSpoiled ==
    \A r \in Request : InHand(r) /\ requests[r].shared => Target(requests[r]) \in spoiled

(* What a user or role has, while one request alone works on it.           *)
Difference(u, wanted) == (RolesOf(u) \ wanted) \cup (wanted \ RolesOf(u))

RolesAreOnTheWay(s, l) ==
    LET n == roles[l.role].name
        left == IF s \in {"remove", "add"} THEN l.todo \cup {n} ELSE l.todo
    IN  /\ Difference(l.user, l.wanted) = left
        /\ \A m \in l.todo : m \in l.current <=> m \in RolesOf(l.user)
        /\ s \in {"remove", "add"} => n \notin l.todo
        /\ s = "remove" => [user |-> l.user, role |-> l.role] \in grants
        /\ s = "add" => n \notin RolesOf(l.user)
        /\ s = "audit" => l.todo = {}

PermissionsAreOnTheWay(s, l) ==
    LET ps == roles[l.role].permissions IN
    /\ s = "fill" => ps = {}
    /\ s \in {"reread", "audit"} => ps \subseteq l.wanted /\ l.wanted \cap Catalog \subseteq ps

OnTheWay(s, l) ==
    /\ l.kind = "setRoles" => RolesAreOnTheWay(s, l)
    /\ l.kind \in OfRole => PermissionsAreOnTheWay(s, l)
    /\ l.kind = "bootstrap" =>
          /\ s \in {"emit", "assign"} => RolesOf(l.user) = {}
          /\ s = "audit" => RolesOf(l.user) = {"SUPER_ADMIN"}

(* A role that is to be taken or given has been in the table; a request    *)
(* half way has written something.                                         *)
RoleIsThere(r) == at[r] \in {"remove", "add"} => roles[requests[r].role].state # "none"

HasWritten(r) ==
    at[r] = "fill" \/ (requests[r].kind = "bootstrap" /\ at[r] \in {"emit", "assign", "audit"})
    => requests[r].changed

WorkIsKnown == \A r \in Request : RoleIsThere(r) /\ HasWritten(r)

WorkIsOnTheWay == \A r \in Request : Alone(r) => OnTheWay(at[r], requests[r])

Accurate(x) == Listed(x) \subseteq Actual(x) /\ Actual(x) \subseteq audit[x]

AuditIsAccurate ==
    \A x \in (User \cup Role) \ spoiled :
        Accurate(x) \/ \E q \in Request : HalfDone(q) /\ Target(requests[q]) = x

TypeInv == RolesTypeOK /\ Ready
IInv == TypeInv /\ RowsInv /\ ChecksInv /\ Bootstrapping
WorkInv == WorkIsKnown /\ Overlaps /\ SharedIsSpoiled /\ WorkIsOnTheWay /\ AuditIsAccurate

-----------------------------------------------------------------------------
(* How a step changes a record of what a request has read.                 *)
LEMMA LocalKeeps ==
    ASSUME NEW l \in Local
    PROVE  \A b \in BOOLEAN :
              /\ [l EXCEPT !.shared = b] \in Local
              /\ [l EXCEPT !.raced = b] \in Local
              /\ [l EXCEPT !.late = b] \in Local
              /\ [l EXCEPT !.changed = b] \in Local
              /\ [l EXCEPT !.raced = b].shared = l.shared
              /\ [l EXCEPT !.late = b].shared = l.shared
              /\ [l EXCEPT !.changed = b].shared = l.shared
BY DEF Local

SameWork(k, l) ==
    /\ l.kind = k.kind /\ l.held = k.held /\ l.user = k.user /\ l.role = k.role
    /\ l.name = k.name /\ l.wanted = k.wanted /\ l.current = k.current /\ l.todo = k.todo
    /\ l.changed = k.changed
    /\ k.raced => l.raced
    /\ k.shared => l.shared

OthersKeep(r) ==
    \A q \in Request \ {r} : at'[q] = at[q] /\ SameWork(requests[q], requests'[q])

LEMMA FlagsAreNoWork ==
    ASSUME NEW l \in Local
    PROVE  /\ \A b \in BOOLEAN : SameWork(l, [l EXCEPT !.late = b])
           /\ \A b \in BOOLEAN : SameWork(l, [l EXCEPT !.shared = @ \/ b])
           /\ \A b \in BOOLEAN : SameWork(l, [l EXCEPT !.raced = @ \/ b])
           /\ SameWork(l, [l EXCEPT !.shared = TRUE])
           /\ SameWork(l, l)
BY DEF Local, SameWork

LEMMA IdleIsLocal == Idle \in Local
BY DEF Idle, Local, Kind, Name, Wildcard

LEMMA GotoEffect ==
    ASSUME RolesTypeOK, NEW r \in Request, NEW s, Goto(r, s)
    PROVE  /\ at'[r] = s
           /\ \A q \in Request \ {r} : at'[q] = at[q]
           /\ s \in Step => at' \in [Request -> Step]
BY DEF RolesTypeOK, Goto

LEMMA SetEffect ==
    ASSUME RolesTypeOK, NEW r \in Request, NEW l \in Local, Set(r, l)
    PROVE  /\ requests' \in [Request -> Local]
           /\ requests'[r] = l
           /\ \A q \in Request \ {r} : requests'[q] = requests[q] /\ SameWork(requests[q], requests'[q])
BY FlagsAreNoWork DEF RolesTypeOK, Set

LEMMA StayEffect ==
    ASSUME RolesTypeOK, UNCHANGED requests
    PROVE  \A q \in Request : requests'[q] = requests[q] /\ SameWork(requests[q], requests'[q])
BY FlagsAreNoWork DEF RolesTypeOK

LEMMA TakeEffect ==
    ASSUME RolesTypeOK, NEW r \in Request, NEW x, NEW l \in Local, Take(r, x, l)
    PROVE  /\ requests' \in [Request -> Local]
           /\ requests'[r] = [l EXCEPT !.shared = Others(r, x) # {}]
           /\ requests'[r].shared = (Others(r, x) # {})
           /\ SameWork([l EXCEPT !.shared = FALSE], requests'[r])
           /\ requests'[r].raced = l.raced
           /\ \A q \in Request \ {r} : /\ SameWork(requests[q], requests'[q])
                                       /\ q \in Others(r, x) => requests'[q].shared
                                       /\ q \notin Others(r, x) => requests'[q] = requests[q]
                                       /\ requests'[q].raced = requests[q].raced
           /\ spoiled' = IF Others(r, x) # {} THEN spoiled \cup {x} ELSE spoiled
<1> DEFINE b == Others(r, x) # {}
           k == [l EXCEPT !.shared = b]
<1>1. b \in BOOLEAN /\ k \in Local
  BY LocalKeeps
<1>2. requests'[r] = k /\ spoiled' = IF Others(r, x) # {} THEN spoiled \cup {x} ELSE spoiled
  BY DEF Take, RolesTypeOK
<1>3. k.shared = b /\ SameWork([l EXCEPT !.shared = FALSE], k) /\ k.raced = l.raced
  BY DEF Local, SameWork
<1>4. ASSUME NEW q \in Request \ {r}
      PROVE  /\ requests'[q] \in Local
             /\ SameWork(requests[q], requests'[q])
             /\ q \in Others(r, x) => requests'[q].shared
             /\ q \notin Others(r, x) => requests'[q] = requests[q]
             /\ requests'[q].raced = requests[q].raced
  <2>1. requests[q] \in Local
    BY DEF RolesTypeOK
  <2>2. /\ [requests[q] EXCEPT !.shared = TRUE] \in Local
        /\ [requests[q] EXCEPT !.shared = TRUE].shared
        /\ [requests[q] EXCEPT !.shared = TRUE].raced = requests[q].raced
        /\ SameWork(requests[q], [requests[q] EXCEPT !.shared = TRUE])
        /\ SameWork(requests[q], requests[q])
    BY <2>1, LocalKeeps, FlagsAreNoWork DEF Local
  <2>3. requests'[q] = IF q \in Others(r, x) THEN [requests[q] EXCEPT !.shared = TRUE] ELSE requests[q]
    BY DEF Take
  <2> QED BY <2>1, <2>2, <2>3
<1>5. requests' = [q \in Request |-> requests'[q]]
  BY DEF Take
<1>6. requests' \in [Request -> Local]
  BY <1>1, <1>2, <1>4, <1>5
<1> QED BY <1>1, <1>2, <1>3, <1>4, <1>6

LEMMA EndEffect ==
    ASSUME RolesTypeOK, NEW r \in Request, NEW o, End(r, o)
    PROVE  /\ requests' \in [Request -> Local]
           /\ requests'[r] = Idle /\ at'[r] = "over" /\ outcomes' = [outcomes EXCEPT ![r] = o]
           /\ \A q \in Request \ {r} : requests'[q] = requests[q]
           /\ at' \in [Request -> Step]
           /\ OthersKeep(r)
BY IdleIsLocal, SetEffect, GotoEffect DEF End, OthersKeep, Step

-----------------------------------------------------------------------------
(* Giving up, and being refused, are one: a request that is refused has    *)
(* changed nothing.                                                        *)
GivesUp(r) ==
    /\ \E o \in {"refused", "taken", "ok"} : End(r, o)
    /\ spoiled' = IF HalfDone(r) THEN spoiled \cup {Target(requests[r])} ELSE spoiled
    /\ mishap' = (mishap \/ (HalfDone(r) /\ requests[r].kind = "bootstrap"))
    /\ UNCHANGED <<rows, audit>>

LEMMA RefusedGivesUp ==
    ASSUME TypeInv, NEW r \in Request, ~HalfDone(r), NEW o \in {"refused", "taken", "ok"},
           End(r, o), UNCHANGED <<rows, history>>
    PROVE  GivesUp(r)
BY DEF GivesUp, history, TypeInv, RolesTypeOK

LEMMA FailGivesUp ==
    ASSUME NEW r \in Request, Fail(r) PROVE GivesUp(r)
BY DEF Fail, GivesUp

LEMMA NotWritten ==
    ASSUME TypeInv, NEW r \in Request, at[r] \notin WrittenAt(requests[r].kind)
    PROVE  ~HalfDone(r)
BY DEF HalfDone, AtWork, TypeInv, Ready, ReadyAt

-----------------------------------------------------------------------------
(* Where a step leads that does not end its request, and with what.        *)
Moves(r, s, l) ==
    /\ at'[r] = s /\ at' \in [Request -> Step]
    /\ requests' \in [Request -> Local]
    /\ SameWork(l, requests'[r])
    /\ OthersKeep(r)

SharedStays == \A q \in Request : requests'[q].shared = requests[q].shared

LEMMA SetMoves ==
    ASSUME RolesTypeOK, NEW r \in Request, NEW s \in Step, NEW l \in Local,
           Goto(r, s), Set(r, l)
    PROVE  /\ Moves(r, s, l) /\ requests'[r] = l
           /\ l.shared = requests[r].shared => SharedStays
<1>1. Moves(r, s, l) /\ requests'[r] = l
  BY SetEffect, GotoEffect, FlagsAreNoWork DEF Moves, OthersKeep
<1>2. ASSUME l.shared = requests[r].shared, NEW q \in Request
      PROVE  requests'[q].shared = requests[q].shared
  <2>1. requests'[r] = l
    BY <1>1
  <2>2. q # r => requests'[q] = requests[q]
    BY SetEffect
  <2> QED BY <1>2, <2>1, <2>2
<1> QED BY <1>1, <1>2 DEF SharedStays

LEMMA StayMoves ==
    ASSUME RolesTypeOK, NEW r \in Request, NEW s \in Step, Goto(r, s), UNCHANGED requests
    PROVE  Moves(r, s, requests[r]) /\ SharedStays
BY StayEffect, GotoEffect, FlagsAreNoWork DEF Moves, OthersKeep, RolesTypeOK, SharedStays

LEMMA TakeMoves ==
    ASSUME RolesTypeOK, NEW r \in Request, NEW s \in Step, NEW x, NEW l \in Local,
           Goto(r, s), Take(r, x, l)
    PROVE  Moves(r, s, [l EXCEPT !.shared = FALSE])
BY TakeEffect, GotoEffect DEF Moves, OthersKeep

(* The steps of handlers of roles.                                         *)
LEMMA CheckRoleNameMoves ==
    ASSUME TypeInv, NEW r \in Request, CheckRoleName(r), ~GivesUp(r)
    PROVE  /\ at[r] = "check" /\ requests[r].kind = "createRole"
           /\ Moves(r, "insert", requests[r])
           /\ UNCHANGED <<rows, history, outcomes, requests>>
<1>1. at[r] = "check" /\ requests[r].kind = "createRole" /\ UNCHANGED <<rows, history>>
  BY DEF CheckRoleName, At
<1>2. ~HalfDone(r)
  BY <1>1, NotWritten DEF WrittenAt
<1>3. Goto(r, "insert") /\ UNCHANGED <<requests, outcomes>>
  BY <1>1, <1>2, RefusedGivesUp DEF CheckRoleName
<1> QED BY <1>1, <1>3, StayMoves DEF TypeInv, Step

LEMMA InsertRoleMoves ==
    ASSUME TypeInv, NEW r \in Request, NEW i \in Role, InsertRole(r, i), ~GivesUp(r)
    PROVE  LET l == [requests[r] EXCEPT !.role = i, !.changed = TRUE] IN
           /\ at[r] = "insert" /\ l.kind = "createRole"
           /\ roles[i].state = "none" /\ IdsOf(l.name) = {}
           /\ Moves(r, "clear", [l EXCEPT !.shared = FALSE])
           /\ Take(r, i, l) /\ l \in Local
           /\ roles' = [roles EXCEPT ![i] = [NoRole(l.name) EXCEPT !.state = "live"]]
           /\ UNCHANGED <<users, catalog, grants, outcomes, audit, mishap>>
<1> DEFINE l == [requests[r] EXCEPT !.role = i, !.changed = TRUE]
<1>1. at[r] = "insert" /\ requests[r].kind = "createRole" /\ roles[i].state = "none"
  BY DEF InsertRole, At
<1>2. ~HalfDone(r)
  BY <1>1, NotWritten DEF WrittenAt
<1>3. IdsOf(requests[r].name) = {}
  BY <1>2, RefusedGivesUp DEF InsertRole, rows, history
<1>4. l \in Local /\ l.kind = "createRole" /\ l.name = requests[r].name
  <2>1. requests[r] \in Local /\ i \in Role \cup {None}
    BY DEF TypeInv, RolesTypeOK
  <2>2. [requests[r] EXCEPT !.role = i] \in Local
    BY <2>1 DEF Local
  <2>3. l = [[requests[r] EXCEPT !.role = i] EXCEPT !.changed = TRUE]
    BY <2>1 DEF Local
  <2>4. l \in Local
    BY <2>2, <2>3, LocalKeeps
  <2>5. l.kind = requests[r].kind /\ l.name = requests[r].name
    BY <2>1 DEF Local
  <2> QED BY <2>4, <2>5, <1>1
<1>5. Goto(r, "clear") /\ Take(r, i, l)
  BY <1>3 DEF InsertRole
<1> HIDE DEF l
<1>6. Moves(r, "clear", [l EXCEPT !.shared = FALSE])
  BY <1>4, <1>5, TakeMoves DEF TypeInv, Step
<1> QED BY <1>1, <1>3, <1>4, <1>5, <1>6 DEF InsertRole, l

LEMMA ReadRoleMoves ==
    ASSUME TypeInv, NEW r \in Request, ReadRole(r), ~GivesUp(r)
    PROVE  LET l == requests[r] IN
           /\ at[r] = "read" /\ l.kind \in {"updateRole", "deleteRole"}
           /\ Exists(l.role) /\ l.role # SuperAdmin /\ Take(r, l.role, l)
           /\ Moves(r, IF l.kind = "updateRole" THEN "clear" ELSE "check",
                    [l EXCEPT !.shared = FALSE])
           /\ UNCHANGED <<rows, outcomes, audit, mishap>>
BY FailGivesUp, TakeMoves DEF ReadRole, TypeInv, RolesTypeOK, At, Step

LEMMA ClearPermissionsMoves ==
    ASSUME TypeInv, NEW r \in Request, ClearPermissions(r), ~GivesUp(r)
    PROVE  LET l == requests[r] IN
           /\ at[r] = "clear" /\ Wildcard \notin l.wanted
           /\ Moves(r, "fill", [l EXCEPT !.changed = TRUE]) /\ SharedStays
           /\ roles' = [roles EXCEPT ![l.role].permissions = {}]
           /\ UNCHANGED <<users, catalog, grants, outcomes, history>>
<1> DEFINE l == requests[r]
           k == [l EXCEPT !.changed = TRUE]
<1>1. k \in Local /\ k.shared = l.shared
  BY LocalKeeps DEF TypeInv, RolesTypeOK
<1>2. /\ at[r] = "clear" /\ Wildcard \notin l.wanted
      /\ Set(r, k) /\ Goto(r, "fill")
      /\ roles' = [roles EXCEPT ![l.role].permissions = {}]
      /\ UNCHANGED <<users, catalog, grants, outcomes, history>>
  BY FailGivesUp DEF ClearPermissions, At
<1> HIDE DEF k
<1>3. Moves(r, "fill", k) /\ SharedStays
  BY <1>1, <1>2, SetMoves DEF TypeInv, Step
<1> QED BY <1>2, <1>3 DEF k

LEMMA FillPermissionsMoves ==
    ASSUME TypeInv, NEW r \in Request, FillPermissions(r), ~GivesUp(r)
    PROVE  LET l == requests[r] IN
           /\ at[r] = "fill" /\ Moves(r, AfterFill(l), l)
           /\ roles' = [roles EXCEPT ![l.role].permissions = @ \cup (l.wanted \cap catalog)]
           /\ UNCHANGED <<users, catalog, grants, outcomes, history, requests>>
BY FailGivesUp, StayMoves DEF FillPermissions, AfterFill, TypeInv, At, Step

LEMMA RereadRoleMoves ==
    ASSUME TypeInv, NEW r \in Request, RereadRole(r), ~GivesUp(r)
    PROVE  /\ at[r] = "reread" /\ Moves(r, "audit", requests[r])
           /\ UNCHANGED <<rows, outcomes, history, requests>>
BY FailGivesUp, StayMoves DEF RereadRole, TypeInv, At, Step

LEMMA CheckHoldersMoves ==
    ASSUME TypeInv, NEW r \in Request, CheckHolders(r), ~GivesUp(r)
    PROVE  LET l == requests[r] IN
           /\ at[r] = "check" /\ l.kind = "deleteRole" /\ Holders(l.role) = {}
           /\ Moves(r, "delete", [l EXCEPT !.raced = FALSE]) /\ SharedStays
           /\ UNCHANGED <<rows, outcomes, history>>
<1> DEFINE l == requests[r]
           k == [l EXCEPT !.raced = FALSE]
<1>1. k \in Local /\ k.shared = l.shared
  BY LocalKeeps DEF TypeInv, RolesTypeOK
<1>2. /\ at[r] = "check" /\ l.kind = "deleteRole" /\ Holders(l.role) = {}
      /\ Set(r, k) /\ Goto(r, "delete")
      /\ UNCHANGED <<rows, outcomes, history>>
  BY FailGivesUp DEF CheckHolders, At
<1> HIDE DEF k
<1>3. Moves(r, "delete", k) /\ SharedStays
  BY <1>1, <1>2, SetMoves DEF TypeInv, Step
<1> QED BY <1>2, <1>3 DEF k

LEMMA DeleteRoleMoves ==
    ASSUME TypeInv, NEW r \in Request, DeleteRole(r)
    PROVE  LET l == requests[r] IN
           /\ at[r] = "delete" /\ l.kind = "deleteRole"
           /\ Moves(r, "audit", [l EXCEPT !.changed = TRUE])
           /\ requests'[r].shared = l.shared
           /\ roles' = [roles EXCEPT ![l.role] = [@ EXCEPT !.state = "deleted", !.permissions = {}]]
           /\ grants' = {g \in grants : g.role # l.role}
           /\ spoiled' = IF l.raced THEN spoiled \cup Holders(l.role) ELSE spoiled
           /\ \A q \in Request \ {r} : requests'[q].shared =
                 (requests[q].shared \/ (l.raced /\ requests[q].user \in Holders(l.role)))
           /\ UNCHANGED <<users, catalog, outcomes, audit, mishap>>
<1> DEFINE l == requests[r]
           hit(q) == l.raced /\ requests[q].user \in Holders(l.role)
           k(q) == [requests[q] EXCEPT !.shared = @ \/ hit(q)]
           m == [l EXCEPT !.changed = TRUE]
<1>1. requests' = [q \in Request |-> IF q = r THEN m ELSE k(q)]
  BY DEF DeleteRole
<1>2. m \in Local /\ SameWork(m, m) /\ m.shared = l.shared
  BY LocalKeeps, FlagsAreNoWork DEF TypeInv, RolesTypeOK
<1>3. ASSUME NEW q \in Request
      PROVE  k(q) \in Local /\ SameWork(requests[q], k(q)) /\ k(q).shared = (requests[q].shared \/ hit(q))
  <2>1. requests[q] \in Local
    BY DEF TypeInv, RolesTypeOK
  <2>2. hit(q) \in BOOLEAN
    BY DEF TypeInv, RolesTypeOK, Local
  <2> HIDE DEF hit
  <2> QED BY <2>1, <2>2, FlagsAreNoWork DEF Local
<1> HIDE DEF k, m
<1>4. requests' \in [Request -> Local] /\ requests'[r] = m
  BY <1>1, <1>2, <1>3
<1>5. \A q \in Request \ {r} : requests'[q] = k(q)
  BY <1>1
<1>6. Goto(r, "audit")
  BY DEF DeleteRole
<1>7. Moves(r, "audit", m)
  BY <1>2, <1>3, <1>4, <1>5, <1>6, GotoEffect DEF Moves, OthersKeep, TypeInv, Step
<1> QED BY <1>2, <1>3, <1>4, <1>5, <1>7 DEF DeleteRole, At, m

LEMMA InsertPermissionMoves ==
    ASSUME TypeInv, NEW r \in Request, InsertPermission(r)
    PROVE  LET l == requests[r] IN
           /\ at[r] = "insert" /\ l.kind = "createPermission"
           /\ Moves(r, "audit", [l EXCEPT !.changed = TRUE]) /\ SharedStays
           /\ catalog' = catalog \cup l.wanted
           /\ UNCHANGED <<users, roles, grants, outcomes, history>>
<1> DEFINE l == requests[r]
           k == [l EXCEPT !.changed = TRUE]
<1>1. k \in Local /\ k.shared = l.shared
  BY LocalKeeps DEF TypeInv, RolesTypeOK
<1>2. /\ at[r] = "insert" /\ l.kind = "createPermission"
      /\ Set(r, k) /\ Goto(r, "audit")
      /\ catalog' = catalog \cup l.wanted
      /\ UNCHANGED <<users, roles, grants, outcomes, history>>
  BY DEF InsertPermission, At
<1> HIDE DEF k
<1>3. Moves(r, "audit", k) /\ SharedStays
  BY <1>1, <1>2, SetMoves DEF TypeInv, Step
<1> QED BY <1>2, <1>3 DEF k

(* The arrival of a request, and its permission.                           *)
LEMMA BlankIsBlank ==
    ASSUME NEW kind \in Kind
    PROVE  LET k == Blank(kind) IN
           /\ k \in Local /\ k.kind = kind /\ k.user = None /\ k.role = None
           /\ k.wanted = {} /\ ~k.changed /\ ~k.shared
<1>1. /\ Idle \in Local /\ Idle.user = None /\ Idle.role = None
      /\ Idle.wanted = {} /\ ~Idle.changed /\ ~Idle.shared
  BY IdleIsLocal DEF Idle
<1> QED BY <1>1 DEF Blank, Local

LEMMA AskedReady ==
    ASSUME NEW kind \in Kind \ {"bootstrap"}, NEW l \in Asked(kind)
    PROVE  /\ l \in Local /\ l.kind = kind /\ ~l.changed /\ ~l.shared
           /\ ReadyAt("permit", l)
<1> DEFINE k == Blank(kind)
<1>1. /\ k \in Local /\ k.kind = kind /\ k.user = None /\ k.role = None
      /\ k.wanted = {} /\ ~k.changed /\ ~k.shared
  BY BlankIsBlank
<1>2. CASE kind = "createRole"
  <2>1. PICK n \in RoleName, ps \in SUBSET (Permission \cup {Wildcard}) : l = NewRole(k, n, ps)
    BY <1>2 DEF Asked
  <2> HIDE DEF k
  <2> QED BY <1>1, <1>2, <2>1 DEF NewRole, Local, ReadyAt, StepsOf, OfUser, Name
<1>3. CASE kind = "updateRole"
  <2>1. PICK i \in Role, ps \in SUBSET (Permission \cup {Wildcard}) : l = RoleToHave(k, i, ps)
    BY <1>3 DEF Asked
  <2> HIDE DEF k
  <2> QED BY <1>1, <1>3, <2>1 DEF RoleToHave, Local, ReadyAt, StepsOf, OfUser, Name
<1>4. CASE kind = "deleteRole"
  <2>1. PICK i \in Role : l = [k EXCEPT !.role = i]
    BY <1>4 DEF Asked
  <2> HIDE DEF k
  <2> QED BY <1>1, <1>4, <2>1 DEF Local, ReadyAt, StepsOf, OfUser, Name
<1>5. CASE kind = "createPermission"
  <2>1. PICK p \in Permission : l = [k EXCEPT !.wanted = {p}]
    BY <1>5 DEF Asked
  <2> HIDE DEF k
  <2> QED BY <1>1, <1>5, <2>1 DEF Local, ReadyAt, StepsOf, OfUser, Name
<1>6. CASE kind \in {"setRoles", "createUser", "onboard"}
  <2>1. PICK u \in User, ns \in SUBSET Name : l = UserToHave(k, u, ns)
    BY <1>6 DEF Asked
  <2> HIDE DEF k
  <2> QED BY <1>1, <1>6, <2>1 DEF UserToHave, Local, ReadyAt, StepsOf, OfUser, Name
<1>7. CASE kind = "deleteUser"
  <2>1. PICK u \in User : l = [k EXCEPT !.user = u]
    BY <1>7 DEF Asked
  <2> HIDE DEF k
  <2> QED BY <1>1, <1>7, <2>1 DEF Local, ReadyAt, StepsOf, OfUser, Name
<1> QED BY <1>2, <1>3, <1>4, <1>5, <1>6, <1>7 DEF Kind

LEMMA PermissionsAreTyped ==
    ASSUME RolesTypeOK, NEW u
    PROVE  PermissionsOf(u) \subseteq Permission
BY DEF RolesTypeOK, PermissionsOf, Grant, RoleRow

LEMMA RolesAreNames ==
    ASSUME RolesTypeOK, NEW u
    PROVE  RolesOf(u) \subseteq Name
BY DEF RolesTypeOK, RolesOf, Grant, RoleRow

LEMMA AuthenticateMoves ==
    ASSUME TypeInv, NEW r \in Request, NEW a \in User, Authenticate(r, a)
    PROVE  \E l \in Local :
              /\ at[r] = "idle" /\ Live(a)
              /\ l.kind # "bootstrap" /\ l.held = PermissionsOf(a) /\ l.actor = a
              /\ ~l.changed /\ ReadyAt("permit", l)
              /\ Moves(r, "permit", l) /\ requests'[r] = l
              /\ \A q \in Request \ {r} : requests'[q] = requests[q]
              /\ UNCHANGED <<rows, outcomes, history>>
<1>1. PICK kind \in Kinds \ {"bootstrap"} : \E k \in Asked(kind) :
          Set(r, [k EXCEPT !.actor = a, !.held = PermissionsOf(a)])
  BY DEF Authenticate
<1>2. PICK k \in Asked(kind) : Set(r, [k EXCEPT !.actor = a, !.held = PermissionsOf(a)])
  BY <1>1
<1> DEFINE l == [k EXCEPT !.actor = a, !.held = PermissionsOf(a)]
<1>3. k \in Local /\ k.kind = kind /\ ~k.changed /\ ReadyAt("permit", k)
  BY KindsAssumption, AskedReady
<1>4. /\ l \in Local /\ l.kind = k.kind /\ l.held = PermissionsOf(a) /\ l.actor = a
      /\ l.changed = k.changed /\ l.user = k.user /\ l.wanted = k.wanted
      /\ l.name = k.name /\ l.role = k.role
  <2>1. PermissionsOf(a) \in SUBSET Permission /\ a \in User \cup {None}
    BY PermissionsAreTyped DEF TypeInv
  <2> HIDE DEF PermissionsOf
  <2> QED BY <1>3, <2>1 DEF Local
<1>5. ReadyAt("permit", l)
  BY <1>3, <1>4 DEF ReadyAt
<1> HIDE DEF l
<1>6. Goto(r, "permit") /\ Set(r, l)
  BY <1>2 DEF Authenticate, l
<1>7. Moves(r, "permit", l) /\ requests'[r] = l
  BY <1>4, <1>6, SetMoves DEF TypeInv, Step
<1>8. \A q \in Request \ {r} : requests'[q] = requests[q]
  BY <1>4, <1>6, SetEffect DEF TypeInv
<1>9. at[r] = "idle" /\ Live(a) /\ UNCHANGED <<rows, outcomes, history>>
  BY DEF Authenticate, At
<1> QED BY <1>3, <1>4, <1>5, <1>7, <1>8, <1>9

LEMMA CountAdminsMoves ==
    ASSUME TypeInv, NEW r \in Request, NEW u \in User, CountAdmins(r, u), ~GivesUp(r)
    PROVE  LET l == [Idle EXCEPT !.user = u] IN
           /\ at[r] = "idle" /\ Admins = {} /\ BootstrapUser \in {None, u}
           /\ l \in Local /\ Take(r, u, l)
           /\ Moves(r, "check", [l EXCEPT !.shared = FALSE])
           /\ UNCHANGED <<rows, outcomes, audit, mishap>>
<1> DEFINE l == [Idle EXCEPT !.user = u]
<1>1. at[r] = "idle" /\ BootstrapUser \in {None, u}
  BY DEF CountAdmins, At
<1>2. ~HalfDone(r)
  BY <1>1 DEF HalfDone, AtWork, Active
<1>3. Admins = {}
  BY <1>2, RefusedGivesUp DEF CountAdmins, history
<1>4. l \in Local
  BY IdleIsLocal DEF Local
<1>5. Take(r, u, l) /\ Goto(r, "check")
  BY <1>3 DEF CountAdmins
<1> HIDE DEF l
<1>6. Moves(r, "check", [l EXCEPT !.shared = FALSE])
  BY <1>4, <1>5, TakeMoves DEF TypeInv, Step
<1> QED BY <1>1, <1>3, <1>4, <1>5, <1>6 DEF CountAdmins, l

LEMMA PermitMoves ==
    ASSUME TypeInv, NEW r \in Request, Permit(r), ~GivesUp(r)
    PROVE  LET l == requests[r] IN
           /\ at[r] = "permit" /\ (l.actor \in Admins \/ Needed(l.kind) \cap l.held # {})
           /\ Moves(r, First(l.kind), [l EXCEPT !.actor = None, !.held = {}])
           /\ SharedStays
           /\ UNCHANGED <<rows, outcomes, history>>
<1> DEFINE l == requests[r]
           k == [l EXCEPT !.actor = None, !.held = {}]
<1>1. at[r] = "permit"
  BY DEF Permit, At
<1>2. ~HalfDone(r)
  BY <1>1 DEF HalfDone, AtWork, At
<1>3. l.actor \in Admins \/ Needed(l.kind) \cap l.held # {}
  BY <1>2, RefusedGivesUp DEF Permit
<1>4. k \in Local /\ k.shared = l.shared
  <2>1. l \in Local /\ None \in User \cup {None} /\ {} \in SUBSET Permission
    BY DEF TypeInv, RolesTypeOK
  <2> HIDE DEF l
  <2> QED BY <2>1 DEF Local
<1>5. First(l.kind) \in Step
  BY DEF First, Step
<1>6. Set(r, k) /\ Goto(r, First(l.kind)) /\ UNCHANGED <<rows, outcomes, history>>
  BY <1>3 DEF Permit
<1> HIDE DEF k
<1>7. Moves(r, First(l.kind), k) /\ SharedStays
  BY <1>4, <1>5, <1>6, SetMoves DEF TypeInv
<1> QED BY <1>1, <1>3, <1>6, <1>7 DEF k

(* Steps that race others: their checks are overtaken, no more.            *)
LEMMA RacedKeeps ==
    ASSUME NEW k \in Local, NEW b \in BOOLEAN
    PROVE  LET m == [k EXCEPT !.raced = @ \/ b] IN
           m \in Local /\ SameWork(k, m) /\ m.shared = k.shared /\ (b => m.raced)
BY DEF Local, SameWork

LEMMA RaceEffect ==
    ASSUME RolesTypeOK, NEW r \in Request, NEW s \in Step, NEW l \in Local,
           l.shared = requests[r].shared, Goto(r, s),
           requests' = [q \in Request |-> requests'[q]], requests'[r] = l,
           \A q \in Request \ {r} : /\ requests'[q] \in Local
                                    /\ SameWork(requests[q], requests'[q])
                                    /\ requests'[q].shared = requests[q].shared
    PROVE  Moves(r, s, l) /\ SharedStays
<1>1. requests' \in [Request -> Local]
  <2>1. \A q \in Request : requests'[q] \in Local
    OBVIOUS
  <2> QED BY <2>1
<1>2. SameWork(l, l)
  BY FlagsAreNoWork
<1> QED BY <1>1, <1>2, GotoEffect DEF Moves, OthersKeep, SharedStays

LEMMA SetAndRaceEffect ==
    ASSUME RolesTypeOK, NEW r \in Request, NEW s \in Step, NEW l \in Local,
           l.shared = requests[r].shared, Goto(r, s),
           NEW hit, hit \in [Request -> BOOLEAN],
           requests' = [q \in Request |-> requests'[q]], requests'[r] = l,
           \A q \in Request \ {r} : requests'[q] = [requests[q] EXCEPT !.raced = @ \/ hit[q]]
    PROVE  /\ Moves(r, s, l) /\ SharedStays
           /\ \A q \in Request \ {r} : hit[q] => requests'[q].raced
<1>1. ASSUME NEW q \in Request \ {r}
      PROVE  /\ requests'[q] \in Local /\ SameWork(requests[q], requests'[q])
             /\ requests'[q].shared = requests[q].shared
             /\ hit[q] => requests'[q].raced
  <2> DEFINE m == [requests[q] EXCEPT !.raced = @ \/ hit[q]]
  <2>1. requests[q] \in Local /\ hit[q] \in BOOLEAN /\ requests'[q] = m
    BY DEF RolesTypeOK
  <2>2. /\ m \in Local /\ SameWork(requests[q], m)
        /\ m.shared = requests[q].shared /\ (hit[q] => m.raced)
    BY <2>1, RacedKeeps
  <2> HIDE DEF m
  <2> QED BY <2>1, <2>2
<1> QED BY <1>1, RaceEffect

LEMMA ReadUserMoves ==
    ASSUME TypeInv, NEW r \in Request, ReadUser(r), ~GivesUp(r)
    PROVE  LET l == requests[r]
               todo == (RolesOf(l.user) \ l.wanted) \cup (l.wanted \ RolesOf(l.user))
               k == [l EXCEPT !.current = RolesOf(l.user), !.todo = todo]
           IN  /\ at[r] = "read" /\ l.kind = "setRoles" /\ Live(l.user)
               /\ k \in Local /\ Take(r, l.user, k)
               /\ Moves(r, Remains(todo), [k EXCEPT !.shared = FALSE])
               /\ UNCHANGED <<rows, outcomes, audit, mishap>>
<1> DEFINE l == requests[r]
           todo == (RolesOf(l.user) \ l.wanted) \cup (l.wanted \ RolesOf(l.user))
           k == [l EXCEPT !.current = RolesOf(l.user), !.todo = todo]
<1>1. at[r] = "read" /\ l.kind = "setRoles"
  BY DEF ReadUser, At
<1>2. /\ Live(l.user) /\ Take(r, l.user, k) /\ Goto(r, Remains(todo))
      /\ UNCHANGED <<rows, outcomes, audit, mishap>>
  BY FailGivesUp DEF ReadUser
<1>3. l.wanted \subseteq Name
  BY <1>1 DEF TypeInv, Ready, ReadyAt, Active, OfUser
<1>4. RolesOf(l.user) \in SUBSET Name /\ todo \in SUBSET Name /\ l \in Local
  BY <1>3, RolesAreNames DEF TypeInv, RolesTypeOK
<1> HIDE DEF todo, l
<1>5. k \in Local
  <2> HIDE DEF RolesOf
  <2> QED BY <1>4 DEF Local
<1> HIDE DEF k
<1>6. Remains(todo) \in Step
  BY DEF Remains, Step
<1>7. Moves(r, Remains(todo), [k EXCEPT !.shared = FALSE])
  BY <1>2, <1>5, <1>6, TakeMoves DEF TypeInv
<1> QED BY <1>1, <1>2, <1>5, <1>7 DEF k, l, todo

LEMMA NextRoleMoves ==
    ASSUME TypeInv, NEW r \in Request, NEW n \in Name, NextRole(r, n), ~GivesUp(r)
    PROVE  LET l == requests[r] IN
           /\ at[r] = "next" /\ InOrder(l, n)
           /\ ~(n \in l.current /\ n = "SUPER_ADMIN" /\ Cardinality(Admins) <= 1)
           /\ \E i \in IdsOf(n) :
                 Moves(r, IF n \in l.current THEN "remove" ELSE "add",
                       [l EXCEPT !.role = i, !.todo = @ \ {n}, !.raced = FALSE])
           /\ SharedStays
           /\ UNCHANGED <<rows, outcomes, history>>
<1> DEFINE l == requests[r]
           k(i) == [l EXCEPT !.role = i, !.todo = @ \ {n}, !.raced = FALSE]
           s == IF n \in l.current THEN "remove" ELSE "add"
<1>1. /\ at[r] = "next" /\ InOrder(l, n)
      /\ ~(n \in l.current /\ n = "SUPER_ADMIN" /\ Cardinality(Admins) <= 1)
      /\ \E i \in IdsOf(n) : Set(r, k(i))
      /\ Goto(r, s)
      /\ UNCHANGED <<rows, outcomes, history>>
  BY FailGivesUp DEF NextRole, At
<1>2. PICK i \in IdsOf(n) : Set(r, k(i))
  BY <1>1
<1>3. k(i) \in Local /\ k(i).shared = l.shared
  <2>1. l \in Local /\ i \in Role \cup {None} /\ l.todo \ {n} \in SUBSET Name
    BY DEF TypeInv, RolesTypeOK, IdsOf, Local
  <2> HIDE DEF l
  <2> QED BY <2>1 DEF Local
<1>4. s \in Step
  BY DEF Step
<1> HIDE DEF k, s
<1>5. Moves(r, s, k(i)) /\ SharedStays
  BY <1>1, <1>2, <1>3, <1>4, SetMoves DEF TypeInv
<1> QED BY <1>1, <1>5 DEF k, s

LEMMA RemoveGrantMoves ==
    ASSUME TypeInv, NEW r \in Request, RemoveGrant(r)
    PROVE  LET l == requests[r]
               takesAdmin == l.role = SuperAdmin
           IN  /\ at[r] = "remove"
               /\ Moves(r, Remains(l.todo), [l EXCEPT !.changed = TRUE])
               /\ SharedStays
               /\ \A q \in Request \ {r} : takesAdmin /\ at[q] = "remove" => requests'[q].raced
               /\ grants' = grants \ {[user |-> l.user, role |-> l.role]}
               /\ mishap' = (mishap \/ (takesAdmin /\ l.raced /\ Admins \subseteq {l.user}))
               /\ UNCHANGED <<users, roles, catalog, outcomes, audit, spoiled>>
<1> DEFINE l == requests[r]
           hit == [q \in Request |-> l.role = SuperAdmin /\ at[q] = "remove"]
           k == [l EXCEPT !.changed = TRUE]
<1>1. hit \in [Request -> BOOLEAN] /\ k \in Local /\ k.shared = l.shared
  BY LocalKeeps DEF TypeInv, RolesTypeOK
<1>2. /\ requests' = [q \in Request |-> requests'[q]] /\ requests'[r] = k
      /\ \A q \in Request \ {r} : requests'[q] = [requests[q] EXCEPT !.raced = @ \/ hit[q]]
  BY DEF RemoveGrant, SetAndRace, At
<1>3. Goto(r, Remains(l.todo)) /\ Remains(l.todo) \in Step
  BY DEF RemoveGrant, Remains, Step
<1>4. \A q \in Request : hit[q] = (l.role = SuperAdmin /\ at[q] = "remove")
  OBVIOUS
<1> HIDE DEF hit, k
<1>5. /\ Moves(r, Remains(l.todo), k) /\ SharedStays
      /\ \A q \in Request \ {r} : hit[q] => requests'[q].raced
  BY <1>1, <1>2, <1>3, SetAndRaceEffect DEF TypeInv
<1>6. /\ at[r] = "remove"
      /\ grants' = grants \ {[user |-> l.user, role |-> l.role]}
      /\ mishap' = (mishap \/ (l.role = SuperAdmin /\ l.raced /\ Admins \subseteq {l.user}))
      /\ UNCHANGED <<users, roles, catalog, outcomes, audit, spoiled>>
  BY DEF RemoveGrant, At
<1> QED BY <1>4, <1>5, <1>6 DEF k

LEMMA AddGrantMoves ==
    ASSUME TypeInv, NEW r \in Request, AddGrant(r), ~GivesUp(r)
    PROVE  LET l == requests[r] IN
           /\ at[r] = "add" /\ Exists(l.role)
           /\ Moves(r, Remains(l.todo), [l EXCEPT !.changed = TRUE])
           /\ SharedStays
           /\ \A q \in Request \ {r} : Overtakes(q, {l.role}) => requests'[q].raced
           /\ grants' = grants \cup {[user |-> l.user, role |-> l.role]}
           /\ UNCHANGED <<users, roles, catalog, outcomes, history>>
<1> DEFINE l == requests[r]
           hit == [q \in Request |-> Overtakes(q, {l.role})]
           k == [l EXCEPT !.changed = TRUE]
<1>1. hit \in [Request -> BOOLEAN] /\ k \in Local /\ k.shared = l.shared
  BY LocalKeeps DEF TypeInv, RolesTypeOK, Overtakes
<1>2. /\ at[r] = "add" /\ Exists(l.role) /\ Goto(r, Remains(l.todo))
      /\ requests' = [q \in Request |-> requests'[q]] /\ requests'[r] = k
      /\ \A q \in Request \ {r} : requests'[q] = [requests[q] EXCEPT !.raced = @ \/ hit[q]]
      /\ grants' = grants \cup {[user |-> l.user, role |-> l.role]}
      /\ UNCHANGED <<users, roles, catalog, outcomes, history>>
  BY FailGivesUp DEF AddGrant, SetAndRace, At
<1>3. Remains(l.todo) \in Step
  BY DEF Remains, Step
<1>4. \A q \in Request : hit[q] = Overtakes(q, {l.role})
  OBVIOUS
<1> HIDE DEF hit, k
<1>5. /\ Moves(r, Remains(l.todo), k) /\ SharedStays
      /\ \A q \in Request \ {r} : hit[q] => requests'[q].raced
  BY <1>1, <1>2, <1>3, SetAndRaceEffect DEF TypeInv
<1> QED BY <1>2, <1>4, <1>5 DEF k

LEMMA AssignSuperAdminMoves ==
    ASSUME TypeInv, NEW r \in Request, AssignSuperAdmin(r)
    PROVE  LET l == requests[r] IN
           /\ at[r] = "assign" /\ Moves(r, "audit", l) /\ SharedStays
           /\ \A q \in Request \ {r} : Overtakes(q, {SuperAdmin}) => requests'[q].raced
           /\ grants' = grants \cup {[user |-> l.user, role |-> SuperAdmin]}
           /\ UNCHANGED <<users, roles, catalog, outcomes, history>>
<1> DEFINE l == requests[r]
           hit == [q \in Request |-> Overtakes(q, {SuperAdmin})]
<1>1. hit \in [Request -> BOOLEAN] /\ l \in Local
  BY DEF TypeInv, RolesTypeOK, Overtakes
<1>2. /\ at[r] = "assign" /\ Goto(r, "audit")
      /\ requests' = [q \in Request |-> requests'[q]] /\ requests'[r] = l
      /\ \A q \in Request \ {r} : requests'[q] = [requests[q] EXCEPT !.raced = @ \/ hit[q]]
      /\ grants' = grants \cup {[user |-> l.user, role |-> SuperAdmin]}
      /\ UNCHANGED <<users, roles, catalog, outcomes, history>>
  BY DEF AssignSuperAdmin, SetAndRace, At
<1>3. \A q \in Request : hit[q] = Overtakes(q, {SuperAdmin})
  OBVIOUS
<1> HIDE DEF hit
<1>4. /\ Moves(r, "audit", l) /\ SharedStays
      /\ \A q \in Request \ {r} : hit[q] => requests'[q].raced
  BY <1>1, <1>2, SetAndRaceEffect DEF TypeInv, Step
<1> QED BY <1>2, <1>3, <1>4

LEMMA ReadAccountMoves ==
    ASSUME TypeInv, NEW r \in Request, ReadAccount(r), ~GivesUp(r)
    PROVE  LET l == requests[r] IN
           /\ at[r] = "read" /\ l.kind = "deleteUser" /\ Live(l.user)
           /\ Moves(r, "delete", l)
           /\ UNCHANGED <<rows, requests, outcomes, history>>
BY FailGivesUp, StayMoves DEF ReadAccount, TypeInv, At, Step

LEMMA DeleteUserMoves ==
    ASSUME TypeInv, NEW r \in Request, DeleteUser(r)
    PROVE  LET l == requests[r] IN
           /\ at[r] = "delete" /\ l.kind = "deleteUser"
           /\ Moves(r, "audit", [l EXCEPT !.changed = TRUE]) /\ SharedStays
           /\ users' = [users EXCEPT ![l.user] = "deleted"]
           /\ UNCHANGED <<roles, catalog, grants, outcomes, history>>
<1> DEFINE l == requests[r]
           k == [l EXCEPT !.changed = TRUE]
<1>1. k \in Local /\ k.shared = l.shared
  BY LocalKeeps DEF TypeInv, RolesTypeOK
<1>2. /\ at[r] = "delete" /\ l.kind = "deleteUser"
      /\ Set(r, k) /\ Goto(r, "audit")
      /\ users' = [users EXCEPT ![l.user] = "deleted"]
      /\ UNCHANGED <<roles, catalog, grants, outcomes, history>>
  BY DEF DeleteUser, At
<1> HIDE DEF k
<1>3. Moves(r, "audit", k) /\ SharedStays
  BY <1>1, <1>2, SetMoves DEF TypeInv, Step
<1> QED BY <1>2, <1>3 DEF k

LEMMA ReadEmployeeIdMoves ==
    ASSUME TypeInv, NEW r \in Request, ReadEmployeeId(r), ~GivesUp(r)
    PROVE  LET l == requests[r] IN
           /\ at[r] = "read" /\ l.kind = "onboard"
           /\ Moves(r, "check", l)
           /\ UNCHANGED <<rows, requests, outcomes, history>>
<1>1. at[r] = "read" /\ requests[r].kind = "onboard" /\ UNCHANGED <<rows, history>>
  BY DEF ReadEmployeeId, At
<1>2. ~HalfDone(r)
  BY <1>1, NotWritten DEF WrittenAt
<1>3. Goto(r, "check") /\ UNCHANGED <<requests, outcomes>>
  BY <1>1, <1>2, RefusedGivesUp DEF ReadEmployeeId
<1> QED BY <1>1, <1>3, StayMoves DEF TypeInv, Step

LEMMA CheckEmailMoves ==
    ASSUME TypeInv, NEW r \in Request, CheckEmail(r), ~GivesUp(r)
    PROVE  LET l == requests[r] IN
           /\ at[r] = "check" /\ l.kind \in Creating /\ ~Live(l.user)
           /\ \/ /\ l.kind = "bootstrap" /\ Moves(r, "number", l)
                 /\ UNCHANGED <<requests, spoiled>>
              \/ /\ l.kind # "bootstrap" /\ Take(r, l.user, l)
                 /\ Moves(r, "number", [l EXCEPT !.shared = FALSE])
           /\ UNCHANGED <<rows, outcomes, audit, mishap>>
<1> DEFINE l == requests[r]
<1>1. /\ at[r] = "check" /\ l.kind \in Creating /\ ~Live(l.user)
      /\ IF l.kind = "bootstrap" THEN UNCHANGED <<requests, spoiled>> ELSE Take(r, l.user, l)
      /\ Goto(r, "number")
      /\ UNCHANGED <<rows, outcomes, audit, mishap>>
  BY FailGivesUp DEF CheckEmail, At
<1>2. l \in Local
  BY DEF TypeInv, RolesTypeOK
<1>3. CASE l.kind = "bootstrap"
  <2>1. Moves(r, "number", l)
    BY <1>1, <1>3, StayMoves DEF TypeInv, Step
  <2> QED BY <1>1, <1>3, <2>1
<1>4. CASE l.kind # "bootstrap"
  <2>1. Moves(r, "number", [l EXCEPT !.shared = FALSE])
    BY <1>1, <1>2, <1>4, TakeMoves DEF TypeInv, Step
  <2> QED BY <1>1, <1>4, <2>1
<1> QED BY <1>3, <1>4

LEMMA NextUserNumberMoves ==
    ASSUME TypeInv, NEW r \in Request, NextUserNumber(r)
    PROVE  LET l == requests[r] IN
           /\ at[r] = "number" /\ Moves(r, "insert", [l EXCEPT !.late = FALSE]) /\ SharedStays
           /\ UNCHANGED <<rows, outcomes, history>>
<1> DEFINE l == requests[r]
           k == [l EXCEPT !.late = FALSE]
<1>1. k \in Local /\ k.shared = l.shared
  BY LocalKeeps DEF TypeInv, RolesTypeOK
<1>2. /\ at[r] = "number" /\ Set(r, k) /\ Goto(r, "insert")
      /\ UNCHANGED <<rows, outcomes, history>>
  BY DEF NextUserNumber, At
<1> HIDE DEF k
<1>3. Moves(r, "insert", k) /\ SharedStays
  BY <1>1, <1>2, SetMoves DEF TypeInv, Step
<1> QED BY <1>2, <1>3 DEF k

LEMMA InsertUserMoves ==
    ASSUME TypeInv, NEW r \in Request, InsertUser(r), ~GivesUp(r)
    PROVE  LET l == requests[r]
               ids == UNION {IdsOf(n) : n \in l.wanted}
           IN  /\ at[r] = "insert" /\ l.kind \in Creating /\ users[l.user] = "none"
               /\ Moves(r, "emit", [l EXCEPT !.changed = TRUE]) /\ SharedStays
               /\ requests'[r].changed
               /\ \A q \in Request \ {r} : Overtakes(q, ids) => requests'[q].raced
               /\ users' = [users EXCEPT ![l.user] = "live"]
               /\ grants' = grants \cup [user : {l.user}, role : ids]
               /\ spoiled' = spoiled \cup {l.user}
               /\ UNCHANGED <<roles, catalog, outcomes, audit, mishap>>
<1> DEFINE l == requests[r]
           ids == UNION {IdsOf(n) : n \in l.wanted}
           k == [l EXCEPT !.changed = TRUE]
           m(q) == [requests[q] EXCEPT !.late = @ \/ At(q, "insert"),
                                       !.raced = @ \/ Overtakes(q, ids)]
<1>1. at[r] = "insert" /\ l.kind \in Creating
  BY DEF InsertUser, At
<1>2. ~HalfDone(r)
  BY <1>1, NotWritten DEF WrittenAt, Creating
<1>3. /\ users[l.user] = "none" /\ users' = [users EXCEPT ![l.user] = "live"]
      /\ grants' = grants \cup [user : {l.user}, role : ids]
      /\ requests' = [q \in Request |-> IF q = r THEN k ELSE m(q)]
      /\ spoiled' = spoiled \cup {l.user}
      /\ Goto(r, "emit")
      /\ UNCHANGED <<roles, catalog, outcomes, audit, mishap>>
  BY <1>2, RefusedGivesUp, FailGivesUp DEF InsertUser
<1>4. k \in Local /\ k.shared = l.shared /\ k.changed
  <2>1. l \in Local
    BY DEF TypeInv, RolesTypeOK
  <2> HIDE DEF l
  <2> QED BY <2>1 DEF Local
<1>5. ASSUME NEW q \in Request
      PROVE  /\ m(q) \in Local /\ SameWork(requests[q], m(q))
             /\ m(q).shared = requests[q].shared
             /\ Overtakes(q, ids) => m(q).raced
  <2>1. requests[q] \in Local /\ At(q, "insert") \in BOOLEAN /\ Overtakes(q, ids) \in BOOLEAN
    BY DEF TypeInv, RolesTypeOK, At, Overtakes
  <2> HIDE DEF At, Overtakes
  <2> QED BY <2>1 DEF Local, SameWork
<1>6. requests' = [q \in Request |-> requests'[q]] /\ requests'[r] = k
  BY <1>3
<1>7. \A q \in Request \ {r} : requests'[q] = m(q)
  BY <1>3
<1> HIDE DEF k, m
<1>8. Moves(r, "emit", k) /\ SharedStays
  BY <1>3, <1>4, <1>5, <1>6, <1>7, RaceEffect DEF TypeInv, Step
<1>9. \A q \in Request \ {r} : Overtakes(q, ids) => requests'[q].raced
  BY <1>5, <1>7
<1> QED BY <1>1, <1>3, <1>4, <1>6, <1>8, <1>9 DEF k

(* The audit record, and the event.                                        *)
LEMMA RecordAuditMoves ==
    ASSUME TypeInv, NEW r \in Request, RecordAudit(r)
    PROVE  LET l == requests[r] IN
           /\ at[r] = "audit"
           /\ IF l.kind \in Changing
              THEN /\ audit' = [audit EXCEPT ![Target(l)] =
                                  IF l.kind = "bootstrap" THEN {"SUPER_ADMIN"} ELSE l.wanted]
                   /\ spoiled' = IF l.shared THEN spoiled ELSE spoiled \ {Target(l)}
              ELSE UNCHANGED <<audit, spoiled>>
           /\ \/ l.kind \in {"bootstrap", "onboard"} /\ End(r, "ok")
              \/ /\ l.kind \notin {"bootstrap", "onboard"}
                 /\ Moves(r, "emit", l) /\ UNCHANGED <<requests, outcomes>>
           /\ UNCHANGED <<rows, mishap>>
BY StayMoves DEF RecordAudit, TypeInv, At, Step

LEMMA AnnouncedMoves ==
    ASSUME TypeInv, NEW r \in Request, Announced(r), ~GivesUp(r)
    PROVE  LET l == requests[r] IN
           /\ at[r] = "emit" /\ l.kind \in {"bootstrap", "onboard"}
           /\ Moves(r, Afterwards(l.kind), l)
           /\ UNCHANGED <<rows, requests, outcomes, history>>
<1>1. at[r] = "emit" /\ UNCHANGED <<rows, history>>
  BY DEF Announced, At
<1>2. requests[r].kind \in {"bootstrap", "onboard"}
  <2> SUFFICES ASSUME requests[r].kind \notin {"bootstrap", "onboard"} PROVE FALSE
    OBVIOUS
  <2>1. ~HalfDone(r)
    BY <1>1 DEF HalfDone, AtWork, At
  <2>2. End(r, "ok")
    BY DEF Announced
  <2> QED BY <1>1, <2>1, <2>2, RefusedGivesUp
<1>3. Goto(r, Afterwards(requests[r].kind)) /\ UNCHANGED <<requests, outcomes>>
  BY <1>2 DEF Announced
<1>4. Afterwards(requests[r].kind) \in Step
  BY DEF Afterwards, Step
<1> QED BY <1>1, <1>2, <1>3, <1>4, StayMoves DEF TypeInv

-----------------------------------------------------------------------------
(* Types, and what is known of each request.                               *)
LEMMA StepsTellKind ==
    ASSUME NEW kind \in Kind, NEW s \in StepsOf(kind)
    PROVE  /\ s \in {"clear", "fill"} => kind \in {"createRole", "updateRole"}
           /\ s = "reread" => kind = "updateRole"
           /\ s \in {"next", "remove", "add"} => kind = "setRoles"
           /\ s = "number" => kind \in Creating
           /\ s = "assign" => kind = "bootstrap"
           /\ s \notin {"idle", "over"}
BY DEF Kind, StepsOf, Creating

LEMMA SameReady ==
    ASSUME NEW k, NEW l, NEW s, SameWork(k, l), ReadyAt(s, k)
    PROVE  ReadyAt(s, l)
BY DEF SameWork, ReadyAt

LEMMA MovesTypes ==
    ASSUME TypeInv, NEW r \in Request, NEW s, NEW l, Moves(r, s, l), ReadyAt(s, l),
           users' \in [User -> UserState], roles' \in [Role -> RoleRow],
           \A i \in Role : roles'[i].permissions \subseteq catalog',
           catalog' \subseteq Permission, grants' \subseteq Grant, UNCHANGED outcomes,
           audit' \in [User \cup Role -> SUBSET (Permission \cup Name \cup {Wildcard})],
           spoiled' \subseteq User \cup Role, mishap' \in BOOLEAN
    PROVE  TypeInv'
<1>1. RolesTypeOK'
  BY DEF TypeInv, RolesTypeOK, Moves
<1>2. ReadyAt(at[r], requests[r])'
  BY SameReady DEF Moves
<1>3. ASSUME NEW q \in Request \ {r}, Active(q)' PROVE ReadyAt(at[q], requests[q])'
  <2>1. at'[q] = at[q] /\ SameWork(requests[q], requests'[q])
    BY DEF Moves, OthersKeep
  <2>2. ReadyAt(at[q], requests[q])
    BY <1>3, <2>1 DEF TypeInv, Ready, Active
  <2> QED BY <2>1, <2>2, SameReady
<1>4. Ready'
  BY <1>2, <1>3 DEF Ready
<1> QED BY <1>1, <1>4 DEF TypeInv

LEMMA GivesUpTypes ==
    ASSUME TypeInv, NEW r \in Request, GivesUp(r)
    PROVE  TypeInv'
<1>1. PICK o \in {"refused", "taken", "ok"} : End(r, o)
  BY DEF GivesUp
<1>2. /\ requests' \in [Request -> Local] /\ requests'[r] = Idle /\ at'[r] = "over"
      /\ outcomes' = [outcomes EXCEPT ![r] = o]
      /\ \A q \in Request \ {r} : requests'[q] = requests[q] /\ at'[q] = at[q]
      /\ at' \in [Request -> Step]
  BY <1>1, EndEffect DEF TypeInv, OthersKeep
<1>3. Ready'
  BY <1>2 DEF TypeInv, Ready, Active
<1>4. spoiled' \subseteq User \cup Role /\ mishap' \in BOOLEAN
  <2>1. HalfDone(r) => Target(requests[r]) \in User \cup Role
    BY DEF HalfDone, AtWork, TypeInv, Ready, ReadyAt, Target, Changing, Kind, OfUser, WrittenAt, At
  <2> QED BY <2>1 DEF GivesUp, TypeInv, RolesTypeOK
<1>5. outcomes' \in [Request -> Outcome]
  BY <1>2 DEF TypeInv, RolesTypeOK, Outcome
<1>6. UNCHANGED <<rows, audit>>
  BY DEF GivesUp
<1> QED BY <1>2, <1>3, <1>4, <1>5, <1>6 DEF TypeInv, RolesTypeOK, rows

LEMMA TakeTypes ==
    ASSUME RolesTypeOK, NEW r \in Request, NEW x \in User \cup Role, NEW l \in Local, Take(r, x, l)
    PROVE  spoiled' \subseteq User \cup Role
BY DEF Take, RolesTypeOK

LEMMA RoleStepTypes ==
    ASSUME TypeInv, NEW r \in Request, RoleStep(r), ~GivesUp(r)
    PROVE  TypeInv'
<1> DEFINE l == requests[r]
<1> USE DEF TypeInv, RolesTypeOK, rows, history
<1>1. l \in Local
  OBVIOUS
<1>2. Active(r) => ReadyAt(at[r], l)
  BY DEF Ready
<1> HIDE DEF l
<1>3. CASE CheckRoleName(r)
  <2>1. at[r] = "check" /\ l.kind = "createRole" /\ Moves(r, "insert", l)
        /\ UNCHANGED <<rows, history, outcomes>>
    BY <1>3, CheckRoleNameMoves DEF l
  <2>2. ReadyAt("insert", l)
    BY <1>2, <2>1 DEF Active, ReadyAt, StepsOf, WrittenAt, OfUser
  <2> QED BY <2>1, <2>2, MovesTypes
<1>4. CASE \E i \in Role : InsertRole(r, i)
  <2>1. PICK i \in Role : InsertRole(r, i)
    BY <1>4
  <2> DEFINE k == [l EXCEPT !.role = i, !.changed = TRUE]
             m == [k EXCEPT !.shared = FALSE]
  <2>2. /\ at[r] = "insert" /\ k.kind = "createRole" /\ k \in Local
        /\ Moves(r, "clear", m) /\ Take(r, i, k)
        /\ roles' = [roles EXCEPT ![i] = [NoRole(k.name) EXCEPT !.state = "live"]]
        /\ UNCHANGED <<users, catalog, grants, outcomes, audit, mishap>>
    BY <2>1, InsertRoleMoves DEF l
  <2>3. l.kind = "createRole"
    BY <1>1, <2>2 DEF Local
  <2>4. ReadyAt("clear", m)
    BY <1>1, <1>2, <2>2, <2>3 DEF Active, ReadyAt, StepsOf, WrittenAt, OfUser, Local
  <2> HIDE DEF k, m
  <2>5. spoiled' \subseteq User \cup Role
    BY <2>2, TakeTypes
  <2>6. [NoRole(k.name) EXCEPT !.state = "live"] \in RoleRow
        /\ [NoRole(k.name) EXCEPT !.state = "live"].permissions = {}
    BY <2>2 DEF NoRole, RoleRow, UserState, Local
  <2>7. roles' \in [Role -> RoleRow] /\ \A j \in Role : roles'[j].permissions \subseteq catalog'
    BY <2>2, <2>6
  <2> QED BY <2>2, <2>4, <2>5, <2>7, MovesTypes
<1>5. CASE ReadRole(r)
  <2> DEFINE m == [l EXCEPT !.shared = FALSE]
             s == IF l.kind = "updateRole" THEN "clear" ELSE "check"
  <2>1. /\ at[r] = "read" /\ l.kind \in {"updateRole", "deleteRole"} /\ l.role # SuperAdmin
        /\ Take(r, l.role, l) /\ Moves(r, s, m) /\ UNCHANGED <<rows, outcomes, audit, mishap>>
    BY <1>5, ReadRoleMoves DEF l
  <2>2. ReadyAt(s, m) /\ l.role \in Role
    BY <1>1, <1>2, <2>1 DEF Active, ReadyAt, StepsOf, WrittenAt, OfUser, Local
  <2> HIDE DEF m, s
  <2>3. spoiled' \subseteq User \cup Role
    BY <1>1, <2>1, <2>2, TakeTypes
  <2> QED BY <2>1, <2>2, <2>3, MovesTypes
<1>6. CASE ClearPermissions(r)
  <2> DEFINE m == [l EXCEPT !.changed = TRUE]
  <2>1. /\ at[r] = "clear" /\ Moves(r, "fill", m)
        /\ roles' = [roles EXCEPT ![l.role].permissions = {}]
        /\ UNCHANGED <<users, catalog, grants, outcomes, history>>
    BY <1>6, ClearPermissionsMoves DEF l
  <2>kind. l.kind \in {"createRole", "updateRole"}
    BY <1>1, <1>2, <2>1, StepsTellKind DEF Active, ReadyAt, Local
  <2>2. ReadyAt("fill", m) /\ l.role \in Role
    BY <1>1, <1>2, <2>1, <2>kind DEF Active, ReadyAt, StepsOf, WrittenAt, OfUser, Local
  <2>3. roles' \in [Role -> RoleRow] /\ \A j \in Role : roles'[j].permissions \subseteq catalog'
    BY <2>1, <2>2 DEF RoleRow
  <2> QED BY <2>1, <2>2, <2>3, MovesTypes
<1>7. CASE FillPermissions(r)
  <2> DEFINE s == AfterFill(l)
  <2>1. /\ at[r] = "fill" /\ Moves(r, s, l)
        /\ roles' = [roles EXCEPT ![l.role].permissions = @ \cup (l.wanted \cap catalog)]
        /\ UNCHANGED <<users, catalog, grants, outcomes, history>>
    BY <1>7, FillPermissionsMoves DEF l
  <2>kind. l.kind \in {"createRole", "updateRole"}
    BY <1>1, <1>2, <2>1, StepsTellKind DEF Active, ReadyAt, Local
  <2>2. ReadyAt(s, l) /\ l.role \in Role
    BY <1>1, <1>2, <2>1, <2>kind DEF Active, ReadyAt, StepsOf, WrittenAt, OfUser, Local, AfterFill
  <2>3. roles' \in [Role -> RoleRow] /\ \A j \in Role : roles'[j].permissions \subseteq catalog'
    BY <2>1, <2>2 DEF RoleRow
  <2> QED BY <2>1, <2>2, <2>3, MovesTypes
<1>8. CASE RereadRole(r)
  <2>1. at[r] = "reread" /\ Moves(r, "audit", l) /\ UNCHANGED <<rows, outcomes, history>>
    BY <1>8, RereadRoleMoves DEF l
  <2>kind. l.kind \in {"updateRole"}
    BY <1>1, <1>2, <2>1, StepsTellKind DEF Active, ReadyAt, Local
  <2>2. ReadyAt("audit", l)
    BY <1>1, <1>2, <2>1, <2>kind DEF Active, ReadyAt, StepsOf, WrittenAt, OfUser, Local
  <2> QED BY <2>1, <2>2, MovesTypes
<1>9. CASE CheckHolders(r)
  <2> DEFINE m == [l EXCEPT !.raced = FALSE]
  <2>1. /\ at[r] = "check" /\ l.kind = "deleteRole" /\ Moves(r, "delete", m)
        /\ UNCHANGED <<rows, outcomes, history>>
    BY <1>9, CheckHoldersMoves DEF l
  <2>2. ReadyAt("delete", m)
    BY <1>1, <1>2, <2>1 DEF Active, ReadyAt, StepsOf, WrittenAt, OfUser, Local
  <2> QED BY <2>1, <2>2, MovesTypes
<1>10. CASE DeleteRole(r)
  <2> DEFINE m == [l EXCEPT !.changed = TRUE]
  <2>1. /\ at[r] = "delete" /\ l.kind = "deleteRole" /\ Moves(r, "audit", m)
        /\ roles' = [roles EXCEPT ![l.role] = [@ EXCEPT !.state = "deleted", !.permissions = {}]]
        /\ grants' = {g \in grants : g.role # l.role}
        /\ spoiled' = IF l.raced THEN spoiled \cup Holders(l.role) ELSE spoiled
        /\ UNCHANGED <<users, catalog, outcomes, audit, mishap>>
    BY <1>10, DeleteRoleMoves DEF l
  <2>2. ReadyAt("audit", m) /\ l.role \in Role
    BY <1>1, <1>2, <2>1 DEF Active, ReadyAt, StepsOf, WrittenAt, OfUser, Local
  <2>3. roles' \in [Role -> RoleRow] /\ \A j \in Role : roles'[j].permissions \subseteq catalog'
    BY <2>1, <2>2 DEF RoleRow, UserState
  <2>4. Holders(l.role) \subseteq User
    BY DEF Holders, Grant
  <2> QED BY <2>1, <2>2, <2>3, <2>4, MovesTypes
<1>11. CASE InsertPermission(r)
  <2> DEFINE m == [l EXCEPT !.changed = TRUE]
  <2>1. /\ at[r] = "insert" /\ l.kind = "createPermission" /\ Moves(r, "audit", m)
        /\ catalog' = catalog \cup l.wanted
        /\ UNCHANGED <<users, roles, grants, outcomes, history>>
    BY <1>11, InsertPermissionMoves DEF l
  <2>2. ReadyAt("audit", m) /\ l.wanted \subseteq Permission
    BY <1>1, <1>2, <2>1 DEF Active, ReadyAt, StepsOf, WrittenAt, OfUser, Local
  <2> QED BY <2>1, <2>2, MovesTypes
<1> QED BY <1>3, <1>4, <1>5, <1>6, <1>7, <1>8, <1>9, <1>10, <1>11 DEF RoleStep

LEMMA UserStepTypes ==
    ASSUME TypeInv, NEW r \in Request, UserStep(r), ~GivesUp(r)
    PROVE  TypeInv'
<1> DEFINE l == requests[r]
<1> USE DEF TypeInv, RolesTypeOK, rows, history
<1>1. l \in Local
  OBVIOUS
<1>2. Active(r) => ReadyAt(at[r], l)
  BY DEF Ready
<1> HIDE DEF l
<1>3. CASE ReadUser(r)
  <2> DEFINE todo == (RolesOf(l.user) \ l.wanted) \cup (l.wanted \ RolesOf(l.user))
             k == [l EXCEPT !.current = RolesOf(l.user), !.todo = todo]
             m == [k EXCEPT !.shared = FALSE]
             s == Remains(todo)
  <2>1. /\ at[r] = "read" /\ l.kind = "setRoles" /\ k \in Local /\ Take(r, l.user, k)
        /\ Moves(r, s, m) /\ UNCHANGED <<rows, outcomes, audit, mishap>>
    BY <1>3, ReadUserMoves DEF l
  <2>2. /\ m.kind = l.kind /\ m.user = l.user /\ m.role = l.role /\ m.name = l.name
        /\ m.wanted = l.wanted /\ m.changed = l.changed
    <3> HIDE DEF RolesOf, todo
    <3> QED BY <1>1 DEF Local
  <2>3. s \in {"next", "audit"}
    BY DEF Remains
  <2> HIDE DEF m, s, k
  <2>4. ReadyAt(s, m) /\ l.user \in User
    BY <1>1, <1>2, <2>1, <2>2, <2>3 DEF Active, ReadyAt, StepsOf, WrittenAt, OfUser
  <2>5. spoiled' \subseteq User \cup Role
    BY <1>1, <2>1, <2>4, TakeTypes
  <2> QED BY <2>1, <2>4, <2>5, MovesTypes
<1>4. CASE \E n \in Name : NextRole(r, n)
  <2>1. PICK n \in Name : NextRole(r, n)
    BY <1>4
  <2> DEFINE m(i) == [l EXCEPT !.role = i, !.todo = @ \ {n}, !.raced = FALSE]
             s == IF n \in l.current THEN "remove" ELSE "add"
  <2>2. /\ at[r] = "next" /\ \E i \in IdsOf(n) : Moves(r, s, m(i))
        /\ UNCHANGED <<rows, outcomes, history>>
    BY <2>1, NextRoleMoves DEF l
  <2>3. PICK i \in IdsOf(n) : Moves(r, s, m(i))
    BY <2>2
  <2>4. l.kind = "setRoles"
    BY <1>1, <1>2, <2>2, StepsTellKind DEF Active, ReadyAt, Local
  <2>5. ReadyAt(s, m(i))
    BY <1>1, <1>2, <2>2, <2>4 DEF Active, ReadyAt, StepsOf, WrittenAt, OfUser, Local, IdsOf
  <2> HIDE DEF m, s
  <2> QED BY <2>2, <2>3, <2>5, MovesTypes
<1>5. CASE RemoveGrant(r)
  <2> DEFINE m == [l EXCEPT !.changed = TRUE]
             s == Remains(l.todo)
  <2>1. /\ at[r] = "remove" /\ Moves(r, s, m)
        /\ grants' = grants \ {[user |-> l.user, role |-> l.role]}
        /\ mishap' = (mishap \/ (l.role = SuperAdmin /\ l.raced /\ Admins \subseteq {l.user}))
        /\ UNCHANGED <<users, roles, catalog, outcomes, audit, spoiled>>
    BY <1>5, RemoveGrantMoves DEF l
  <2>2. l.kind = "setRoles" /\ s \in {"next", "audit"}
    BY <1>1, <1>2, <2>1, StepsTellKind DEF Active, ReadyAt, Local, Remains
  <2> HIDE DEF s
  <2>3. ReadyAt(s, m)
    BY <1>1, <1>2, <2>1, <2>2 DEF Active, ReadyAt, StepsOf, WrittenAt, OfUser, Local
  <2>4. grants' \subseteq Grant /\ mishap' \in BOOLEAN
    BY <1>1, <2>1 DEF Local
  <2> QED BY <2>1, <2>3, <2>4, MovesTypes
<1>6. CASE AddGrant(r)
  <2> DEFINE m == [l EXCEPT !.changed = TRUE]
             s == Remains(l.todo)
  <2>1. /\ at[r] = "add" /\ Moves(r, s, m)
        /\ grants' = grants \cup {[user |-> l.user, role |-> l.role]}
        /\ UNCHANGED <<users, roles, catalog, outcomes, history>>
    BY <1>6, AddGrantMoves DEF l
  <2>2. l.kind = "setRoles" /\ s \in {"next", "audit"}
    BY <1>1, <1>2, <2>1, StepsTellKind DEF Active, ReadyAt, Local, Remains
  <2> HIDE DEF s
  <2>3. ReadyAt(s, m) /\ l.user \in User /\ l.role \in Role
    BY <1>1, <1>2, <2>1, <2>2 DEF Active, ReadyAt, StepsOf, WrittenAt, OfUser, Local
  <2>4. grants' \subseteq Grant
    BY <2>1, <2>3 DEF Grant
  <2> QED BY <2>1, <2>3, <2>4, MovesTypes
<1>7. CASE ReadAccount(r)
  <2>1. /\ at[r] = "read" /\ l.kind = "deleteUser" /\ Moves(r, "delete", l)
        /\ UNCHANGED <<rows, outcomes, history>>
    BY <1>7, ReadAccountMoves DEF l
  <2>2. ReadyAt("delete", l)
    BY <1>1, <1>2, <2>1 DEF Active, ReadyAt, StepsOf, WrittenAt, OfUser, Local
  <2> QED BY <2>1, <2>2, MovesTypes
<1>8. CASE DeleteUser(r)
  <2> DEFINE m == [l EXCEPT !.changed = TRUE]
  <2>1. /\ at[r] = "delete" /\ l.kind = "deleteUser" /\ Moves(r, "audit", m)
        /\ users' = [users EXCEPT ![l.user] = "deleted"]
        /\ UNCHANGED <<roles, catalog, grants, outcomes, history>>
    BY <1>8, DeleteUserMoves DEF l
  <2>2. ReadyAt("audit", m)
    BY <1>1, <1>2, <2>1 DEF Active, ReadyAt, StepsOf, WrittenAt, OfUser, Local
  <2>3. users' \in [User -> UserState]
    BY <2>1 DEF UserState
  <2> QED BY <2>1, <2>2, <2>3, MovesTypes
<1>9. CASE ReadEmployeeId(r)
  <2>1. /\ at[r] = "read" /\ l.kind = "onboard" /\ Moves(r, "check", l)
        /\ UNCHANGED <<rows, outcomes, history>>
    BY <1>9, ReadEmployeeIdMoves DEF l, ReadEmployeeId
  <2>2. ReadyAt("check", l)
    BY <1>1, <1>2, <2>1 DEF Active, ReadyAt, StepsOf, WrittenAt, OfUser, Local
  <2> QED BY <2>1, <2>2, MovesTypes
<1>10. CASE CheckEmail(r)
  <2> DEFINE m == [l EXCEPT !.shared = FALSE]
  <2>1. /\ at[r] = "check" /\ l.kind \in Creating
        /\ \/ Moves(r, "number", l) /\ UNCHANGED spoiled
           \/ Take(r, l.user, l) /\ Moves(r, "number", m)
        /\ UNCHANGED <<rows, outcomes, audit, mishap>>
    BY <1>10, CheckEmailMoves DEF l
  <2>2. ReadyAt("number", l) /\ ReadyAt("number", m) /\ l.user \in User
    BY <1>1, <1>2, <2>1 DEF Active, ReadyAt, StepsOf, WrittenAt, OfUser, Local, Creating
  <2>3. spoiled' \subseteq User \cup Role
    BY <1>1, <2>1, <2>2, TakeTypes
  <2>4. CASE Moves(r, "number", l)
    BY <2>1, <2>2, <2>3, <2>4, MovesTypes
  <2>5. CASE Moves(r, "number", m)
    <3> HIDE DEF m
    <3> QED BY <2>1, <2>2, <2>3, <2>5, MovesTypes
  <2> QED BY <2>1, <2>4, <2>5
<1>11. CASE NextUserNumber(r)
  <2> DEFINE m == [l EXCEPT !.late = FALSE]
  <2>1. /\ at[r] = "number" /\ Moves(r, "insert", m)
        /\ UNCHANGED <<rows, outcomes, history>>
    BY <1>11, NextUserNumberMoves DEF l
  <2>2. l.kind \in Creating
    BY <1>1, <1>2, <2>1, StepsTellKind DEF Active, ReadyAt, Local
  <2>3. ReadyAt("insert", m)
    BY <1>1, <1>2, <2>1, <2>2 DEF Active, ReadyAt, StepsOf, WrittenAt, OfUser, Local, Creating
  <2> QED BY <2>1, <2>3, MovesTypes
<1>12. CASE InsertUser(r)
  <2> DEFINE m == [l EXCEPT !.changed = TRUE]
             ids == UNION {IdsOf(n) : n \in l.wanted}
  <2>1. /\ at[r] = "insert" /\ l.kind \in Creating /\ Moves(r, "emit", m)
        /\ users' = [users EXCEPT ![l.user] = "live"]
        /\ grants' = grants \cup [user : {l.user}, role : ids]
        /\ spoiled' = spoiled \cup {l.user}
        /\ UNCHANGED <<roles, catalog, outcomes, audit, mishap>>
    BY <1>12, InsertUserMoves DEF l
  <2>2. ReadyAt("emit", m) /\ l.user \in User
    BY <1>1, <1>2, <2>1 DEF Active, ReadyAt, StepsOf, WrittenAt, OfUser, Local, Creating
  <2>3. users' \in [User -> UserState]
    BY <2>1 DEF UserState
  <2>4. ids \subseteq Role
    BY DEF IdsOf
  <2>5. grants' \subseteq Grant
    BY <2>1, <2>2, <2>4 DEF Grant
  <2> QED BY <2>1, <2>2, <2>3, <2>5, MovesTypes
<1>13. CASE AssignSuperAdmin(r)
  <2>1. /\ at[r] = "assign" /\ Moves(r, "audit", l)
        /\ grants' = grants \cup {[user |-> l.user, role |-> SuperAdmin]}
        /\ UNCHANGED <<users, roles, catalog, outcomes, history>>
    BY <1>13, AssignSuperAdminMoves DEF l
  <2>2. l.kind = "bootstrap"
    BY <1>1, <1>2, <2>1, StepsTellKind DEF Active, ReadyAt, Local
  <2>3. ReadyAt("audit", l) /\ l.user \in User
    BY <1>1, <1>2, <2>1, <2>2 DEF Active, ReadyAt, StepsOf, WrittenAt, OfUser, Local
  <2>4. grants' \subseteq Grant
    BY <2>1, <2>3, RoleAssumption DEF Grant
  <2> QED BY <2>1, <2>3, <2>4, MovesTypes
<1> QED BY <1>3, <1>4, <1>5, <1>6, <1>7, <1>8, <1>9, <1>10, <1>11, <1>12, <1>13 DEF UserStep

LEMMA OtherStepTypes ==
    ASSUME TypeInv, NEW r \in Request,
           Arrival(r) \/ Permit(r) \/ Announced(r), ~GivesUp(r)
    PROVE  TypeInv'
<1> DEFINE l == requests[r]
<1> USE DEF TypeInv, RolesTypeOK, rows, history
<1>1. l \in Local
  OBVIOUS
<1>2. Active(r) => ReadyAt(at[r], l)
  BY DEF Ready
<1> HIDE DEF l
<1>3. CASE \E a \in User : Authenticate(r, a)
  <2>1. PICK a \in User : Authenticate(r, a)
    BY <1>3
  <2>2. PICK m \in Local : /\ ReadyAt("permit", m) /\ Moves(r, "permit", m)
                           /\ UNCHANGED <<rows, outcomes, history>>
    BY <2>1, AuthenticateMoves
  <2> QED BY <2>2, MovesTypes
<1>4. CASE \E u \in User : CountAdmins(r, u)
  <2>1. PICK u \in User : CountAdmins(r, u)
    BY <1>4
  <2> DEFINE k == [Idle EXCEPT !.user = u]
             m == [k EXCEPT !.shared = FALSE]
  <2>2. /\ k \in Local /\ Take(r, u, k) /\ Moves(r, "check", m)
        /\ UNCHANGED <<rows, outcomes, audit, mishap>>
    BY <2>1, CountAdminsMoves
  <2>3. /\ m.kind = "bootstrap" /\ m.user = u /\ m.role = None /\ m.name = "SUPER_ADMIN"
        /\ m.wanted = {} /\ m.changed = FALSE
    BY DEF Idle
  <2> HIDE DEF m, k
  <2>4. ReadyAt("check", m)
    BY <2>3 DEF ReadyAt, StepsOf, WrittenAt, OfUser
  <2>5. spoiled' \subseteq User \cup Role
    BY <2>2, TakeTypes
  <2> QED BY <2>2, <2>4, <2>5, MovesTypes
<1>5. CASE Permit(r)
  <2> DEFINE m == [l EXCEPT !.actor = None, !.held = {}]
             s == First(l.kind)
  <2>1. at[r] = "permit" /\ Moves(r, s, m) /\ UNCHANGED <<rows, outcomes, history>>
    BY <1>5, PermitMoves DEF l
  <2>2. l.kind \in Kind \ {"bootstrap"}
    BY <1>1, <1>2, <2>1 DEF Active, ReadyAt, StepsOf, Local
  <2>3. ReadyAt(s, m)
    BY <1>1, <1>2, <2>1, <2>2
       DEF Active, ReadyAt, StepsOf, WrittenAt, OfUser, Local, First, Kind
  <2> HIDE DEF m, s
  <2> QED BY <2>1, <2>3, MovesTypes
<1>6. CASE Announced(r)
  <2> DEFINE s == Afterwards(l.kind)
  <2>1. /\ at[r] = "emit" /\ l.kind \in {"bootstrap", "onboard"} /\ Moves(r, s, l)
        /\ UNCHANGED <<rows, outcomes, history>>
    BY <1>6, AnnouncedMoves DEF l
  <2>2. ReadyAt(s, l)
    BY <1>1, <1>2, <2>1 DEF Active, ReadyAt, StepsOf, WrittenAt, OfUser, Local, Afterwards
  <2> HIDE DEF s
  <2> QED BY <2>1, <2>2, MovesTypes
<1> QED BY <1>3, <1>4, <1>5, <1>6 DEF Arrival

LEMMA RecordAuditTypes ==
    ASSUME TypeInv, NEW r \in Request, RecordAudit(r)
    PROVE  TypeInv'
<1> DEFINE l == requests[r]
           said == IF l.kind = "bootstrap" THEN {"SUPER_ADMIN"} ELSE l.wanted
<1> USE DEF TypeInv, RolesTypeOK, rows, history
<1>1. l \in Local
  OBVIOUS
<1>2. Active(r) => ReadyAt(at[r], l)
  BY DEF Ready
<1> HIDE DEF l
<1>3. /\ at[r] = "audit"
      /\ IF l.kind \in Changing
         THEN /\ audit' = [audit EXCEPT ![Target(l)] = said]
              /\ spoiled' = IF l.shared THEN spoiled ELSE spoiled \ {Target(l)}
         ELSE UNCHANGED <<audit, spoiled>>
      /\ \/ l.kind \in {"bootstrap", "onboard"} /\ End(r, "ok")
         \/ /\ l.kind \notin {"bootstrap", "onboard"}
            /\ Moves(r, "emit", l) /\ UNCHANGED <<requests, outcomes>>
      /\ UNCHANGED <<rows, mishap>>
  BY RecordAuditMoves DEF l
<1>4. said \subseteq Permission \cup Name \cup {Wildcard}
  BY <1>1 DEF Local, Name
<1> HIDE DEF said
<1>5. /\ audit' \in [User \cup Role -> SUBSET (Permission \cup Name \cup {Wildcard})]
      /\ spoiled' \subseteq User \cup Role
  BY <1>3, <1>4
<1>6. CASE End(r, "ok")
  <2>1. /\ requests' \in [Request -> Local] /\ at'[r] = "over"
        /\ outcomes' = [outcomes EXCEPT ![r] = "ok"]
        /\ \A q \in Request \ {r} : requests'[q] = requests[q] /\ at'[q] = at[q]
        /\ at' \in [Request -> Step]
    BY <1>6, EndEffect DEF OthersKeep
  <2>2. Ready'
    BY <2>1 DEF Ready, Active
  <2>3. outcomes' \in [Request -> Outcome]
    BY <2>1 DEF Outcome
  <2> QED BY <1>3, <1>5, <2>1, <2>2, <2>3
<1>7. CASE Moves(r, "emit", l) /\ l.kind \notin {"bootstrap", "onboard"}
           /\ UNCHANGED <<requests, outcomes>>
  <2>1. ReadyAt("emit", l)
    BY <1>1, <1>2, <1>3, <1>7 DEF Active, ReadyAt, StepsOf, WrittenAt, OfUser, Local, Kind
  <2> QED BY <1>3, <1>5, <1>7, <2>1, MovesTypes
<1> QED BY <1>3, <1>6, <1>7

(* The end of the process ends every request, and changes no row.          *)
LEMMA LoseTypes ==
    ASSUME TypeInv, LoseRequests
    PROVE  /\ TypeInv'
           /\ \A r \in Request : ~Active(r)' /\ requests'[r] = Idle
           /\ UNCHANGED <<rows, audit>>
<1>1. /\ \A r \in Request : at'[r] \in {"idle", "over"} /\ requests'[r] = Idle
      /\ at' \in [Request -> Step] /\ requests' \in [Request -> Local]
      /\ outcomes' \in [Request -> Outcome]
  BY IdleIsLocal DEF LoseRequests, Active, TypeInv, RolesTypeOK, Step, Outcome
<1>2. Ready' /\ \A r \in Request : ~Active(r)'
  BY <1>1 DEF Ready, Active
<1>3. \A r \in Request : HalfDone(r) => Target(requests[r]) \in User \cup Role
  BY DEF HalfDone, AtWork, TypeInv, Ready, ReadyAt, Target, Changing, Kind, OfUser, WrittenAt, At
<1>4. spoiled' \subseteq User \cup Role /\ mishap' \in BOOLEAN
  BY <1>3 DEF LoseRequests, TypeInv, RolesTypeOK
<1>5. UNCHANGED <<rows, audit>>
  BY DEF LoseRequests
<1> QED BY <1>1, <1>2, <1>4, <1>5 DEF TypeInv, RolesTypeOK, rows

LEMMA QueryFailsGivesUp ==
    ASSUME NEW r \in Request, QueryFails(r) PROVE GivesUp(r)
BY FailGivesUp DEF QueryFails

LEMMA TypeStep == TypeInv /\ [RolesNext]_roleVars => TypeInv'
<1> SUFFICES ASSUME TypeInv, [RolesNext]_roleVars PROVE TypeInv'
  OBVIOUS
<1>1. CASE UNCHANGED roleVars
  BY <1>1 DEF roleVars, TypeInv, RolesTypeOK, Ready, ReadyAt, Active
<1>2. CASE LoseRequests
  BY <1>2, LoseTypes
<1>3. CASE \E r \in Request : Arrival(r) \/ RequestStep(r) \/ Announced(r) \/ QueryFails(r)
  <2>1. PICK r \in Request : Arrival(r) \/ RequestStep(r) \/ Announced(r) \/ QueryFails(r)
    BY <1>3
  <2>2. CASE GivesUp(r)
    BY <2>2, GivesUpTypes
  <2>3. CASE ~GivesUp(r)
    BY <2>1, <2>3, RoleStepTypes, UserStepTypes, OtherStepTypes, RecordAuditTypes,
       QueryFailsGivesUp DEF RequestStep
  <2> QED BY <2>2, <2>3
<1> QED BY <1>1, <1>2, <1>3 DEF RolesNext

LEMMA TypeInit == RolesInit => TypeInv
<1> SUFFICES ASSUME RolesInit PROVE TypeInv
  OBVIOUS
<1>1. /\ users \in [User -> UserState] /\ roles \in [Role -> RoleRow] /\ grants \subseteq Grant
      /\ catalog = Catalog /\ spoiled = {} /\ mishap = FALSE
      /\ \A i \in Role : roles[i].permissions \subseteq Catalog
      /\ at = [r \in Request |-> "idle"] /\ requests = [r \in Request |-> Idle]
      /\ outcomes = [r \in Request |-> "none"]
  BY CatalogAssumption, GrantedAssumption DEF RolesInit, Grant, RoleRow, UserState
<1>2. audit = [x \in User \cup Role |-> IF x \in User THEN RolesOf(x) ELSE roles[x].permissions]
  BY DEF RolesInit
<1>3. \A x \in User : RolesOf(x) \subseteq Name
  BY <1>1 DEF RolesOf, Grant, RoleRow
<1>4. audit \in [User \cup Role -> SUBSET (Permission \cup Name \cup {Wildcard})]
  <2>1. \A x \in User \cup Role :
           (IF x \in User THEN RolesOf(x) ELSE roles[x].permissions)
              \in SUBSET (Permission \cup Name \cup {Wildcard})
    BY <1>1, <1>3, CatalogAssumption
  <2> QED BY <1>2, <2>1
<1>5. RolesTypeOK
  BY <1>1, <1>4, IdleIsLocal, CatalogAssumption DEF RolesTypeOK, Step, Outcome
<1>6. Ready
  BY <1>1 DEF Ready, Active
<1> QED BY <1>5, <1>6 DEF TypeInv

(* Every value the model's variables take has its type, and every request  *)
(* under way has what its next statement uses: rbac.ts, user.ts,           *)
(* bootstrap.ts.                                                           *)
THEOREM RolesTypeCorrect == RolesSpec => []RolesTypeOK
<1>1. TypeInv => RolesTypeOK
  BY DEF TypeInv
<1> QED BY TypeInit, TypeStep, <1>1, PTL DEF RolesSpec

-----------------------------------------------------------------------------
(* What the rows have in common.                                           *)

(* The steps that change rows.                                             *)
Writes(r) ==
    \/ \E i \in Role : InsertRole(r, i)
    \/ ClearPermissions(r) \/ FillPermissions(r) \/ DeleteRole(r) \/ InsertPermission(r)
    \/ RemoveGrant(r) \/ AddGrant(r) \/ DeleteUser(r) \/ InsertUser(r) \/ AssignSuperAdmin(r)

Steps(r) == Arrival(r) \/ RequestStep(r) \/ Announced(r) \/ QueryFails(r)

LEMMA QuietRows ==
    ASSUME TypeInv, NEW r \in Request, Steps(r), GivesUp(r) \/ ~Writes(r)
    PROVE  UNCHANGED rows
<1>1. CASE GivesUp(r)
  BY <1>1 DEF GivesUp
<1>2. CASE ~GivesUp(r) /\ ~Writes(r)
  <2>1. CASE Arrival(r) \/ Permit(r) \/ Announced(r) \/ RecordAudit(r) \/ QueryFails(r)
    BY <2>1 DEF Arrival, Authenticate, CountAdmins, Permit, Announced, RecordAudit, QueryFails, Fail
  <2>2. CASE RoleStep(r)
    BY <1>2, <2>2, FailGivesUp DEF RoleStep, Writes, CheckRoleName, ReadRole, RereadRole, CheckHolders
  <2>3. CASE UserStep(r)
    BY <1>2, <2>3, FailGivesUp
       DEF UserStep, Writes, ReadUser, NextRole, ReadAccount, ReadEmployeeId, CheckEmail, NextUserNumber
  <2> QED BY <2>1, <2>2, <2>3 DEF Steps, RequestStep
<1> QED BY <1>1, <1>2

LEMMA QuietRowsInv == RowsInv /\ UNCHANGED rows => RowsInv'
BY DEF RowsInv, rows, Exists

LEMMA WritesRows ==
    ASSUME TypeInv, RowsInv, ChecksInv, NEW r \in Request, Writes(r), ~GivesUp(r)
    PROVE  RowsInv'
<1> DEFINE l == requests[r]
<1> USE DEF TypeInv, RolesTypeOK, RowsInv, Exists, rows, history
<1>1. l \in Local /\ UserIsThere(r)
  BY DEF ChecksInv
<1>2. Active(r) => ReadyAt(at[r], l)
  BY DEF Ready
<1> HIDE DEF l
<1>3. CASE \E i \in Role : InsertRole(r, i)
  <2>1. PICK i \in Role : InsertRole(r, i)
    BY <1>3
  <2> DEFINE k == [l EXCEPT !.role = i, !.changed = TRUE]
  <2>2. /\ at[r] = "insert" /\ k.kind = "createRole"
        /\ roles[i].state = "none" /\ IdsOf(k.name) = {}
        /\ roles' = [roles EXCEPT ![i] = [NoRole(k.name) EXCEPT !.state = "live"]]
        /\ UNCHANGED <<users, catalog, grants>>
    BY <2>1, InsertRoleMoves DEF l
  <2>3. k.name = l.name /\ l.kind = "createRole"
    BY <1>1, <2>2 DEF Local
  <2>4. l.name \in RoleName
    BY <1>2, <2>2, <2>3 DEF Active, ReadyAt
  <2> HIDE DEF k
  <2>5. [NoRole(k.name) EXCEPT !.state = "live"].state = "live"
        /\ [NoRole(k.name) EXCEPT !.state = "live"].name = l.name
    BY <2>3 DEF NoRole
  <2>6. /\ roles'[i].state = "live" /\ roles'[i].name = l.name
        /\ \A j \in Role \ {i} : roles'[j] = roles[j]
    BY <2>2, <2>5
  <2>7. l.name # "SUPER_ADMIN" /\ i # SuperAdmin /\ SuperAdmin \in Role
    BY <2>2, <2>4, RoleAssumption
  <2>8. \A j \in Role : roles[j].state = "live" => roles[j].name # l.name
    BY <2>2, <2>3 DEF IdsOf
  <2>9. \A g \in grants : g.role \in Role
    BY DEF Grant
  <2> QED BY <2>2, <2>6, <2>7, <2>8, <2>9
<1>4. CASE ClearPermissions(r)
  <2>1. /\ roles' = [roles EXCEPT ![l.role].permissions = {}]
        /\ UNCHANGED <<users, catalog, grants>>
    BY <1>4, ClearPermissionsMoves DEF l
  <2>2. \A j \in Role : roles'[j].state = roles[j].state /\ roles'[j].name = roles[j].name
    BY <2>1 DEF RoleRow
  <2> QED BY <2>1, <2>2, RoleAssumption DEF Grant
<1>5. CASE FillPermissions(r)
  <2>1. /\ roles' = [roles EXCEPT ![l.role].permissions = @ \cup (l.wanted \cap catalog)]
        /\ UNCHANGED <<users, catalog, grants>>
    BY <1>5, FillPermissionsMoves DEF l
  <2>2. \A j \in Role : roles'[j].state = roles[j].state /\ roles'[j].name = roles[j].name
    BY <2>1 DEF RoleRow
  <2> QED BY <2>1, <2>2, RoleAssumption DEF Grant
<1>6. CASE DeleteRole(r)
  <2>1. /\ at[r] = "delete" /\ l.kind = "deleteRole"
        /\ roles' = [roles EXCEPT ![l.role] = [@ EXCEPT !.state = "deleted", !.permissions = {}]]
        /\ grants' = {g \in grants : g.role # l.role}
        /\ UNCHANGED <<users, catalog>>
    BY <1>6, DeleteRoleMoves DEF l
  <2>2. l.role \in Role /\ l.role # SuperAdmin
    BY <1>2, <2>1 DEF Active, ReadyAt
  <2>3. \A j \in Role : /\ roles'[j].name = roles[j].name
                        /\ j # l.role => roles'[j].state = roles[j].state
                        /\ roles'[j].state = "live" => roles[j].state = "live"
    BY <2>1, <2>2 DEF RoleRow
  <2> QED BY <2>1, <2>2, <2>3, RoleAssumption DEF Grant
<1>7. CASE InsertPermission(r)
  BY <1>7, InsertPermissionMoves
<1>8. CASE RemoveGrant(r)
  <2>1. /\ grants' = grants \ {[user |-> l.user, role |-> l.role]}
        /\ UNCHANGED <<users, roles, catalog>>
    BY <1>8, RemoveGrantMoves DEF l
  <2> QED BY <2>1
<1>9. CASE AddGrant(r)
  <2>1. /\ at[r] = "add" /\ Exists(l.role)
        /\ grants' = grants \cup {[user |-> l.user, role |-> l.role]}
        /\ UNCHANGED <<users, roles, catalog>>
    BY <1>9, AddGrantMoves DEF l
  <2>2. users[l.user] # "none"
    BY <1>1, <1>2, <2>1, StepsTellKind DEF Active, ReadyAt, Local, UserIsThere, l
  <2> QED BY <2>1, <2>2
<1>10. CASE DeleteUser(r)
  <2>1. /\ users' = [users EXCEPT ![l.user] = "deleted"]
        /\ UNCHANGED <<roles, catalog, grants>>
    BY <1>10, DeleteUserMoves DEF l
  <2>2. \A u \in User : users[u] # "none" => users'[u] # "none"
    BY <2>1
  <2> QED BY <2>1, <2>2 DEF Grant
<1>11. CASE InsertUser(r)
  <2> DEFINE ids == UNION {IdsOf(n) : n \in l.wanted}
  <2>1. /\ at[r] = "insert" /\ l.kind \in Creating
        /\ users' = [users EXCEPT ![l.user] = "live"]
        /\ grants' = grants \cup [user : {l.user}, role : ids]
        /\ UNCHANGED <<roles, catalog>>
    BY <1>11, InsertUserMoves DEF l
  <2>2. l.user \in User
    BY <1>1, <1>2, <2>1 DEF Active, ReadyAt, OfUser, Creating
  <2>3. \A i \in ids : Exists(i)
    BY DEF IdsOf
  <2>4. users'[l.user] = "live" /\ \A u \in User : users[u] # "none" => users'[u] # "none"
    BY <2>1, <2>2
  <2> HIDE DEF ids
  <2>5. \A g \in [user : {l.user}, role : ids] : g.role \in ids /\ g.user = l.user
    OBVIOUS
  <2>6. \A g \in grants : g.user \in User
    BY DEF Grant
  <2> QED BY <2>1, <2>3, <2>4, <2>5, <2>6
<1>12. CASE AssignSuperAdmin(r)
  <2>1. /\ at[r] = "assign"
        /\ grants' = grants \cup {[user |-> l.user, role |-> SuperAdmin]}
        /\ UNCHANGED <<users, roles, catalog>>
    BY <1>12, AssignSuperAdminMoves DEF l
  <2>2. users[l.user] # "none"
    BY <1>1, <1>2, <2>1, StepsTellKind DEF Active, ReadyAt, Local, UserIsThere, l
  <2> QED BY <2>1, <2>2
<1> QED BY <1>3, <1>4, <1>5, <1>6, <1>7, <1>8, <1>9, <1>10, <1>11, <1>12 DEF Writes

LEMMA RowsStep == TypeInv /\ RowsInv /\ ChecksInv /\ [RolesNext]_roleVars => RowsInv'
<1> SUFFICES ASSUME TypeInv, RowsInv, ChecksInv, [RolesNext]_roleVars PROVE RowsInv'
  OBVIOUS
<1>1. CASE UNCHANGED roleVars
  BY <1>1, QuietRowsInv DEF roleVars, rows
<1>2. CASE LoseRequests
  BY <1>2, LoseTypes, QuietRowsInv
<1>3. CASE \E r \in Request : Steps(r)
  <2>1. PICK r \in Request : Steps(r)
    BY <1>3
  <2>2. CASE GivesUp(r) \/ ~Writes(r)
    BY <2>1, <2>2, QuietRows, QuietRowsInv
  <2>3. CASE Writes(r) /\ ~GivesUp(r)
    BY <2>3, WritesRows
  <2> QED BY <2>2, <2>3
<1> QED BY <1>1, <1>2, <1>3 DEF RolesNext, Steps

-----------------------------------------------------------------------------
(* What requests have checked.                                             *)

HoldersNext(i) == {g.user : g \in {h \in grants' : h.role = i}}

(* A step leaves the checks of others as they are, or overtakes them.      *)
ChecksKept(r) ==
    /\ \A u \in User : users[u] # "none" => users'[u] # "none"
    /\ \/ Admins \subseteq Admins'
       \/ \A q \in Request \ {r} :
             at[q] = "remove" /\ requests[q].role = SuperAdmin => requests'[q].raced
    /\ \/ Admins' \subseteq Admins
       \/ \A q \in Request \ {r} :
             Active(q) /\ requests[q].kind = "bootstrap" => requests'[q].raced
    /\ \A q \in Request \ {r} :
          at[q] = "delete" /\ requests[q].role \in Role =>
             requests'[q].raced \/ HoldersNext(requests[q].role) \subseteq Holders(requests[q].role)

LEMMA OthersChecks ==
    ASSUME TypeInv, ChecksInv, NEW r \in Request, OthersKeep(r), ChecksKept(r),
           NEW q \in Request \ {r}
    PROVE  (AdminCounted(q) /\ NoAdminCounted(q) /\ NoHolderFound(q) /\ UserIsThere(q))'
<1>1. AdminCounted(q) /\ NoAdminCounted(q) /\ NoHolderFound(q) /\ UserIsThere(q)
  BY DEF ChecksInv
<1>2. at'[q] = at[q] /\ SameWork(requests[q], requests'[q])
  BY DEF OthersKeep
<1>3. AdminCounted(q)'
  BY <1>1, <1>2 DEF ChecksKept, AdminCounted, SameWork
<1>4. NoAdminCounted(q)'
  BY <1>1, <1>2 DEF ChecksKept, NoAdminCounted, SameWork, Active
<1>5. NoHolderFound(q)'
  <2> SUFFICES ASSUME at[q] = "delete", requests[q].kind = "deleteRole"
               PROVE  requests'[q].raced \/ HoldersNext(requests[q].role) = {}
    BY <1>2 DEF NoHolderFound, SameWork, Holders, HoldersNext
  <2>1. requests[q].role \in Role
    BY DEF TypeInv, Ready, ReadyAt, Active
  <2>2. requests'[q].raced \/ HoldersNext(requests[q].role) \subseteq Holders(requests[q].role)
    BY <2>1 DEF ChecksKept
  <2>3. requests'[q].raced \/ Holders(requests[q].role) = {}
    BY <1>1, <1>2 DEF NoHolderFound, SameWork
  <2> QED BY <2>2, <2>3
<1>6. UserIsThere(q)'
  <2>1. Active(q) => (requests[q].kind \in OfUser => requests[q].user \in User)
    BY DEF TypeInv, Ready, ReadyAt
  <2> QED BY <1>1, <1>2, <2>1 DEF ChecksKept, UserIsThere, SameWork, Active, OfUser
<1> QED BY <1>3, <1>4, <1>5, <1>6

LEMMA QuietChecks ==
    ASSUME TypeInv, NEW r \in Request, UNCHANGED rows
    PROVE  ChecksKept(r)
BY DEF ChecksKept, rows, Admins, Holders, HoldersNext

LEMMA EndedChecks ==
    ASSUME TypeInv, ChecksInv, NEW r \in Request, NEW o, End(r, o), UNCHANGED rows
    PROVE  ChecksInv'
<1>1. at'[r] = "over" /\ OthersKeep(r)
  BY EndEffect DEF TypeInv
<1>2. (AdminCounted(r) /\ NoAdminCounted(r) /\ NoHolderFound(r) /\ UserIsThere(r))'
  BY <1>1 DEF AdminCounted, NoAdminCounted, NoHolderFound, UserIsThere
<1> QED BY <1>1, <1>2, QuietChecks, OthersChecks DEF ChecksInv

(* What a request itself may rely on after its step.                       *)
LEMMA OwnChecks ==
    ASSUME NEW r \in Request, NEW s, NEW l, Moves(r, s, l),
           s = "remove" /\ l.role = SuperAdmin => l.raced \/ \E u, v \in Admins' : u # v,
           l.kind = "bootstrap" /\ s \in {"check", "number", "insert", "emit", "assign"} =>
              l.raced \/ Admins' = {},
           s = "delete" /\ l.kind = "deleteRole" => HoldersNext(l.role) = {},
           \/ l.kind = "setRoles" /\ s \in {"next", "remove", "add", "audit"}
           \/ l.kind = "bootstrap" /\ s \in {"emit", "assign", "audit"}
           => users'[l.user] # "none"
    PROVE  (AdminCounted(r) /\ NoAdminCounted(r) /\ NoHolderFound(r) /\ UserIsThere(r))'
BY DEF Moves, SameWork, AdminCounted, NoAdminCounted, NoHolderFound, UserIsThere, Holders, HoldersNext

LEMMA ChecksFrom ==
    ASSUME TypeInv, ChecksInv, NEW r \in Request, NEW s, NEW l, Moves(r, s, l), ChecksKept(r),
           s = "remove" /\ l.role = SuperAdmin => l.raced \/ \E u, v \in Admins' : u # v,
           l.kind = "bootstrap" /\ s \in {"check", "number", "insert", "emit", "assign"} =>
              l.raced \/ Admins' = {},
           s = "delete" /\ l.kind = "deleteRole" => HoldersNext(l.role) = {},
           \/ l.kind = "setRoles" /\ s \in {"next", "remove", "add", "audit"}
           \/ l.kind = "bootstrap" /\ s \in {"emit", "assign", "audit"}
           => users'[l.user] # "none"
    PROVE  ChecksInv'
<1>1. OthersKeep(r)
  BY DEF Moves
<1>2. (AdminCounted(r) /\ NoAdminCounted(r) /\ NoHolderFound(r) /\ UserIsThere(r))'
  BY OwnChecks
<1> QED BY <1>1, <1>2, OthersChecks DEF ChecksInv

LEMMA TwoAdmins ==
    ASSUME RolesTypeOK, ~(Cardinality(Admins) <= 1)
    PROVE  \E u, v \in Admins : u # v
<1>1. Admins \subseteq User
  BY DEF Admins, Holders, RolesTypeOK, Grant
<1>2. IsFiniteSet(Admins)
  BY <1>1, UserAssumption, FS_Subset
<1>3. Cardinality(Admins) \in Nat
  BY <1>2, FS_CardinalityType
<1>4. Admins # {}
  BY <1>3, FS_EmptySet
<1>5. PICK u \in Admins : TRUE
  BY <1>4
<1>6. Admins # {u}
  BY <1>3, FS_Singleton
<1> QED BY <1>5, <1>6

LEMMA AdminsOf == RolesTypeOK => Admins \subseteq User /\ HoldersNext(SuperAdmin) = Admins'
BY DEF Admins, Holders, HoldersNext, RolesTypeOK, Grant

LEMMA RoleStepChecks ==
    ASSUME TypeInv, RowsInv, ChecksInv, NEW r \in Request, RoleStep(r), ~GivesUp(r)
    PROVE  ChecksInv'
<1> DEFINE l == requests[r]
<1> USE DEF TypeInv, RolesTypeOK
<1>1. l \in Local
  OBVIOUS
<1>2. Active(r) => ReadyAt(at[r], l)
  BY DEF Ready
<1> HIDE DEF l
<1>3. CASE CheckRoleName(r)
  <2>1. at[r] = "check" /\ l.kind = "createRole" /\ Moves(r, "insert", l) /\ UNCHANGED rows
    BY <1>3, CheckRoleNameMoves DEF l
  <2> QED BY <2>1, QuietChecks, ChecksFrom
<1>4. CASE \E i \in Role : InsertRole(r, i)
  <2>1. PICK i \in Role : InsertRole(r, i)
    BY <1>4
  <2> DEFINE k == [l EXCEPT !.role = i, !.changed = TRUE]
             m == [k EXCEPT !.shared = FALSE]
  <2>2. /\ k.kind = "createRole" /\ k \in Local /\ Moves(r, "clear", m)
        /\ UNCHANGED <<users, catalog, grants>>
    BY <2>1, InsertRoleMoves DEF l
  <2>3. m.kind = "createRole"
    BY <2>2 DEF Local
  <2> HIDE DEF k, m
  <2>4. ChecksKept(r)
    BY <2>2 DEF ChecksKept, Admins, Holders, HoldersNext
  <2> QED BY <2>2, <2>3, <2>4, ChecksFrom
<1>5. CASE ReadRole(r)
  <2> DEFINE m == [l EXCEPT !.shared = FALSE]
             s == IF l.kind = "updateRole" THEN "clear" ELSE "check"
  <2>1. l.kind \in {"updateRole", "deleteRole"} /\ Moves(r, s, m) /\ UNCHANGED rows
    BY <1>5, ReadRoleMoves DEF l
  <2>2. m.kind = l.kind
    BY <1>1 DEF Local
  <2> HIDE DEF m
  <2> QED BY <2>1, <2>2, QuietChecks, ChecksFrom
<1>6. CASE ClearPermissions(r)
  <2> DEFINE m == [l EXCEPT !.changed = TRUE]
  <2>1. at[r] = "clear" /\ Moves(r, "fill", m) /\ UNCHANGED <<users, catalog, grants>>
    BY <1>6, ClearPermissionsMoves DEF l
  <2>2. m.kind = l.kind /\ l.kind \in {"createRole", "updateRole"}
    BY <1>1, <1>2, <2>1, StepsTellKind DEF Active, ReadyAt, Local
  <2> HIDE DEF m
  <2>3. ChecksKept(r)
    BY <2>1 DEF ChecksKept, Admins, Holders, HoldersNext
  <2> QED BY <2>1, <2>2, <2>3, ChecksFrom
<1>7. CASE FillPermissions(r)
  <2> DEFINE s == AfterFill(l)
  <2>1. at[r] = "fill" /\ Moves(r, s, l) /\ UNCHANGED <<users, catalog, grants>>
    BY <1>7, FillPermissionsMoves DEF l
  <2>2. l.kind \in {"createRole", "updateRole"}
    BY <1>1, <1>2, <2>1, StepsTellKind DEF Active, ReadyAt, Local
  <2>3. ChecksKept(r)
    BY <2>1 DEF ChecksKept, Admins, Holders, HoldersNext
  <2>4. s \in {"reread", "audit"}
    BY DEF AfterFill
  <2> QED BY <2>1, <2>2, <2>3, <2>4, ChecksFrom
<1>8. CASE RereadRole(r)
  <2>1. at[r] = "reread" /\ Moves(r, "audit", l) /\ UNCHANGED rows
    BY <1>8, RereadRoleMoves DEF l
  <2>2. l.kind = "updateRole"
    BY <1>1, <1>2, <2>1, StepsTellKind DEF Active, ReadyAt, Local
  <2> QED BY <2>1, <2>2, QuietChecks, ChecksFrom
<1>9. CASE CheckHolders(r)
  <2> DEFINE m == [l EXCEPT !.raced = FALSE]
  <2>1. /\ l.kind = "deleteRole" /\ Holders(l.role) = {} /\ Moves(r, "delete", m)
        /\ UNCHANGED rows
    BY <1>9, CheckHoldersMoves DEF l
  <2>2. m.kind = l.kind /\ m.role = l.role
    BY <1>1 DEF Local
  <2>3. HoldersNext(m.role) = {}
    BY <2>1, <2>2 DEF Holders, HoldersNext, rows
  <2> HIDE DEF m
  <2> QED BY <2>1, <2>2, <2>3, QuietChecks, ChecksFrom
<1>10. CASE DeleteRole(r)
  <2> DEFINE m == [l EXCEPT !.changed = TRUE]
  <2>1. /\ at[r] = "delete" /\ l.kind = "deleteRole" /\ Moves(r, "audit", m)
        /\ grants' = {g \in grants : g.role # l.role}
        /\ UNCHANGED users
    BY <1>10, DeleteRoleMoves DEF l
  <2>2. l.role # SuperAdmin
    BY <1>2, <2>1 DEF Active, ReadyAt
  <2>3. m.kind = "deleteRole"
    BY <1>1, <2>1 DEF Local
  <2> HIDE DEF m
  <2>4. Admins' = Admins /\ \A i : HoldersNext(i) \subseteq Holders(i)
    BY <2>1, <2>2 DEF Admins, Holders, HoldersNext
  <2>5. ChecksKept(r)
    BY <2>1, <2>4 DEF ChecksKept
  <2> QED BY <2>1, <2>3, <2>5, ChecksFrom
<1>11. CASE InsertPermission(r)
  <2> DEFINE m == [l EXCEPT !.changed = TRUE]
  <2>1. l.kind = "createPermission" /\ Moves(r, "audit", m) /\ UNCHANGED <<users, grants>>
    BY <1>11, InsertPermissionMoves DEF l
  <2>2. m.kind = l.kind
    BY <1>1 DEF Local
  <2> HIDE DEF m
  <2>3. ChecksKept(r)
    BY <2>1 DEF ChecksKept, Admins, Holders, HoldersNext
  <2> QED BY <2>1, <2>2, <2>3, ChecksFrom
<1> QED BY <1>3, <1>4, <1>5, <1>6, <1>7, <1>8, <1>9, <1>10, <1>11 DEF RoleStep

LEMMA UserStepChecks ==
    ASSUME TypeInv, RowsInv, ChecksInv, NEW r \in Request, UserStep(r), ~GivesUp(r)
    PROVE  ChecksInv'
<1> DEFINE l == requests[r]
<1> USE DEF TypeInv, RolesTypeOK
<1>1. l \in Local /\ NoAdminCounted(r) /\ UserIsThere(r)
  BY DEF ChecksInv
<1>2. Active(r) => ReadyAt(at[r], l)
  BY DEF Ready
<1>l. l = requests[r]
  OBVIOUS
<1> HIDE DEF l
<1>3. CASE ReadUser(r)
  <2> DEFINE todo == (RolesOf(l.user) \ l.wanted) \cup (l.wanted \ RolesOf(l.user))
             k == [l EXCEPT !.current = RolesOf(l.user), !.todo = todo]
             m == [k EXCEPT !.shared = FALSE]
             s == Remains(todo)
  <2>1. /\ l.kind = "setRoles" /\ Live(l.user) /\ Moves(r, s, m) /\ UNCHANGED rows
    BY <1>3, ReadUserMoves DEF l
  <2>2. m.kind = l.kind /\ m.user = l.user
    <3> HIDE DEF RolesOf, todo
    <3> QED BY <1>1 DEF Local
  <2>3. s \in {"next", "audit"}
    BY DEF Remains
  <2> HIDE DEF m, s, k
  <2>4. users'[m.user] # "none"
    BY <2>1, <2>2 DEF Live, rows
  <2> QED BY <2>1, <2>2, <2>3, <2>4, QuietChecks, ChecksFrom
<1>4. CASE \E n \in Name : NextRole(r, n)
  <2>1. PICK n \in Name : NextRole(r, n)
    BY <1>4
  <2> DEFINE m(i) == [l EXCEPT !.role = i, !.todo = @ \ {n}, !.raced = FALSE]
             s == IF n \in l.current THEN "remove" ELSE "add"
  <2>2. /\ at[r] = "next" /\ \E i \in IdsOf(n) : Moves(r, s, m(i))
        /\ ~(n \in l.current /\ n = "SUPER_ADMIN" /\ Cardinality(Admins) <= 1)
        /\ UNCHANGED rows
    BY <2>1, NextRoleMoves DEF l
  <2>3. PICK i \in IdsOf(n) : Moves(r, s, m(i))
    BY <2>2
  <2>4. l.kind = "setRoles"
    BY <1>1, <1>2, <2>2, StepsTellKind DEF Active, ReadyAt, Local
  <2>5. m(i).kind = "setRoles" /\ m(i).user = l.user /\ m(i).role = i
    BY <1>1, <2>4 DEF Local
  <2>6. s = "remove" /\ i = SuperAdmin => n \in l.current /\ n = "SUPER_ADMIN"
    BY <2>3 DEF IdsOf, RowsInv
  <2>7. s \in {"remove", "add"}
    OBVIOUS
  <2>8. Admins' = Admins /\ users' = users
    BY <2>2 DEF rows, Admins, Holders
  <2>9. s = "remove" /\ i = SuperAdmin => \E u, v \in Admins' : u # v
    BY <2>2, <2>6, <2>8, TwoAdmins
  <2>10. users'[l.user] # "none"
    BY <1>1, <1>l, <2>2, <2>4, <2>8 DEF UserIsThere
  <2> HIDE DEF m, s
  <2> QED BY <2>2, <2>3, <2>5, <2>7, <2>9, <2>10, QuietChecks, ChecksFrom
<1>5. CASE RemoveGrant(r)
  <2> DEFINE m == [l EXCEPT !.changed = TRUE]
             s == Remains(l.todo)
  <2>1. /\ at[r] = "remove" /\ Moves(r, s, m)
        /\ \A q \in Request \ {r} : l.role = SuperAdmin /\ at[q] = "remove" => requests'[q].raced
        /\ grants' = grants \ {[user |-> l.user, role |-> l.role]}
        /\ UNCHANGED users
    BY <1>5, RemoveGrantMoves DEF l
  <2>2. l.kind = "setRoles" /\ s \in {"next", "audit"}
    BY <1>1, <1>2, <2>1, StepsTellKind DEF Active, ReadyAt, Local, Remains
  <2>3. m.kind = "setRoles" /\ m.user = l.user
    BY <1>1, <2>2 DEF Local
  <2>4. users'[l.user] # "none"
    BY <1>1, <1>l, <2>1, <2>2 DEF UserIsThere
  <2> HIDE DEF s, m
  <2>5. \A i : HoldersNext(i) \subseteq Holders(i)
    BY <2>1 DEF Holders, HoldersNext
  <2>6. Admins' \subseteq Admins /\ (l.role # SuperAdmin => Admins \subseteq Admins')
    BY <2>1 DEF Admins, Holders
  <2>7. ChecksKept(r)
    BY <2>1, <2>5, <2>6 DEF ChecksKept
  <2> QED BY <2>1, <2>2, <2>3, <2>4, <2>7, ChecksFrom
<1>6. CASE AddGrant(r)
  <2> DEFINE m == [l EXCEPT !.changed = TRUE]
             s == Remains(l.todo)
  <2>1. /\ at[r] = "add" /\ Moves(r, s, m)
        /\ \A q \in Request \ {r} : Overtakes(q, {l.role}) => requests'[q].raced
        /\ grants' = grants \cup {[user |-> l.user, role |-> l.role]}
        /\ UNCHANGED users
    BY <1>6, AddGrantMoves DEF l
  <2>2. l.kind = "setRoles" /\ s \in {"next", "audit"}
    BY <1>1, <1>2, <2>1, StepsTellKind DEF Active, ReadyAt, Local, Remains
  <2>3. m.kind = "setRoles" /\ m.user = l.user
    BY <1>1, <2>2 DEF Local
  <2>4. users'[l.user] # "none"
    BY <1>1, <1>l, <2>1, <2>2 DEF UserIsThere
  <2> HIDE DEF s, m
  <2>5. \A i : i # l.role => HoldersNext(i) \subseteq Holders(i)
    BY <2>1 DEF Holders, HoldersNext
  <2>6. Admins \subseteq Admins' /\ (l.role # SuperAdmin => Admins' \subseteq Admins)
    BY <2>1 DEF Admins, Holders
  <2>7. ChecksKept(r)
    BY <2>1, <2>5, <2>6 DEF ChecksKept, Overtakes, At
  <2> QED BY <2>1, <2>2, <2>3, <2>4, <2>7, ChecksFrom
<1>7. CASE ReadAccount(r)
  <2>1. l.kind = "deleteUser" /\ Moves(r, "delete", l) /\ UNCHANGED rows
    BY <1>7, ReadAccountMoves DEF l
  <2> QED BY <2>1, QuietChecks, ChecksFrom
<1>8. CASE DeleteUser(r)
  <2> DEFINE m == [l EXCEPT !.changed = TRUE]
  <2>1. /\ l.kind = "deleteUser" /\ Moves(r, "audit", m)
        /\ users' = [users EXCEPT ![l.user] = "deleted"]
        /\ UNCHANGED grants
    BY <1>8, DeleteUserMoves DEF l
  <2>2. m.kind = l.kind
    BY <1>1 DEF Local
  <2> HIDE DEF m
  <2>3. ChecksKept(r)
    BY <2>1 DEF ChecksKept, Admins, Holders, HoldersNext
  <2> QED BY <2>1, <2>2, <2>3, ChecksFrom
<1>9. CASE ReadEmployeeId(r)
  <2>1. l.kind = "onboard" /\ Moves(r, "check", l) /\ UNCHANGED rows
    BY <1>9, ReadEmployeeIdMoves DEF l, ReadEmployeeId
  <2> QED BY <2>1, QuietChecks, ChecksFrom
<1>10. CASE CheckEmail(r)
  <2> DEFINE m == [l EXCEPT !.shared = FALSE]
  <2>1. /\ at[r] = "check" /\ l.kind \in Creating
        /\ Moves(r, "number", l) \/ Moves(r, "number", m)
        /\ UNCHANGED rows
    BY <1>10, CheckEmailMoves DEF l
  <2>2. m.kind = l.kind /\ m.raced = l.raced
    BY <1>1 DEF Local
  <2> HIDE DEF m
  <2>3. l.kind = "bootstrap" => l.raced \/ Admins' = {}
    BY <1>1, <1>l, <2>1 DEF NoAdminCounted, rows, Admins, Holders
  <2>4. CASE Moves(r, "number", l)
    BY <2>1, <2>3, <2>4, QuietChecks, ChecksFrom
  <2>5. CASE Moves(r, "number", m)
    BY <2>1, <2>2, <2>3, <2>5, QuietChecks, ChecksFrom
  <2> QED BY <2>1, <2>4, <2>5
<1>11. CASE NextUserNumber(r)
  <2> DEFINE m == [l EXCEPT !.late = FALSE]
  <2>1. at[r] = "number" /\ Moves(r, "insert", m) /\ UNCHANGED rows
    BY <1>11, NextUserNumberMoves DEF l
  <2>2. m.kind = l.kind /\ m.raced = l.raced
    BY <1>1 DEF Local
  <2> HIDE DEF m
  <2>3. l.kind = "bootstrap" => l.raced \/ Admins' = {}
    BY <1>1, <1>l, <2>1 DEF NoAdminCounted, rows, Admins, Holders
  <2> QED BY <2>1, <2>2, <2>3, QuietChecks, ChecksFrom
<1>12. CASE InsertUser(r)
  <2> DEFINE m == [l EXCEPT !.changed = TRUE]
             ids == UNION {IdsOf(n) : n \in l.wanted}
  <2>1. /\ at[r] = "insert" /\ l.kind \in Creating /\ Moves(r, "emit", m)
        /\ \A q \in Request \ {r} : Overtakes(q, ids) => requests'[q].raced
        /\ users' = [users EXCEPT ![l.user] = "live"]
        /\ grants' = grants \cup [user : {l.user}, role : ids]
    BY <1>12, InsertUserMoves DEF l
  <2>2. l.user \in User /\ (l.kind = "bootstrap" => ids = {})
    BY <1>1, <1>2, <2>1 DEF Active, ReadyAt, OfUser, Creating
  <2>3. m.kind = l.kind /\ m.raced = l.raced /\ m.user = l.user
    BY <1>1 DEF Local
  <2> HIDE DEF m, ids
  <2>4. \A i : i \notin ids => HoldersNext(i) \subseteq Holders(i)
    BY <2>1 DEF Holders, HoldersNext
  <2>5. Admins \subseteq Admins' /\ (SuperAdmin \notin ids => Admins' \subseteq Admins)
    BY <2>1 DEF Admins, Holders
  <2>6. ChecksKept(r)
    BY <2>1, <2>4, <2>5 DEF ChecksKept, Overtakes, At
  <2>7. l.kind = "bootstrap" => l.raced \/ Admins' = {}
    BY <1>1, <1>l, <2>1, <2>2, <2>5 DEF NoAdminCounted
  <2>8. users'[m.user] # "none"
    BY <2>1, <2>2, <2>3
  <2> QED BY <2>1, <2>3, <2>6, <2>7, <2>8, ChecksFrom
<1>13. CASE AssignSuperAdmin(r)
  <2>1. /\ at[r] = "assign" /\ Moves(r, "audit", l)
        /\ \A q \in Request \ {r} : Overtakes(q, {SuperAdmin}) => requests'[q].raced
        /\ grants' = grants \cup {[user |-> l.user, role |-> SuperAdmin]}
        /\ UNCHANGED users
    BY <1>13, AssignSuperAdminMoves DEF l
  <2>2. l.kind = "bootstrap"
    BY <1>1, <1>2, <2>1, StepsTellKind DEF Active, ReadyAt, Local
  <2>3. users'[l.user] # "none"
    BY <1>1, <1>l, <2>1, <2>2 DEF UserIsThere
  <2>4. \A i : i # SuperAdmin => HoldersNext(i) \subseteq Holders(i)
    BY <2>1 DEF Holders, HoldersNext
  <2>5. Admins \subseteq Admins'
    BY <2>1 DEF Admins, Holders
  <2>6. ChecksKept(r)
    BY <2>1, <2>4, <2>5 DEF ChecksKept, Overtakes, At
  <2> QED BY <2>1, <2>2, <2>3, <2>6, ChecksFrom
<1> QED BY <1>3, <1>4, <1>5, <1>6, <1>7, <1>8, <1>9, <1>10, <1>11, <1>12, <1>13 DEF UserStep

LEMMA OtherStepChecks ==
    ASSUME TypeInv, RowsInv, ChecksInv, NEW r \in Request,
           Arrival(r) \/ Permit(r) \/ RecordAudit(r) \/ Announced(r), ~GivesUp(r)
    PROVE  ChecksInv'
<1> DEFINE l == requests[r]
<1> USE DEF TypeInv, RolesTypeOK
<1>1. l \in Local /\ NoAdminCounted(r) /\ UserIsThere(r)
  BY DEF ChecksInv
<1>2. Active(r) => ReadyAt(at[r], l)
  BY DEF Ready
<1>l. l = requests[r]
  OBVIOUS
<1> HIDE DEF l
<1>3. CASE \E a \in User : Authenticate(r, a)
  <2>1. PICK a \in User : Authenticate(r, a)
    BY <1>3
  <2>2. PICK m \in Local : m.kind # "bootstrap" /\ Moves(r, "permit", m) /\ UNCHANGED rows
    BY <2>1, AuthenticateMoves
  <2> QED BY <2>2, QuietChecks, ChecksFrom
<1>4. CASE \E u \in User : CountAdmins(r, u)
  <2>1. PICK u \in User : CountAdmins(r, u)
    BY <1>4
  <2> DEFINE m == [[Idle EXCEPT !.user = u] EXCEPT !.shared = FALSE]
  <2>2. Admins = {} /\ Moves(r, "check", m) /\ UNCHANGED rows
    BY <2>1, CountAdminsMoves
  <2> HIDE DEF m
  <2>3. Admins' = {}
    BY <2>2 DEF rows, Admins, Holders
  <2> QED BY <2>2, <2>3, QuietChecks, ChecksFrom
<1>5. CASE Permit(r)
  <2> DEFINE m == [l EXCEPT !.actor = None, !.held = {}]
             s == First(l.kind)
  <2>1. at[r] = "permit" /\ Moves(r, s, m) /\ UNCHANGED rows
    BY <1>5, PermitMoves DEF l
  <2>2. m.kind = l.kind /\ l.kind # "bootstrap"
    BY <1>1, <1>2, <2>1 DEF Active, ReadyAt, StepsOf, Local
  <2>3. s \in {"check", "insert", "read"}
    BY DEF First
  <2> HIDE DEF m, s
  <2> QED BY <2>1, <2>2, <2>3, QuietChecks, ChecksFrom
<1>6. CASE RecordAudit(r)
  <2>1. /\ \/ End(r, "ok")
           \/ l.kind # "bootstrap" /\ Moves(r, "emit", l)
        /\ UNCHANGED rows
    BY <1>6, RecordAuditMoves DEF l
  <2>2. CASE End(r, "ok")
    BY <2>1, <2>2, EndedChecks
  <2>3. CASE l.kind # "bootstrap" /\ Moves(r, "emit", l)
    BY <2>1, <2>3, QuietChecks, ChecksFrom
  <2> QED BY <2>1, <2>2, <2>3
<1>7. CASE Announced(r)
  <2> DEFINE s == Afterwards(l.kind)
  <2>1. at[r] = "emit" /\ l.kind \in {"bootstrap", "onboard"} /\ Moves(r, s, l) /\ UNCHANGED rows
    BY <1>7, AnnouncedMoves DEF l
  <2>2. s \in {"assign", "audit"}
    BY DEF Afterwards
  <2>3. l.kind = "bootstrap" => (l.raced \/ Admins' = {}) /\ users'[l.user] # "none"
    BY <1>1, <1>l, <2>1 DEF NoAdminCounted, UserIsThere, rows, Admins, Holders
  <2> HIDE DEF s
  <2> QED BY <2>1, <2>2, <2>3, QuietChecks, ChecksFrom
<1> QED BY <1>3, <1>4, <1>5, <1>6, <1>7 DEF Arrival

LEMMA ChecksStep == TypeInv /\ RowsInv /\ ChecksInv /\ [RolesNext]_roleVars => ChecksInv'
<1> SUFFICES ASSUME TypeInv, RowsInv, ChecksInv, [RolesNext]_roleVars PROVE ChecksInv'
  OBVIOUS
<1>1. CASE UNCHANGED roleVars
  BY <1>1 DEF roleVars, ChecksInv, AdminCounted, NoAdminCounted, NoHolderFound, UserIsThere,
              Admins, Holders
<1>2. CASE LoseRequests
  BY <1>2, LoseTypes
     DEF ChecksInv, AdminCounted, NoAdminCounted, NoHolderFound, UserIsThere, Active
<1>3. CASE \E r \in Request : Steps(r)
  <2>1. PICK r \in Request : Steps(r)
    BY <1>3
  <2>2. CASE GivesUp(r)
    BY <2>2, EndedChecks DEF GivesUp
  <2>3. CASE ~GivesUp(r)
    BY <2>1, <2>3, RoleStepChecks, UserStepChecks, OtherStepChecks, QueryFailsGivesUp
       DEF Steps, RequestStep
  <2> QED BY <2>2, <2>3
<1> QED BY <1>1, <1>2, <1>3 DEF RolesNext, Steps

-----------------------------------------------------------------------------
(* Without a Super Admin.                                                  *)
LEMMA AdminsKept ==
    ASSUME TypeInv, NEW r \in Request, Steps(r)
    PROVE  \/ Admins \subseteq Admins'
           \/ RemoveGrant(r) /\ requests[r].role = SuperAdmin
<1> USE DEF TypeInv
<1>1. CASE GivesUp(r) \/ ~Writes(r)
  BY <1>1, QuietRows DEF rows, Admins, Holders
<1>2. CASE ~GivesUp(r) /\ Writes(r)
  <2>1. CASE \/ \E i \in Role : InsertRole(r, i)
             \/ ClearPermissions(r) \/ FillPermissions(r) \/ InsertPermission(r) \/ DeleteUser(r)
    <3>1. UNCHANGED grants
      BY <1>2, <2>1, FailGivesUp
         DEF InsertRole, ClearPermissions, FillPermissions, InsertPermission, DeleteUser
    <3> QED BY <3>1 DEF Admins, Holders
  <2>2. CASE DeleteRole(r)
    <3>1. at[r] = "delete" /\ requests[r].kind = "deleteRole"
          /\ grants' = {g \in grants : g.role # requests[r].role}
      BY <2>2, DeleteRoleMoves
    <3>2. requests[r].role # SuperAdmin
      BY <3>1 DEF Ready, ReadyAt, Active
    <3> QED BY <3>1, <3>2 DEF Admins, Holders
  <2>3. CASE RemoveGrant(r)
    <3>1. grants' = grants \ {[user |-> requests[r].user, role |-> requests[r].role]}
      BY <2>3, RemoveGrantMoves
    <3> QED BY <2>3, <3>1 DEF Admins, Holders
  <2>4. CASE AddGrant(r) \/ InsertUser(r) \/ AssignSuperAdmin(r)
    <3>1. grants \subseteq grants'
      BY <1>2, <2>4, FailGivesUp, AddGrantMoves, InsertUserMoves, AssignSuperAdminMoves
    <3> QED BY <3>1 DEF Admins, Holders
  <2> QED BY <1>2, <2>1, <2>2, <2>3, <2>4 DEF Writes
<1> QED BY <1>1, <1>2

(* A removal that has not been overtaken leaves a Super Admin.             *)
LEMMA CountedRemoval ==
    ASSUME TypeInv, ChecksInv, NEW r \in Request, RemoveGrant(r),
           requests[r].role = SuperAdmin, ~requests[r].raced
    PROVE  Admins' # {}
<1>1. at[r] = "remove" /\ grants' = grants \ {[user |-> requests[r].user, role |-> SuperAdmin]}
  BY RemoveGrantMoves
<1>2. PICK u, v \in Admins : u # v
  BY <1>1 DEF ChecksInv, AdminCounted
<1>3. \A w \in Admins : w # requests[r].user => w \in Admins'
  BY <1>1 DEF Admins, Holders
<1> QED BY <1>2, <1>3

LEMMA MishapStays ==
    ASSUME TypeInv, NEW r \in Request, Steps(r), mishap
    PROVE  mishap'
<1> USE DEF TypeInv, RolesTypeOK
<1>1. CASE GivesUp(r)
  BY <1>1 DEF GivesUp
<1>2. CASE ~GivesUp(r)
  <2>1. CASE Arrival(r) \/ Permit(r) \/ Announced(r) \/ RecordAudit(r) \/ QueryFails(r)
    BY <2>1 DEF Arrival, Authenticate, CountAdmins, Permit, Announced, RecordAudit, QueryFails,
                Fail, history
  <2>2. CASE RoleStep(r)
    BY <1>2, <2>2, FailGivesUp
       DEF RoleStep, history, CheckRoleName, InsertRole, ReadRole, ClearPermissions,
           FillPermissions, RereadRole, CheckHolders, DeleteRole, InsertPermission
  <2>3. CASE UserStep(r)
    BY <1>2, <2>3, FailGivesUp
       DEF UserStep, history, ReadUser, NextRole, RemoveGrant, AddGrant, ReadAccount, DeleteUser,
           ReadEmployeeId, CheckEmail, NextUserNumber, InsertUser, AssignSuperAdmin
  <2> QED BY <1>2, <2>1, <2>2, <2>3 DEF Steps, RequestStep
<1> QED BY <1>1, <1>2

LEMMA StillBootstrapping ==
    ASSUME TypeInv, ChecksInv, NEW r \in Request, Steps(r), Admins' = {}, ~mishap'
    PROVE  Admins = {} /\ ~mishap
<1>1. ~mishap
  BY MishapStays DEF TypeInv
<1>2. CASE Admins \subseteq Admins'
  BY <1>1, <1>2
<1>3. CASE RemoveGrant(r) /\ requests[r].role = SuperAdmin
  <2>1. /\ grants' = grants \ {[user |-> requests[r].user, role |-> SuperAdmin]}
        /\ mishap' = (mishap \/ (requests[r].raced /\ Admins \subseteq {requests[r].user}))
    BY <1>3, RemoveGrantMoves
  <2>2. requests[r].raced
    BY <1>3, CountedRemoval
  <2>3. Admins \subseteq {requests[r].user}
    <3>1. \A w \in Admins : w # requests[r].user => w \in Admins'
      BY <2>1 DEF Admins, Holders
    <3> QED BY <3>1
  <2> QED BY <2>1, <2>2, <2>3
<1> QED BY <1>2, <1>3, AdminsKept

(* A bootstrap whose user is in the table, for want of a Super Admin.      *)
Inserted(r, u) ==
    /\ at[r] \in {"emit", "assign"}
    /\ requests[r].kind = "bootstrap" /\ requests[r].user = u /\ requests[r].changed

LEMMA BootstrappingIs ==
    Bootstrapping <=>
        (Admins = {} /\ ~mishap =>
            /\ grants = {}
            /\ \A u \in User : users[u] # "none" => \E r \in Request : Inserted(r, u)
            /\ \A r \in Request : Active(r) =>
                  requests[r].kind = "bootstrap" \/ (At(r, "permit") /\ requests[r].held = {}))
BY DEF Bootstrapping, Inserted

LEMMA BootstrappingFrom ==
    ASSUME TypeInv, Bootstrapping, Admins = {}, ~mishap, NEW r \in Request,
           OthersKeep(r), grants' = {},
           \A u \in User : Inserted(r, u) => Inserted(r, u)',
           \A u \in User : users'[u] # "none" => users[u] # "none" \/ Inserted(r, u)',
           Active(r)' => \/ requests'[r].kind = "bootstrap"
                         \/ at'[r] = "permit" /\ requests'[r].held = {}
    PROVE  Bootstrapping'
<1>1. /\ \A u \in User : users[u] # "none" => \E q \in Request : Inserted(q, u)
      /\ \A q \in Request : Active(q) =>
            requests[q].kind = "bootstrap" \/ (at[q] = "permit" /\ requests[q].held = {})
  BY BootstrappingIs DEF At
<1>2. ASSUME NEW q \in Request \ {r}, NEW u \in User, Inserted(q, u)
      PROVE  Inserted(q, u)'
  BY <1>2 DEF OthersKeep, SameWork, Inserted
<1>3. ASSUME NEW u \in User, users'[u] # "none" PROVE \E q \in Request : Inserted(q, u)'
  BY <1>1, <1>2, <1>3
<1>4. ASSUME NEW q \in Request \ {r}, Active(q)'
      PROVE  \/ requests'[q].kind = "bootstrap"
             \/ at'[q] = "permit" /\ requests'[q].held = {}
  BY <1>1, <1>4 DEF OthersKeep, SameWork, Active
<1>5. \A q \in Request : Active(q)' =>
         requests'[q].kind = "bootstrap" \/ (at'[q] = "permit" /\ requests'[q].held = {})
  BY <1>4
<1> QED BY <1>3, <1>5 DEF Bootstrapping, Inserted, At

LEMMA BootstrappingStep ==
    ASSUME TypeInv, RowsInv, ChecksInv, Bootstrapping, NEW r \in Request, Steps(r)
    PROVE  Bootstrapping'
<1> SUFFICES ASSUME Admins' = {}, ~mishap' PROVE Bootstrapping'
  BY DEF Bootstrapping
<1> DEFINE l == requests[r]
<1> USE DEF TypeInv, RolesTypeOK
<1>1. Admins = {} /\ ~mishap
  BY StillBootstrapping
<1>2. /\ grants = {} /\ l \in Local
      /\ Active(r) => l.kind = "bootstrap" \/ (at[r] = "permit" /\ l.held = {})
  BY <1>1, BootstrappingIs DEF At
<1>3. Active(r) => ReadyAt(at[r], l)
  BY DEF Ready
<1>l. l = requests[r]
  OBVIOUS
<1> HIDE DEF l
<1>4. CASE GivesUp(r)
  <2>1. PICK o : End(r, o)
    BY <1>4 DEF GivesUp
  <2>2. at'[r] = "over" /\ OthersKeep(r)
    BY <2>1, EndEffect
  <2>3. ~HalfDone(r) \/ l.kind # "bootstrap"
    BY <1>4, <1>l DEF GivesUp
  <2>4. \A u \in User : ~Inserted(r, u)
    BY <1>l, <2>3 DEF Inserted, HalfDone, AtWork, Active, At, Changing, Kind
  <2>5. grants' = {} /\ users' = users
    BY <1>2, <1>4 DEF GivesUp, rows
  <2> QED BY <1>1, <2>2, <2>4, <2>5, BootstrappingFrom DEF Active
<1>5. CASE ~GivesUp(r) /\ \E a \in User : Authenticate(r, a)
  <2>1. PICK a \in User : Authenticate(r, a)
    BY <1>5
  <2>2. PICK m \in Local :
           /\ at[r] = "idle" /\ m.held = PermissionsOf(a) /\ Moves(r, "permit", m)
           /\ UNCHANGED rows
    BY <2>1, AuthenticateMoves
  <2>3. PermissionsOf(a) = {}
    BY <1>1, <1>2 DEF PermissionsOf
  <2>4. OthersKeep(r) /\ at'[r] = "permit" /\ requests'[r].held = {} /\ ~Active(r)
    BY <2>2, <2>3 DEF Moves, SameWork, Active
  <2>5. \A u \in User : ~Inserted(r, u)
    BY <2>4 DEF Inserted, Active
  <2> QED BY <1>1, <1>2, <2>2, <2>4, <2>5, BootstrappingFrom DEF rows
<1>6. CASE ~GivesUp(r) /\ \E u \in User : CountAdmins(r, u)
  <2>1. PICK u \in User : CountAdmins(r, u)
    BY <1>6
  <2> DEFINE m == [[Idle EXCEPT !.user = u] EXCEPT !.shared = FALSE]
  <2>2. at[r] = "idle" /\ Moves(r, "check", m) /\ UNCHANGED rows
    BY <1>6, <2>1, CountAdminsMoves
  <2>3. m.kind = "bootstrap"
    BY DEF Idle
  <2> HIDE DEF m
  <2>4. OthersKeep(r) /\ requests'[r].kind = "bootstrap" /\ ~Active(r)
    BY <2>2, <2>3 DEF Moves, SameWork, Active
  <2>5. \A v \in User : ~Inserted(r, v)
    BY <2>4 DEF Inserted, Active
  <2> QED BY <1>1, <1>2, <2>2, <2>4, <2>5, BootstrappingFrom DEF rows
<1>7. CASE ~GivesUp(r) /\ Permit(r)
  <2>1. at[r] = "permit" /\ (l.actor \in Admins \/ Needed(l.kind) \cap l.held # {})
    BY <1>7, PermitMoves DEF l
  <2>2. l.kind # "bootstrap"
    BY <1>2, <1>3, <2>1 DEF Active, ReadyAt, StepsOf
  <2> QED BY <1>1, <1>2, <2>1, <2>2 DEF Active
<1>8. CASE ~GivesUp(r) /\ RoleStep(r)
  <2>1. at[r] \notin {"idle", "over", "permit"}
    BY <1>8 DEF RoleStep, At, CheckRoleName, InsertRole, ReadRole, ClearPermissions,
           FillPermissions, RereadRole, CheckHolders, DeleteRole, InsertPermission
  <2>2. l.kind = "bootstrap" /\ at[r] \in StepsOf(l.kind)
    BY <1>2, <1>3, <2>1 DEF Active, ReadyAt
  <2>3. at[r] \in {"check", "number", "insert", "emit", "assign", "audit"}
    BY <2>2 DEF StepsOf
  <2> QED BY <1>8, <1>l, <2>2, <2>3
          DEF RoleStep, At, CheckRoleName, InsertRole, ReadRole, ClearPermissions,
           FillPermissions, RereadRole, CheckHolders, DeleteRole, InsertPermission
<1>9. CASE ~GivesUp(r) /\ UserStep(r)
  <2>1. at[r] \notin {"idle", "over", "permit"}
    BY <1>9 DEF UserStep, At, ReadUser, NextRole, RemoveGrant, AddGrant, ReadAccount, DeleteUser,
           ReadEmployeeId, CheckEmail, NextUserNumber, InsertUser, AssignSuperAdmin
  <2>2. l.kind = "bootstrap" /\ at[r] \in StepsOf(l.kind) /\ l.user \in User /\ l.wanted = {}
    BY <1>2, <1>3, <2>1 DEF Active, ReadyAt, OfUser
  <2>3. at[r] \in {"check", "number", "insert", "emit", "assign", "audit"}
    BY <2>2 DEF StepsOf
  <2>4. CheckEmail(r) \/ NextUserNumber(r) \/ InsertUser(r) \/ AssignSuperAdmin(r)
    BY <1>9, <1>l, <2>2, <2>3 DEF UserStep, At, ReadUser, NextRole, RemoveGrant, AddGrant,
           ReadAccount, DeleteUser, ReadEmployeeId
  <2>5. CASE CheckEmail(r)
    <3>1. at[r] = "check" /\ Moves(r, "number", l) /\ UNCHANGED rows
      BY <1>9, <2>2, <2>5, CheckEmailMoves DEF l
    <3>2. OthersKeep(r) /\ requests'[r].kind = "bootstrap" /\ \A v \in User : ~Inserted(r, v)
      BY <2>2, <3>1 DEF Moves, SameWork, Inserted
    <3> QED BY <1>1, <1>2, <3>1, <3>2, BootstrappingFrom DEF rows
  <2>6. CASE NextUserNumber(r)
    <3> DEFINE m == [l EXCEPT !.late = FALSE]
    <3>1. at[r] = "number" /\ Moves(r, "insert", m) /\ UNCHANGED rows
      BY <2>6, NextUserNumberMoves DEF l
    <3>2. m.kind = "bootstrap"
      BY <1>2, <2>2 DEF Local
    <3>3. OthersKeep(r) /\ requests'[r].kind = "bootstrap" /\ \A v \in User : ~Inserted(r, v)
      BY <3>1, <3>2 DEF Moves, SameWork, Inserted
    <3> QED BY <1>1, <1>2, <3>1, <3>3, BootstrappingFrom DEF rows
  <2>7. CASE InsertUser(r)
    <3> DEFINE m == [l EXCEPT !.changed = TRUE]
               ids == UNION {IdsOf(n) : n \in l.wanted}
    <3>1. /\ at[r] = "insert" /\ Moves(r, "emit", m)
          /\ users' = [users EXCEPT ![l.user] = "live"]
          /\ grants' = grants \cup [user : {l.user}, role : ids]
      BY <1>9, <2>7, InsertUserMoves DEF l
    <3>2. m.kind = "bootstrap" /\ m.changed /\ m.user = l.user
      BY <1>2, <2>2 DEF Local
    <3> HIDE DEF m
    <3>3. grants' = {}
      BY <1>2, <2>2, <3>1
    <3>4. /\ OthersKeep(r) /\ at'[r] = "emit" /\ requests'[r].kind = "bootstrap"
          /\ requests'[r].changed /\ requests'[r].user = l.user
      BY <3>1, <3>2 DEF Moves, SameWork
    <3>5. PICK v \in User : v = l.user
      BY <2>2
    <3>6. Inserted(r, v)' /\ \A w \in User : ~Inserted(r, w)
      BY <3>1, <3>4, <3>5 DEF Inserted
    <3>7. \A w \in User : users'[w] # "none" => users[w] # "none" \/ Inserted(r, w)'
      BY <3>1, <3>5, <3>6
    <3> QED BY <1>1, <3>3, <3>4, <3>6, <3>7, BootstrappingFrom
  <2>8. CASE AssignSuperAdmin(r)
    <3>1. grants' = grants \cup {[user |-> l.user, role |-> SuperAdmin]}
      BY <2>8, AssignSuperAdminMoves DEF l
    <3> DEFINE g == [user |-> l.user, role |-> SuperAdmin]
    <3>2. g \in grants' /\ g.role = SuperAdmin
      BY <3>1
    <3>3. g.user \in Admins'
      BY <3>2 DEF Admins, Holders
    <3> QED BY <3>3
  <2> QED BY <2>4, <2>5, <2>6, <2>7, <2>8
<1>10. CASE ~GivesUp(r) /\ RecordAudit(r)
  <2>1. /\ at[r] = "audit" /\ UNCHANGED rows
        /\ \/ End(r, "ok")
           \/ l.kind # "bootstrap"
    BY <1>10, RecordAuditMoves DEF l
  <2>2. End(r, "ok")
    BY <1>2, <2>1 DEF Active
  <2>3. at'[r] = "over" /\ OthersKeep(r) /\ \A u \in User : ~Inserted(r, u)
    BY <2>1, <2>2, EndEffect DEF Inserted
  <2> QED BY <1>1, <1>2, <2>1, <2>3, BootstrappingFrom DEF rows, Active
<1>11. CASE ~GivesUp(r) /\ Announced(r)
  <2>1. at[r] = "emit" /\ Moves(r, Afterwards(l.kind), l) /\ UNCHANGED <<rows, requests>>
    BY <1>11, AnnouncedMoves DEF l
  <2>2. l.kind = "bootstrap" /\ Afterwards(l.kind) = "assign"
    BY <1>2, <2>1 DEF Active, Afterwards
  <2>3. OthersKeep(r) /\ at'[r] = "assign" /\ requests'[r] = requests[r]
    BY <2>1, <2>2 DEF Moves
  <2>4. \A u \in User : Inserted(r, u) => Inserted(r, u)'
    BY <2>3 DEF Inserted
  <2> QED BY <1>1, <1>2, <1>l, <2>1, <2>2, <2>3, <2>4, BootstrappingFrom DEF rows
<1> QED BY <1>4, <1>5, <1>6, <1>7, <1>8, <1>9, <1>10, <1>11, QueryFailsGivesUp
        DEF Steps, Arrival, RequestStep

LEMMA IInvStep == IInv /\ [RolesNext]_roleVars => IInv'
<1> SUFFICES ASSUME IInv, [RolesNext]_roleVars PROVE Bootstrapping'
  BY TypeStep, RowsStep, ChecksStep DEF IInv
<1> USE DEF IInv
<1>1. CASE UNCHANGED roleVars
  BY <1>1 DEF roleVars, Bootstrapping, Admins, Holders, Active, At
<1>2. CASE LoseRequests
  <2> SUFFICES ASSUME Admins' = {}, ~mishap' PROVE Bootstrapping'
    BY DEF Bootstrapping
  <2>1. /\ UNCHANGED rows /\ \A r \in Request : ~Active(r)'
        /\ ~mishap /\ \A r \in Request : ~HalfDone(r) \/ requests[r].kind # "bootstrap"
    BY <1>2, LoseTypes DEF LoseRequests, TypeInv, RolesTypeOK
  <2>2. Admins = {}
    BY <2>1 DEF rows, Admins, Holders
  <2>3. \A r \in Request, u \in User : ~Inserted(r, u)
    BY <2>1 DEF Inserted, HalfDone, AtWork, Active, At, Changing, Kind
  <2>4. grants = {} /\ \A u \in User : users[u] = "none"
    BY <2>1, <2>2, <2>3, BootstrappingIs
  <2> QED BY <2>1, <2>4 DEF Bootstrapping, rows
<1>3. CASE \E r \in Request : Steps(r)
  BY <1>3, BootstrappingStep
<1> QED BY <1>1, <1>2, <1>3 DEF RolesNext, Steps

LEMMA IInvInit == RolesInit => IInv
<1> SUFFICES ASSUME RolesInit PROVE IInv
  OBVIOUS
<1>1. TypeInv
  BY TypeInit
<1>2. RowsInv
  BY RoleAssumption DEF RolesInit, RowsInv, Exists, NoRole
<1>3. ChecksInv
  BY DEF RolesInit, ChecksInv, AdminCounted, NoAdminCounted, NoHolderFound, UserIsThere
<1>4. Bootstrapping
  <2>1. Admins = {} => (\A u \in User : users[u] = "none") /\ grants = {}
    BY GrantedAssumption DEF RolesInit
  <2>2. \A r \in Request : ~Active(r)
    BY DEF RolesInit, Active
  <2> QED BY <2>1, <2>2 DEF Bootstrapping
<1> QED BY <1>1, <1>2, <1>3, <1>4 DEF IInv

(* "Refuses to run when any Super Admin already exists" (bootstrap.ts): a  *)
(* bootstrap that gives the role does so with no other Super Admin, unless *)
(* one was made after its count.                                           *)
THEOREM BootstrapFindsNoAdminHolds == RolesSpec => BootstrapFindsNoAdmin
<1>1. IInv => \A r \in Request :
         (at[r] = "assign" /\ at'[r] = "audit") => Admins = {} \/ requests[r].raced
  <2> SUFFICES ASSUME IInv, NEW r \in Request, at[r] = "assign"
               PROVE  Admins = {} \/ requests[r].raced
    OBVIOUS
  <2>1. requests[r].kind = "bootstrap"
    <3>1. requests[r].kind \in Kind /\ at[r] \in StepsOf(requests[r].kind)
      BY DEF IInv, TypeInv, RolesTypeOK, Ready, ReadyAt, Active, Local
    <3> QED BY <3>1, StepsTellKind
  <2> QED BY <2>1 DEF IInv, ChecksInv, NoAdminCounted
<1> QED BY IInvInit, IInvStep, <1>1, PTL DEF RolesSpec, BootstrapFindsNoAdmin

(* "Cannot remove the last Super Admin" (rbac.ts): the last one who can    *)
(* sign in is lost with his account, or to a removal whose count another   *)
(* has overtaken or has counted a deleted account.                         *)
THEOREM LastAdminIsLostKnowinglyHolds == RolesSpec => LastAdminIsLostKnowingly
<1>1. IInv /\ [RolesNext]_roleVars =>
         [LiveAdmins # {} /\ LiveAdmins' = {} => LosesLastAdmin]_roleVars
  <2> SUFFICES ASSUME IInv, RolesNext, LiveAdmins # {}, LiveAdmins' = {}, ~LosesLastAdmin
               PROVE  FALSE
    OBVIOUS
  <2> USE DEF IInv
  <2>1. PICK a \in Admins : Live(a)
    BY DEF LiveAdmins
  <2>2. \A u \in User : Live(u) => Live(u)'
    BY DEF LosesLastAdmin
  <2>3. Admins \subseteq User /\ Admins' \subseteq User
    BY AdminsOf, TypeStep DEF TypeInv, Admins, Holders, RolesTypeOK, Grant
  <2>4. \A u \in User : u \in Admins' => ~Live(u)'
    BY DEF LiveAdmins
  <2>5. a \notin Admins'
    BY <2>1, <2>2, <2>3, <2>4
  <2>6. ~LoseRequests
    BY <2>1, <2>5, LoseTypes DEF rows, Admins, Holders
  <2>7. PICK r \in Request : Steps(r)
    BY <2>6 DEF RolesNext, Steps
  <2>8. RemoveGrant(r) /\ requests[r].role = SuperAdmin
    BY <2>1, <2>5, <2>7, AdminsKept
  <2>9. ~requests[r].raced
    BY <2>8 DEF LosesLastAdmin, RemoveGrant
  <2>10. PICK w \in Admins' : TRUE
    BY <2>8, <2>9, CountedRemoval
  <2>11. Live(w)
    BY <2>10 DEF LosesLastAdmin
  <2> QED BY <2>2, <2>3, <2>4, <2>10, <2>11
<1> QED BY IInvInit, IInvStep, <1>1, PTL DEF RolesSpec, LastAdminIsLostKnowingly

(* Without a Super Admin the bootstrap is still open, unless one ended     *)
(* half way or two removals raced (bootstrap.ts, rbac.ts).                 *)
THEOREM BootstrapStaysOpenHolds == RolesSpec => []BootstrapStaysOpen
<1>1. IInv => BootstrapStaysOpen
  <2> SUFFICES ASSUME IInv, Admins = {}, ~mishap,
                      \A u \in User : users[u] = "none" => BootstrapUser \notin {None, u}
               PROVE  \E r \in Request : AtWork(r) /\ requests[r].kind = "bootstrap"
    BY DEF BootstrapStaysOpen
  <2>1. PICK u \in User : BootstrapUser \in {None, u}
    BY BootstrapAssumption, UserAssumption
  <2>2. PICK r \in Request : Inserted(r, u)
    BY <2>1, BootstrappingIs DEF IInv
  <2>3. AtWork(r) /\ requests[r].kind = "bootstrap"
    BY <2>2 DEF Inserted, AtWork, Active, At, Changing, Kind
  <2> QED BY <2>3
<1> QED BY IInvInit, IInvStep, <1>1, PTL DEF RolesSpec

-----------------------------------------------------------------------------
(* The work in hand.                                                       *)
LEMMA SameTarget ==
    ASSUME NEW k, NEW l, SameWork(k, l)
    PROVE  Target(k) = Target(l)
BY DEF SameWork, Target

LEMMA InHandIsAtWork ==
    ASSUME TypeInv, NEW r \in Request, InHand(r)
    PROVE  /\ AtWork(r) /\ Active(r) /\ ReadyAt(at[r], requests[r])
           /\ requests[r].kind \in Changing /\ Target(requests[r]) \in User \cup Role
<1>1. Active(r) /\ requests[r].kind \in Kind /\ at[r] # "permit"
      /\ (at[r] = "emit" => requests[r].kind = "bootstrap") /\ requests[r].kind \in Changing
  BY DEF InHand, TakenAt, Active, TypeInv, RolesTypeOK, Local, Kind, Changing
<1>2. ReadyAt(at[r], requests[r])
  BY <1>1 DEF TypeInv, Ready
<1>3. Target(requests[r]) \in User \cup Role
  BY <1>1, <1>2 DEF InHand, TakenAt, ReadyAt, Target, OfUser, Changing, Kind
<1> QED BY <1>1, <1>2, <1>3 DEF AtWork, At

(* A request that moves, when it has its target in hand afterwards.        *)
LEMMA MovesInHand ==
    ASSUME NEW r \in Request, NEW s, NEW l, Moves(r, s, l)
    PROVE  /\ InHand(r)' <=> s \in TakenAt(l.kind)
           /\ l.shared => requests'[r].shared
           /\ Target(requests[r])' = Target(l)
BY SameTarget DEF Moves, InHand, SameWork, Target

LEMMA MovesHalfDone ==
    ASSUME NEW r \in Request, NEW s, NEW l, Moves(r, s, l),
           s \in TakenAt(l.kind), l.kind \in Kind, l.changed
    PROVE  HalfDone(r)'
BY DEF Moves, SameWork, HalfDone, AtWork, Active, At, TakenAt, Changing, Kind

LEMMA OthersInHand ==
    ASSUME NEW r \in Request, OthersKeep(r), NEW q \in Request \ {r}
    PROVE  /\ InHand(q)' <=> InHand(q)
           /\ HalfDone(q)' <=> HalfDone(q)
           /\ Target(requests[q])' = Target(requests[q])
           /\ Alone(q)' => Alone(q)
<1>1. at'[q] = at[q] /\ SameWork(requests[q], requests'[q])
  BY DEF OthersKeep
<1>2. Target(requests[q]) = Target(requests'[q])
  BY <1>1, SameTarget
<1>3. Target(requests[q])' = Target(requests'[q])
  BY DEF Target
<1>4. InHand(q)' <=> InHand(q)
  BY <1>1 DEF InHand, SameWork
<1>5. HalfDone(q)' <=> HalfDone(q)
  BY <1>1 DEF HalfDone, AtWork, Active, At, SameWork
<1> QED BY <1>1, <1>2, <1>3, <1>4, <1>5 DEF Alone, SameWork

OthersShare(r) == \A q \in Request \ {r} : requests'[q].shared = requests[q].shared

(* Overlapping work is known to both, and to the log.                      *)
LEMMA OverlapsFrom ==
    ASSUME TypeInv, Overlaps, NEW r \in Request, NEW s, NEW l, Moves(r, s, l),
           s \in TakenAt(l.kind) =>
              /\ InHand(r) /\ Target(l) = Target(requests[r])
              /\ requests[r].shared => l.shared
    PROVE  Overlaps'
<1> SUFFICES ASSUME NEW p \in Request, NEW q \in Request, p # q, InHand(p)', InHand(q)',
                    Target(requests[p])' = Target(requests[q])'
             PROVE  requests'[q].shared
  BY DEF Overlaps
<1>1. OthersKeep(r)
  BY DEF Moves
<1>2. ASSUME NEW w \in Request, InHand(w)'
      PROVE  /\ InHand(w) /\ Target(requests[w])' = Target(requests[w])
             /\ requests[w].shared => requests'[w].shared
  <2>1. CASE w = r
    BY <1>2, <2>1, MovesInHand
  <2>2. CASE w # r
    BY <1>1, <1>2, <2>2, OthersInHand DEF OthersKeep, SameWork
  <2> QED BY <2>1, <2>2
<1> QED BY <1>2 DEF Overlaps

LEMMA OverlapsTaken ==
    ASSUME TypeInv, Overlaps, NEW r \in Request, NEW s, NEW l, Moves(r, s, l),
           NEW x, NEW k \in Local, Take(r, x, k), Target(l) = x \/ s \notin TakenAt(l.kind)
    PROVE  Overlaps'
<1> SUFFICES ASSUME NEW p \in Request, NEW q \in Request, p # q, InHand(p)', InHand(q)',
                    Target(requests[p])' = Target(requests[q])'
             PROVE  requests'[q].shared
  BY DEF Overlaps
<1>1. /\ OthersKeep(r) /\ requests'[r].shared = (Others(r, x) # {})
      /\ \A w \in Request \ {r} : w \in Others(r, x) => requests'[w].shared
  BY TakeEffect DEF Moves, TypeInv
<1>2. \A w \in Request \ {r} : InHand(w)' /\ Target(requests[w])' = x => w \in Others(r, x)
  BY <1>1, OthersInHand, InHandIsAtWork DEF Others
<1>3. CASE q = r
  <2>1. Target(requests[q])' = x
    BY <1>3, MovesInHand
  <2>2. p \in Others(r, x)
    BY <1>2, <1>3, <2>1
  <2> QED BY <1>1, <1>3, <2>2
<1>4. CASE p = r
  <2>1. Target(requests[p])' = x
    BY <1>4, MovesInHand
  <2>2. q \in Others(r, x)
    BY <1>2, <1>4, <2>1
  <2> QED BY <1>1, <1>4, <2>2
<1>5. CASE q # r /\ p # r
  BY <1>1, <1>5, OthersInHand DEF Overlaps, OthersKeep, SameWork
<1> QED BY <1>3, <1>4, <1>5

LEMMA SharedFrom ==
    ASSUME TypeInv, SharedIsSpoiled, NEW r \in Request, NEW s, NEW l, Moves(r, s, l),
           s \in TakenAt(l.kind) =>
              InHand(r) /\ Target(l) = Target(requests[r]) /\ SharedStays,
           OthersShare(r), spoiled \subseteq spoiled'
    PROVE  SharedIsSpoiled'
<1> SUFFICES ASSUME NEW q \in Request, InHand(q)', requests'[q].shared
             PROVE  Target(requests[q])' \in spoiled'
  BY DEF SharedIsSpoiled
<1>1. /\ InHand(q) /\ Target(requests[q])' = Target(requests[q])
      /\ requests'[q].shared = requests[q].shared
  <2>1. CASE q = r
    BY <2>1, MovesInHand DEF SharedStays
  <2>2. CASE q # r
    BY <2>2, OthersInHand DEF Moves, OthersShare
  <2> QED BY <2>1, <2>2
<1> QED BY <1>1 DEF SharedIsSpoiled

LEMMA SharedTaken ==
    ASSUME TypeInv, SharedIsSpoiled, NEW r \in Request, NEW s, NEW l, Moves(r, s, l),
           NEW x, NEW k \in Local, Take(r, x, k), Target(l) = x \/ s \notin TakenAt(l.kind)
    PROVE  SharedIsSpoiled' /\ spoiled \subseteq spoiled'
<1>1. /\ OthersKeep(r) /\ requests'[r].shared = (Others(r, x) # {})
      /\ \A w \in Request \ {r} : w \notin Others(r, x) => requests'[w] = requests[w]
      /\ spoiled' = IF Others(r, x) # {} THEN spoiled \cup {x} ELSE spoiled
  <2>1. RolesTypeOK /\ OthersKeep(r)
    BY DEF Moves, TypeInv
  <2>2. requests'[r].shared = (Others(r, x) # {})
    BY <2>1, TakeEffect
  <2>3. \A w \in Request \ {r} : w \notin Others(r, x) => requests'[w] = requests[w]
    BY DEF Take
  <2>4. spoiled' = IF Others(r, x) # {} THEN spoiled \cup {x} ELSE spoiled
    BY DEF Take
  <2> QED BY <2>1, <2>2, <2>3, <2>4
<1>2. ASSUME NEW q \in Request, InHand(q)', requests'[q].shared
      PROVE  Target(requests[q])' \in spoiled'
  <2>1. CASE q = r
    BY <1>1, <1>2, <2>1, MovesInHand
  <2>2. CASE q # r /\ q \in Others(r, x)
    BY <1>1, <2>2, OthersInHand DEF Others
  <2>3. CASE q # r /\ q \notin Others(r, x)
    BY <1>1, <1>2, <2>3, OthersInHand DEF SharedIsSpoiled
  <2> QED BY <2>1, <2>2, <2>3
<1> QED BY <1>1, <1>2 DEF SharedIsSpoiled

(* The users and roles a step touches, and those it does not.              *)
RolesOfNext(u) == {roles'[i].name : i \in {g.role : g \in {h \in grants' : h.user = u}}}

Touches(X) ==
    /\ \A u \in User \ X : RolesOfNext(u) = RolesOf(u)
    /\ \A g \in grants : g.user \notin X => g \in grants'
    /\ \A i \in Role \ X : roles'[i].permissions = roles[i].permissions
    /\ \A i \in Role : roles[i].state # "none" =>
          roles'[i].state # "none" /\ roles'[i].name = roles[i].name

(* Requests whose work is described by what their target has.              *)
Watches(q) ==
    \/ requests[q].kind \in OfRole \cup {"setRoles"}
    \/ requests[q].kind = "bootstrap" /\ at[q] \in {"emit", "assign", "audit"}

LEMMA QuietTouches == ASSUME UNCHANGED rows PROVE Touches({})
BY DEF Touches, rows, RolesOf, RolesOfNext

LEMMA OthersOnTheWay ==
    ASSUME TypeInv, WorkInv, NEW r \in Request, OthersKeep(r), NEW X, Touches(X),
           NEW q \in Request \ {r}, Alone(q)',
           Watches(q) => Target(requests[q]) \notin X
    PROVE  OnTheWay(at[q], requests[q])'
<1> DEFINE k == requests[q]
           m == requests'[q]
<1>1. Alone(q) /\ OnTheWay(at[q], k) /\ RoleIsThere(q)
  BY OthersInHand DEF WorkInv, WorkIsOnTheWay, WorkIsKnown
<1>2. at'[q] = at[q] /\ SameWork(k, m)
  BY DEF OthersKeep
<1>3. ReadyAt(at[q], k)
  BY <1>1, InHandIsAtWork DEF Alone
<1>4. CASE k.kind = "setRoles"
  <2>1. k.user \in User \ X
    BY <1>3, <1>4 DEF ReadyAt, OfUser, Watches, Target
  <2>2. RolesOfNext(k.user) = RolesOf(k.user)
    BY <2>1 DEF Touches
  <2>3. at[q] \in {"remove", "add"} => roles'[k.role].name = roles[k.role].name
    BY <1>1, <1>3 DEF Touches, RoleIsThere, ReadyAt
  <2>4. at[q] = "remove" => [user |-> k.user, role |-> k.role] \in grants'
    BY <1>1, <1>4, <2>1 DEF Touches, OnTheWay, RolesAreOnTheWay
  <2>5. RolesAreOnTheWay(at[q], k)
    BY <1>1, <1>4 DEF OnTheWay
  <2>6. m.user = k.user /\ m.role = k.role /\ m.wanted = k.wanted /\ m.current = k.current
        /\ m.todo = k.todo /\ m.kind = "setRoles"
    BY <1>2, <1>4 DEF SameWork
  <2>7. RolesOf(requests[q].user)' = RolesOf(k.user)
    BY <2>2, <2>6 DEF RolesOf, RolesOfNext
  <2>8. RolesAreOnTheWay(at[q], requests[q])'
    BY <1>2, <2>3, <2>4, <2>5, <2>6, <2>7 DEF RolesAreOnTheWay, Difference
  <2> QED BY <2>6, <2>8 DEF OnTheWay, OfRole
<1>5. CASE k.kind \in OfRole
  <2>1. k.role \in Role \ X
    BY <1>1, <1>3, <1>5 DEF ReadyAt, OfRole, Watches, Target, Alone, InHand, TakenAt
  <2>2. roles'[k.role].permissions = roles[k.role].permissions
    BY <2>1 DEF Touches
  <2>3. m.role = k.role /\ m.wanted = k.wanted /\ m.kind = k.kind
    BY <1>2 DEF SameWork
  <2> QED BY <1>1, <1>2, <1>5, <2>2, <2>3 DEF OnTheWay, PermissionsAreOnTheWay, OfRole
<1>6. CASE k.kind = "bootstrap"
  <2>1. m.user = k.user /\ m.kind = "bootstrap"
    BY <1>2, <1>6 DEF SameWork
  <2>2. at[q] \in {"emit", "assign", "audit"} => RolesOf(requests[q].user)' = RolesOf(k.user)
    <3> SUFFICES ASSUME at[q] \in {"emit", "assign", "audit"}
                 PROVE  RolesOf(requests[q].user)' = RolesOf(k.user)
      OBVIOUS
    <3>1. k.user \in User \ X
      BY <1>3, <1>6 DEF ReadyAt, OfUser, Watches, Target
    <3>2. RolesOfNext(k.user) = RolesOf(k.user)
      BY <3>1 DEF Touches
    <3> QED BY <2>1, <3>2 DEF RolesOf, RolesOfNext
  <2> QED BY <1>1, <1>2, <1>6, <2>1, <2>2 DEF OnTheWay, OfRole
<1>7. CASE k.kind \notin OfRole \cup {"setRoles", "bootstrap"}
  BY <1>2, <1>7 DEF OnTheWay, SameWork
<1> QED BY <1>4, <1>5, <1>6, <1>7

LEMMA AccurateFrom ==
    ASSUME TypeInv, AuditIsAccurate, NEW r \in Request, OthersKeep(r), NEW X, Touches(X),
           UNCHANGED audit, spoiled \subseteq spoiled',
           HalfDone(r) => \/ HalfDone(r)' /\ Target(requests[r])' = Target(requests[r])
                          \/ Target(requests[r]) \in spoiled',
           \A x \in (User \cup Role) \cap X :
              x \in spoiled' \/ (HalfDone(r)' /\ Target(requests[r])' = x)
    PROVE  AuditIsAccurate'
<1> SUFFICES ASSUME NEW x \in (User \cup Role) \ spoiled'
             PROVE  Accurate(x)' \/ \E q \in Request : HalfDone(q)' /\ Target(requests[q])' = x
  BY DEF AuditIsAccurate
<1>1. CASE x \in X
  BY <1>1
<1>2. CASE x \notin X /\ \E q \in Request : HalfDone(q) /\ Target(requests[q]) = x
  BY <1>2, OthersInHand
<1>3. CASE x \notin X /\ Accurate(x)
  <2>1. Actual(x)' = Actual(x)
    BY <1>3 DEF Actual, Touches, RolesOf, RolesOfNext
  <2>2. Listed(x)' = Listed(x)
    BY DEF Listed
  <2> QED BY <1>3, <2>1, <2>2 DEF Accurate
<1> QED BY <1>1, <1>2, <1>3 DEF AuditIsAccurate

LEMMA WorkFrom ==
    ASSUME TypeInv, WorkInv, NEW r \in Request, NEW s, NEW l, Moves(r, s, l),
           NEW X, Touches(X), UNCHANGED audit, spoiled \subseteq spoiled',
           \A q \in Request \ {r} : Alone(q)' /\ Watches(q) => Target(requests[q]) \notin X,
           \A x \in (User \cup Role) \cap X :
              x \in spoiled' \/ (HalfDone(r)' /\ Target(requests[r])' = x),
           HalfDone(r) => \/ HalfDone(r)' /\ Target(requests[r])' = Target(requests[r])
                          \/ Target(requests[r]) \in spoiled',
           RoleIsThere(r)', HasWritten(r)', Overlaps', SharedIsSpoiled',
           Alone(r)' => OnTheWay(at[r], requests[r])'
    PROVE  WorkInv'
<1>1. OthersKeep(r)
  BY DEF Moves
<1>2. AuditIsAccurate'
  BY <1>1, AccurateFrom DEF WorkInv
<1>3. WorkIsOnTheWay'
  BY <1>1, OthersOnTheWay DEF WorkIsOnTheWay
<1>4. ASSUME NEW q \in Request \ {r} PROVE RoleIsThere(q)' /\ HasWritten(q)'
  <2>1. /\ RoleIsThere(q) /\ HasWritten(q)
        /\ at'[q] = at[q] /\ SameWork(requests[q], requests'[q])
    BY <1>1 DEF WorkInv, WorkIsKnown, OthersKeep
  <2>2. at[q] \in {"remove", "add"} => requests[q].role \in Role
    BY DEF TypeInv, Ready, ReadyAt, Active
  <2>3. RoleIsThere(q)'
    BY <2>1, <2>2 DEF RoleIsThere, Touches, SameWork
  <2>4. HasWritten(q)'
    BY <2>1 DEF HasWritten, SameWork
  <2> QED BY <2>3, <2>4
<1>5. WorkIsKnown'
  BY <1>4 DEF WorkIsKnown
<1> QED BY <1>2, <1>3, <1>5 DEF WorkInv

(* A step that touches only what its request has in hand.                  *)
LEMMA InHandWork ==
    ASSUME TypeInv, WorkInv, NEW r \in Request, NEW s, NEW l, Moves(r, s, l),
           InHand(r), l.kind = requests[r].kind, Target(l) = Target(requests[r]),
           requests[r].shared => l.shared, SharedStays,
           requests[r].changed => l.changed, s \in TakenAt(l.kind),
           Touches({}) \/ (Touches({Target(l)}) /\ l.changed),
           UNCHANGED <<audit, spoiled>>,
           RoleIsThere(r)', HasWritten(r)',
           Alone(r)' => OnTheWay(at[r], requests[r])'
    PROVE  WorkInv'
<1>1. Overlaps' /\ SharedIsSpoiled'
  BY OverlapsFrom, SharedFrom DEF WorkInv, SharedStays, OthersShare
<1>2. l.kind \in Kind
  BY DEF TypeInv, RolesTypeOK, Local
<1>3. /\ Target(requests[r])' = Target(requests[r])
      /\ l.changed => HalfDone(r)'
      /\ HalfDone(r) => HalfDone(r)'
  BY <1>2, MovesInHand, MovesHalfDone DEF HalfDone
<1>4. CASE Touches({})
  BY <1>1, <1>3, <1>4, WorkFrom
<1>5. CASE Touches({Target(l)}) /\ l.changed
  <2>1. \A q \in Request \ {r} : Alone(q)' => Target(requests[q]) \notin {Target(l)}
    <3>1. ASSUME NEW q \in Request \ {r}, Alone(q)', Target(requests[q]) = Target(l)
          PROVE  FALSE
      <4>1. Alone(q)
        BY <3>1, OthersInHand DEF Moves
      <4> QED BY <3>1, <4>1 DEF WorkInv, Overlaps, Alone
    <3> QED BY <3>1
  <2> DEFINE X == {Target(l)}
  <2>2. \A x \in (User \cup Role) \cap X : HalfDone(r)' /\ Target(requests[r])' = x
    BY <1>3, <1>5
  <2>3. Touches(X) /\ \A q \in Request \ {r} : Alone(q)' => Target(requests[q]) \notin X
    BY <1>5, <2>1
  <2> HIDE DEF X
  <2> QED BY <1>1, <1>3, <2>2, <2>3, WorkFrom
<1> QED BY <1>4, <1>5

(* A step that takes its target in hand, and touches no more than that.    *)
LEMMA TakenWork ==
    ASSUME TypeInv, WorkInv, NEW r \in Request, NEW s, NEW l, Moves(r, s, l),
           NEW x \in User \cup Role, NEW k \in Local, Take(r, x, k),
           Target(l) = x, l.kind \in Kind, s \in TakenAt(l.kind), ~HalfDone(r),
           Touches({}) \/ (Touches({x}) /\ l.changed),
           UNCHANGED audit, RoleIsThere(r)', HasWritten(r)',
           Alone(r)' => OnTheWay(at[r], requests[r])'
    PROVE  WorkInv'
<1>1. Overlaps' /\ SharedIsSpoiled' /\ spoiled \subseteq spoiled'
  BY OverlapsTaken, SharedTaken DEF WorkInv
<1>2. Target(requests[r])' = x /\ (l.changed => HalfDone(r)')
  BY MovesInHand, MovesHalfDone
<1>3. CASE Touches({})
  BY <1>1, <1>2, <1>3, WorkFrom
<1>4. CASE Touches({x}) /\ l.changed
  <2> DEFINE X == {x}
  <2>1. \A q \in Request \ {r} : Alone(q)' => Target(requests[q]) \notin X
    <3> SUFFICES ASSUME NEW q \in Request \ {r}, Alone(q)', Target(requests[q]) = x PROVE FALSE
      OBVIOUS
    <3>1. q \in Others(r, x)
      BY OthersInHand, InHandIsAtWork DEF Others, Moves, Alone
    <3>2. requests'[q].shared
      BY <3>1, TakeEffect DEF TypeInv
    <3> QED BY <3>2 DEF Alone
  <2>2. Touches(X) /\ \A y \in (User \cup Role) \cap X : HalfDone(r)' /\ Target(requests[r])' = y
    BY <1>2, <1>4
  <2> HIDE DEF X
  <2> QED BY <1>1, <1>2, <2>1, <2>2, WorkFrom
<1> QED BY <1>3, <1>4

(* A step before there is anything in hand, or after.                      *)
LEMMA IdleWork ==
    ASSUME TypeInv, WorkInv, NEW r \in Request, NEW s, NEW l, Moves(r, s, l), OthersShare(r),
           s \notin TakenAt(l.kind), s \notin {"remove", "add", "fill"}, l.kind # "bootstrap",
           ~HalfDone(r), Touches({}), UNCHANGED <<audit, spoiled>>
    PROVE  WorkInv'
<1>1. Overlaps' /\ SharedIsSpoiled'
  BY OverlapsFrom, SharedFrom DEF WorkInv
<1>2. ~Alone(r)'
  BY MovesInHand DEF Alone
<1>3. RoleIsThere(r)' /\ HasWritten(r)'
  BY DEF Moves, SameWork, RoleIsThere, HasWritten
<1> QED BY <1>1, <1>2, <1>3, WorkFrom

LEMMA GivesUpWork ==
    ASSUME TypeInv, WorkInv, NEW r \in Request, GivesUp(r)
    PROVE  WorkInv'
<1>1. PICK o : End(r, o)
  BY DEF GivesUp
<1>2. /\ at'[r] = "over" /\ requests'[r] = Idle /\ OthersKeep(r)
      /\ \A q \in Request \ {r} : requests'[q] = requests[q]
  BY <1>1, EndEffect DEF TypeInv
<1>3. /\ UNCHANGED <<rows, audit>> /\ spoiled \subseteq spoiled'
      /\ HalfDone(r) => Target(requests[r]) \in spoiled'
  BY DEF GivesUp
<1>4. Touches({})
  BY <1>3, QuietTouches
<1>5. ~InHand(r)' /\ ~Alone(r)' /\ RoleIsThere(r)' /\ HasWritten(r)'
  BY <1>2 DEF InHand, Alone, TakenAt, RoleIsThere, HasWritten, Idle
<1>6. \A q \in Request : InHand(q)' => q # r
  BY <1>5
<1>7. Overlaps'
  BY <1>2, <1>6, OthersInHand DEF WorkInv, Overlaps, OthersKeep, SameWork
<1>8. SharedIsSpoiled'
  BY <1>2, <1>3, <1>6, OthersInHand DEF WorkInv, SharedIsSpoiled
<1>9. AuditIsAccurate'
  BY <1>2, <1>3, <1>4, AccurateFrom DEF WorkInv
<1>10. WorkIsOnTheWay'
  <2>1. \A q \in Request \ {r} : Alone(q)' => OnTheWay(at[q], requests[q])'
    BY <1>2, <1>4, OthersOnTheWay
  <2> QED BY <1>5, <2>1 DEF WorkIsOnTheWay
<1>11. WorkIsKnown'
  <2>1. \A q \in Request \ {r} : RoleIsThere(q)' /\ HasWritten(q)'
    BY <1>2, <1>3 DEF WorkInv, WorkIsKnown, RoleIsThere, HasWritten, OthersKeep, rows
  <2> QED BY <1>5, <2>1 DEF WorkIsKnown
<1> QED BY <1>7, <1>8, <1>9, <1>10, <1>11 DEF WorkInv

LEMMA SharedStaysForOthers ==
    ASSUME NEW r \in Request, SharedStays \/ UNCHANGED requests
    PROVE  OthersShare(r) /\ SharedStays
BY DEF SharedStays, OthersShare

LEMMA NotYetAtWork ==
    ASSUME NEW r \in Request, at[r] \in {"idle", "permit"}
    PROVE  ~HalfDone(r) /\ ~InHand(r)
BY DEF HalfDone, AtWork, Active, At, InHand, TakenAt

LEMMA OtherStepWork ==
    ASSUME TypeInv, WorkInv, NEW r \in Request, Arrival(r) \/ Permit(r), ~GivesUp(r)
    PROVE  WorkInv'
<1> DEFINE l == requests[r]
<1>1. l \in Local /\ (Active(r) => ReadyAt(at[r], l))
  BY DEF TypeInv, RolesTypeOK, Ready
<1>2. CASE \E a \in User : Authenticate(r, a)
  <2>1. PICK a \in User : Authenticate(r, a)
    BY <1>2
  <2>2. PICK m \in Local :
           /\ at[r] = "idle" /\ m.kind # "bootstrap" /\ Moves(r, "permit", m)
           /\ \A q \in Request \ {r} : requests'[q] = requests[q]
           /\ UNCHANGED <<rows, history>>
    BY <2>1, AuthenticateMoves
  <2>3. OthersShare(r) /\ ~HalfDone(r) /\ Touches({}) /\ UNCHANGED <<audit, spoiled>>
    BY <2>2, NotYetAtWork, QuietTouches DEF OthersShare, history
  <2>4. "permit" \notin TakenAt(m.kind)
    BY DEF TakenAt
  <2> QED BY <2>2, <2>3, <2>4, IdleWork
<1>3. CASE \E u \in User : CountAdmins(r, u)
  <2>1. PICK u \in User : CountAdmins(r, u)
    BY <1>3
  <2> DEFINE k == [Idle EXCEPT !.user = u]
             m == [k EXCEPT !.shared = FALSE]
  <2>2. /\ at[r] = "idle" /\ k \in Local /\ Take(r, u, k) /\ Moves(r, "check", m)
        /\ UNCHANGED <<rows, audit>>
    BY <2>1, CountAdminsMoves
  <2>3. m.kind = "bootstrap" /\ Target(m) = u
    BY DEF Idle, Target
  <2> HIDE DEF m, k
  <2>4. at'[r] = "check" /\ requests'[r].kind = "bootstrap"
    BY <2>2, <2>3 DEF Moves, SameWork
  <2>5. RoleIsThere(r)' /\ HasWritten(r)' /\ OnTheWay(at[r], requests[r])'
    BY <2>4 DEF RoleIsThere, HasWritten, OnTheWay, OfRole
  <2>6. ~HalfDone(r) /\ Touches({})
    BY <2>2, NotYetAtWork, QuietTouches
  <2>7. "check" \in TakenAt(m.kind) /\ m.kind \in Kind
    BY <2>3 DEF TakenAt, Kind
  <2> QED BY <2>2, <2>3, <2>5, <2>6, <2>7, TakenWork
<1>4. CASE Permit(r)
  <2> DEFINE m == [l EXCEPT !.actor = None, !.held = {}]
             s == First(l.kind)
  <2>1. at[r] = "permit" /\ Moves(r, s, m) /\ SharedStays /\ UNCHANGED <<rows, history>>
    BY <1>4, PermitMoves DEF l
  <2>2. m.kind = l.kind /\ l.kind \in Kind \ {"bootstrap"}
    BY <1>1, <2>1 DEF Active, ReadyAt, StepsOf, Local
  <2>3. s \notin TakenAt(m.kind) /\ s \notin {"remove", "add", "fill"}
    BY <2>2 DEF First, TakenAt, Kind
  <2> HIDE DEF m, s
  <2>4. OthersShare(r) /\ ~HalfDone(r) /\ Touches({}) /\ UNCHANGED <<audit, spoiled>>
    BY <2>1, NotYetAtWork, QuietTouches, SharedStaysForOthers DEF history
  <2> QED BY <2>1, <2>2, <2>3, <2>4, IdleWork
<1> QED BY <1>2, <1>3, <1>4 DEF Arrival

LEMMA RoleStepWork ==
    ASSUME TypeInv, RowsInv, WorkInv, NEW r \in Request, RoleStep(r), ~DeleteRole(r), ~GivesUp(r)
    PROVE  WorkInv'
<1> DEFINE l == requests[r]
<1>1. l \in Local /\ HasWritten(r)
  BY DEF TypeInv, RolesTypeOK, WorkInv, WorkIsKnown
<1>2. Active(r) => ReadyAt(at[r], l)
  BY DEF TypeInv, Ready
<1>3. roles \in [Role -> RoleRow]
  BY DEF TypeInv, RolesTypeOK
<1>l. l = requests[r]
  OBVIOUS
<1> HIDE DEF l
<1>4. CASE CheckRoleName(r)
  <2>1. /\ at[r] = "check" /\ l.kind = "createRole" /\ Moves(r, "insert", l)
        /\ UNCHANGED <<rows, history, requests>>
    BY <1>4, CheckRoleNameMoves DEF l
  <2>2. ~HalfDone(r) /\ "insert" \notin TakenAt(l.kind)
    BY <1>l, <2>1, NotWritten DEF WrittenAt, TakenAt
  <2> QED BY <2>1, <2>2, QuietTouches, SharedStaysForOthers, IdleWork DEF history
<1>5. CASE \E i \in Role : InsertRole(r, i)
  <2>1. PICK i \in Role : InsertRole(r, i)
    BY <1>5
  <2> DEFINE k == [l EXCEPT !.role = i, !.changed = TRUE]
             m == [k EXCEPT !.shared = FALSE]
  <2>2. /\ at[r] = "insert" /\ k.kind = "createRole" /\ roles[i].state = "none"
        /\ Moves(r, "clear", m) /\ Take(r, i, k) /\ k \in Local
        /\ roles' = [roles EXCEPT ![i] = [NoRole(k.name) EXCEPT !.state = "live"]]
        /\ UNCHANGED <<grants, audit>>
    BY <2>1, InsertRoleMoves DEF l
  <2>3. m.kind = "createRole" /\ m.changed /\ Target(m) = i /\ l.kind = "createRole"
    BY <1>1, <2>2 DEF Local, Target
  <2> HIDE DEF k, m
  <2>4. Touches({i})
    <3>1. \A j \in Role \ {i} : roles'[j] = roles[j]
      BY <2>2
    <3>2. \A g \in grants : g.role \in Role \ {i}
      BY <2>2 DEF RowsInv, Exists, TypeInv, RolesTypeOK, Grant
    <3>3. \A u : RolesOfNext(u) = RolesOf(u)
      BY <2>2, <3>1, <3>2 DEF RolesOf, RolesOfNext
    <3> QED BY <2>2, <3>1, <3>3 DEF Touches
  <2>5. at'[r] = "clear" /\ requests'[r].kind = "createRole"
    BY <2>2, <2>3 DEF Moves, SameWork
  <2>6. RoleIsThere(r)' /\ HasWritten(r)' /\ OnTheWay(at[r], requests[r])'
    BY <2>5 DEF RoleIsThere, HasWritten, OnTheWay, OfRole, PermissionsAreOnTheWay
  <2>7. ~HalfDone(r) /\ "clear" \in TakenAt(m.kind) /\ m.kind \in Kind
    BY <1>l, <2>2, <2>3, NotWritten DEF WrittenAt, TakenAt, Kind
  <2> QED BY <2>2, <2>3, <2>4, <2>6, <2>7, TakenWork
<1>6. CASE ReadRole(r)
  <2> DEFINE m == [l EXCEPT !.shared = FALSE]
             s == IF l.kind = "updateRole" THEN "clear" ELSE "check"
  <2>1. /\ at[r] = "read" /\ l.kind \in {"updateRole", "deleteRole"}
        /\ Take(r, l.role, l) /\ Moves(r, s, m) /\ UNCHANGED <<rows, audit>>
    BY <1>6, ReadRoleMoves DEF l
  <2>2. l.role \in Role
    BY <1>2, <2>1 DEF Active, ReadyAt
  <2>3. m.kind = l.kind /\ Target(m) = l.role
    BY <1>1, <2>1 DEF Local, Target
  <2>4. at'[r] = s /\ requests'[r].kind = l.kind
    BY <2>1, <2>3 DEF Moves, SameWork
  <2>5. RoleIsThere(r)' /\ HasWritten(r)' /\ OnTheWay(at[r], requests[r])'
    BY <2>1, <2>4 DEF RoleIsThere, HasWritten, OnTheWay, OfRole, PermissionsAreOnTheWay
  <2>6. ~HalfDone(r) /\ s \in TakenAt(m.kind) /\ m.kind \in Kind
    BY <1>l, <2>1, <2>3, NotWritten DEF WrittenAt, TakenAt, Kind
  <2> HIDE DEF m, s
  <2> QED BY <1>1, <2>1, <2>2, <2>3, <2>5, <2>6, QuietTouches, TakenWork
<1>7. CASE ClearPermissions(r)
  <2> DEFINE m == [l EXCEPT !.changed = TRUE]
  <2>1. /\ at[r] = "clear" /\ Moves(r, "fill", m) /\ SharedStays
        /\ roles' = [roles EXCEPT ![l.role].permissions = {}]
        /\ UNCHANGED <<grants, audit, spoiled>>
    BY <1>7, ClearPermissionsMoves DEF l, history
  <2>2. l.kind \in {"createRole", "updateRole"}
    BY <1>1, <1>2, <2>1, StepsTellKind DEF Active, ReadyAt, Local
  <2>3. l.role \in Role /\ InHand(r)
    BY <1>2, <1>l, <2>1, <2>2 DEF Active, ReadyAt, InHand, TakenAt
  <2>4. m.kind = l.kind /\ m.role = l.role /\ m.changed /\ m.shared = l.shared
        /\ Target(m) = l.role /\ Target(l) = l.role /\ "fill" \in TakenAt(m.kind)
    BY <1>1, <2>2 DEF Local, Target, TakenAt
  <2> HIDE DEF m
  <2>5. Touches({l.role})
    <3>1. \A j \in Role : /\ roles'[j].state = roles[j].state /\ roles'[j].name = roles[j].name
                          /\ j # l.role => roles'[j].permissions = roles[j].permissions
      BY <1>3, <2>1, <2>3 DEF RoleRow
    <3>2. \A u : RolesOfNext(u) = RolesOf(u)
      BY <2>1, <3>1 DEF RolesOf, RolesOfNext, TypeInv, RolesTypeOK, Grant
    <3> QED BY <2>1, <3>1, <3>2 DEF Touches
  <2>6. at'[r] = "fill" /\ requests'[r].kind = l.kind /\ requests'[r].role = l.role
        /\ requests'[r].changed
    BY <2>1, <2>4 DEF Moves, SameWork
  <2>7. roles'[l.role].permissions = {}
    BY <1>3, <2>1, <2>3 DEF RoleRow
  <2>8. RoleIsThere(r)' /\ HasWritten(r)' /\ OnTheWay(at[r], requests[r])'
    BY <2>2, <2>6, <2>7 DEF RoleIsThere, HasWritten, OnTheWay, OfRole, PermissionsAreOnTheWay
  <2> QED BY <1>l, <2>1, <2>3, <2>4, <2>5, <2>8, InHandWork
<1>8. CASE FillPermissions(r)
  <2> DEFINE s == AfterFill(l)
  <2>1. /\ at[r] = "fill" /\ Moves(r, s, l) /\ SharedStays
        /\ roles' = [roles EXCEPT ![l.role].permissions = @ \cup (l.wanted \cap catalog)]
        /\ UNCHANGED <<grants, audit, spoiled>>
    BY <1>8, FillPermissionsMoves, SharedStaysForOthers DEF l, history
  <2>2. l.kind \in {"createRole", "updateRole"} /\ l.changed
    BY <1>1, <1>2, <1>l, <2>1, StepsTellKind DEF Active, ReadyAt, Local, HasWritten
  <2>3. l.role \in Role /\ InHand(r)
    BY <1>2, <1>l, <2>1, <2>2 DEF Active, ReadyAt, InHand, TakenAt
  <2>4. Target(l) = l.role /\ s \in TakenAt(l.kind) /\ s \in {"reread", "audit"}
    BY <2>2 DEF Target, TakenAt, AfterFill
  <2> HIDE DEF s
  <2>5. Touches({l.role})
    <3>1. \A j \in Role : /\ roles'[j].state = roles[j].state /\ roles'[j].name = roles[j].name
                          /\ j # l.role => roles'[j].permissions = roles[j].permissions
      BY <1>3, <2>1, <2>3 DEF RoleRow
    <3>2. \A u : RolesOfNext(u) = RolesOf(u)
      BY <2>1, <3>1 DEF RolesOf, RolesOfNext, TypeInv, RolesTypeOK, Grant
    <3> QED BY <2>1, <3>1, <3>2 DEF Touches
  <2>6. at'[r] = s /\ requests'[r].kind = l.kind /\ requests'[r].role = l.role
        /\ requests'[r].wanted = l.wanted /\ requests'[r].shared = l.shared
        /\ requests'[r].changed
    BY <1>l, <2>1, <2>2 DEF Moves, SameWork, SharedStays
  <2>7. RoleIsThere(r)' /\ HasWritten(r)'
    BY <2>2, <2>4, <2>6 DEF RoleIsThere, HasWritten
  <2>8. Alone(r)' => OnTheWay(at[r], requests[r])'
    <3> SUFFICES ASSUME ~l.shared PROVE OnTheWay(at[r], requests[r])'
      BY <2>6 DEF Alone
    <3>1. roles[l.role].permissions = {}
      BY <1>l, <2>1, <2>2, <2>3 DEF WorkInv, WorkIsOnTheWay, Alone, OnTheWay, OfRole,
                                   PermissionsAreOnTheWay
    <3>2. roles'[l.role].permissions = l.wanted \cap catalog
      BY <1>3, <2>1, <2>3, <3>1 DEF RoleRow
    <3>3. Catalog \subseteq catalog
      BY DEF RowsInv
    <3> QED BY <2>2, <2>4, <2>6, <3>2, <3>3 DEF OnTheWay, OfRole, PermissionsAreOnTheWay
  <2> QED BY <1>l, <2>1, <2>2, <2>3, <2>4, <2>5, <2>7, <2>8, InHandWork
<1>9. CASE RereadRole(r)
  <2>1. at[r] = "reread" /\ Moves(r, "audit", l) /\ UNCHANGED <<rows, audit, spoiled, requests>>
    BY <1>9, RereadRoleMoves DEF l, history
  <2>2. l.kind = "updateRole"
    BY <1>1, <1>2, <2>1, StepsTellKind DEF Active, ReadyAt, Local
  <2>3. InHand(r) /\ "audit" \in TakenAt(l.kind)
    BY <1>l, <2>1, <2>2 DEF InHand, TakenAt
  <2>4. at'[r] = "audit"
    BY <2>1 DEF Moves
  <2>5. RoleIsThere(r)' /\ HasWritten(r)'
    BY <1>l, <2>1, <2>2, <2>4 DEF RoleIsThere, HasWritten
  <2>6. Alone(r)' => OnTheWay(at[r], requests[r])'
    <3> SUFFICES ASSUME Alone(r) PROVE OnTheWay(at[r], requests[r])'
      BY <2>1, <2>3 DEF Alone
    <3>1. PermissionsAreOnTheWay("reread", l)
      BY <1>l, <2>1, <2>2 DEF WorkInv, WorkIsOnTheWay, OnTheWay, OfRole
    <3> QED BY <1>l, <2>1, <2>2, <2>4, <3>1 DEF OnTheWay, OfRole, PermissionsAreOnTheWay, rows
  <2> QED BY <1>l, <2>1, <2>3, <2>5, <2>6, QuietTouches, SharedStaysForOthers, InHandWork
<1>10. CASE CheckHolders(r)
  <2> DEFINE m == [l EXCEPT !.raced = FALSE]
  <2>1. /\ at[r] = "check" /\ l.kind = "deleteRole" /\ Moves(r, "delete", m) /\ SharedStays
        /\ UNCHANGED <<rows, audit, spoiled>>
    BY <1>10, CheckHoldersMoves DEF l, history
  <2>2. InHand(r)
    BY <1>l, <2>1 DEF InHand, TakenAt
  <2>3. m.kind = l.kind /\ m.changed = l.changed /\ m.shared = l.shared
        /\ Target(m) = Target(l) /\ "delete" \in TakenAt(m.kind)
    BY <1>1, <2>1 DEF Local, Target, TakenAt
  <2> HIDE DEF m
  <2>4. at'[r] = "delete" /\ requests'[r].kind = "deleteRole"
    BY <2>1, <2>3 DEF Moves, SameWork
  <2>5. RoleIsThere(r)' /\ HasWritten(r)' /\ OnTheWay(at[r], requests[r])'
    BY <2>4 DEF RoleIsThere, HasWritten, OnTheWay, OfRole, PermissionsAreOnTheWay
  <2> QED BY <1>l, <2>1, <2>2, <2>3, <2>5, QuietTouches, InHandWork
<1>11. CASE InsertPermission(r)
  <2> DEFINE m == [l EXCEPT !.changed = TRUE]
  <2>1. /\ at[r] = "insert" /\ l.kind = "createPermission" /\ Moves(r, "audit", m) /\ SharedStays
        /\ UNCHANGED <<users, roles, grants, audit, spoiled>>
    BY <1>11, InsertPermissionMoves DEF l, history
  <2>2. ~HalfDone(r)
    BY <1>l, <2>1, NotWritten DEF WrittenAt
  <2>3. m.kind = l.kind /\ "audit" \notin TakenAt(m.kind)
    BY <1>1, <2>1 DEF Local, TakenAt
  <2> HIDE DEF m
  <2>4. Touches({})
    BY <2>1 DEF Touches, RolesOf, RolesOfNext
  <2> QED BY <2>1, <2>2, <2>3, <2>4, SharedStaysForOthers, IdleWork
<1> QED BY <1>4, <1>5, <1>6, <1>7, <1>8, <1>9, <1>10, <1>11 DEF RoleStep

(* Whoever works on a user the deletion takes the role from is told.       *)
LEMMA DeleteRoleWork ==
    ASSUME TypeInv, RowsInv, ChecksInv, WorkInv, NEW r \in Request, DeleteRole(r)
    PROVE  WorkInv'
<1> DEFINE l == requests[r]
           m == [l EXCEPT !.changed = TRUE]
           lost == IF l.raced THEN Holders(l.role) ELSE {}
           X == {l.role} \cup lost
<1>1. l \in Local /\ (Active(r) => ReadyAt(at[r], l)) /\ roles \in [Role -> RoleRow]
  BY DEF TypeInv, RolesTypeOK, Ready
<1>2. /\ at[r] = "delete" /\ l.kind = "deleteRole" /\ Moves(r, "audit", m)
      /\ requests'[r].shared = l.shared
      /\ roles' = [roles EXCEPT ![l.role] = [@ EXCEPT !.state = "deleted", !.permissions = {}]]
      /\ grants' = {g \in grants : g.role # l.role}
      /\ spoiled' = IF l.raced THEN spoiled \cup Holders(l.role) ELSE spoiled
      /\ \A q \in Request \ {r} : requests'[q].shared =
            (requests[q].shared \/ (l.raced /\ requests[q].user \in Holders(l.role)))
      /\ UNCHANGED audit
  BY DeleteRoleMoves
<1>3. l.role \in Role /\ l.wanted = {} /\ InHand(r) /\ NoHolderFound(r)
  BY <1>1, <1>2 DEF Active, ReadyAt, InHand, TakenAt, ChecksInv
<1>4. m.kind = l.kind /\ m.role = l.role /\ m.changed /\ m.shared = l.shared /\ m.wanted = {}
      /\ Target(m) = l.role /\ Target(l) = l.role /\ "audit" \in TakenAt(m.kind)
  BY <1>1, <1>2, <1>3 DEF Local, Target, TakenAt
<1>5. Holders(l.role) \subseteq User /\ lost \subseteq User
  BY DEF Holders, TypeInv, RolesTypeOK, Grant
<1>6. \A g \in grants : g.role = l.role => g.user \in lost
  BY <1>2, <1>3 DEF NoHolderFound, Holders
<1>l. l = requests[r]
  OBVIOUS
<1>s. spoiled \subseteq spoiled' /\ lost \subseteq spoiled'
  BY <1>2
<1>7. \A q \in Request \ {r} : requests'[q].shared <=>
         requests[q].shared \/ requests[q].user \in lost
  BY <1>2
<1>x. X = {l.role} \cup lost
  OBVIOUS
<1> HIDE DEF m, l, lost, X
<1>8. Touches(X)
  <2>1. \A j \in Role : /\ roles'[j].name = roles[j].name
                        /\ j # l.role => roles'[j].permissions = roles[j].permissions
                        /\ roles[j].state # "none" => roles'[j].state # "none"
    BY <1>1, <1>2, <1>3 DEF RoleRow
  <2>2. \A g \in grants : g.user \notin lost => g \in grants'
    BY <1>2, <1>6
  <2>3. ASSUME NEW u \in User \ X PROVE RolesOfNext(u) = RolesOf(u)
    <3>1. {g.role : g \in {h \in grants' : h.user = u}} = {g.role : g \in {h \in grants : h.user = u}}
      BY <1>2, <1>x, <2>2
    <3>2. \A i \in {g.role : g \in {h \in grants : h.user = u}} : roles'[i].name = roles[i].name
      BY <2>1 DEF TypeInv, RolesTypeOK, Grant
    <3> QED BY <3>1, <3>2 DEF RolesOf, RolesOfNext
  <2> QED BY <1>x, <2>1, <2>2, <2>3 DEF Touches
<1>9. OthersKeep(r) /\ Target(requests[r])' = l.role /\ HalfDone(r)'
  BY <1>2, <1>4, MovesInHand, MovesHalfDone DEF Moves, Kind
<1>10. Overlaps'
  BY <1>l, <1>2, <1>3, <1>4, OverlapsFrom DEF WorkInv
<1>11. ASSUME NEW q \in Request, InHand(q), requests[q].user \in lost
       PROVE  Target(requests[q]) = requests[q].user
  <2>1. ReadyAt(at[q], requests[q]) /\ requests[q].user \in User
    BY <1>5, <1>11, InHandIsAtWork
  <2> QED BY <2>1, NoneRoleAssumption DEF ReadyAt, OfUser, Target
<1>12. SharedIsSpoiled'
  <2> SUFFICES ASSUME NEW q \in Request, InHand(q)', requests'[q].shared
               PROVE  Target(requests[q])' \in spoiled'
    BY DEF SharedIsSpoiled
  <2>1. CASE q = r
    BY <1>l, <1>s, <1>2, <1>3, <1>4, <1>9, <2>1 DEF WorkInv, SharedIsSpoiled
  <2>2. CASE q # r
    <3>1. InHand(q) /\ Target(requests[q])' = Target(requests[q])
      BY <1>9, <2>2, OthersInHand
    <3>2. CASE requests[q].shared
      BY <1>s, <3>1, <3>2 DEF WorkInv, SharedIsSpoiled
    <3>3. CASE requests[q].user \in lost
      BY <1>s, <1>11, <3>1, <3>3
    <3> QED BY <1>7, <2>2, <3>2, <3>3
  <2> QED BY <2>1, <2>2
<1>13. ASSUME NEW q \in Request \ {r}, Alone(q)' PROVE Target(requests[q]) \notin X
  <2>1. Alone(q) /\ InHand(q) /\ ~requests'[q].shared
    BY <1>9, <1>13, OthersInHand DEF Alone
  <2>2. Target(requests[q]) # l.role
    BY <1>l, <1>3, <1>4, <2>1 DEF WorkInv, Overlaps, Alone
  <2>3. requests[q].user \notin lost
    BY <1>7, <2>1
  <2>4. Target(requests[q]) \notin lost
    <3>1. CASE requests[q].kind \in OfRole
      <4>1. requests[q].role \in Role
        BY <2>1, <3>1, InHandIsAtWork DEF ReadyAt, OfRole, InHand, TakenAt
      <4> QED BY <1>5, <3>1, <4>1, UserAssumption DEF Target, OfRole
    <3>2. CASE requests[q].kind \notin OfRole
      BY <2>3, <3>2 DEF Target, OfRole
    <3> QED BY <3>1, <3>2
  <2> QED BY <1>x, <2>2, <2>4
<1>14. at'[r] = "audit" /\ requests'[r].kind = "deleteRole" /\ requests'[r].role = l.role
       /\ requests'[r].wanted = {}
  BY <1>2, <1>4 DEF Moves, SameWork
<1>15. roles'[l.role].permissions = {}
  BY <1>1, <1>2, <1>3 DEF RoleRow
<1>16. RoleIsThere(r)' /\ HasWritten(r)' /\ OnTheWay(at[r], requests[r])'
  BY <1>14, <1>15 DEF RoleIsThere, HasWritten, OnTheWay, OfRole, PermissionsAreOnTheWay
<1>17. \A x \in (User \cup Role) \cap X : x \in spoiled' \/ (HalfDone(r)' /\ Target(requests[r])' = x)
  BY <1>s, <1>x, <1>9
<1>18. HalfDone(r) => HalfDone(r)' /\ Target(requests[r])' = Target(requests[r])
  BY <1>l, <1>4, <1>9
<1> QED BY <1>2, <1>s, <1>8, <1>10, <1>12, <1>13, <1>16, <1>17, <1>18, WorkFrom

(* Giving and taking a role touches the user, and adds or removes a name.  *)
LEMMA GrantsTouch ==
    ASSUME RolesTypeOK, NEW u \in User, UNCHANGED roles,
           \A g \in grants \cup grants' : g.user # u => g \in grants /\ g \in grants'
    PROVE  Touches({u})
<1>1. ASSUME NEW v \in User \ {u} PROVE RolesOfNext(v) = RolesOf(v)
  <2>1. {g \in grants' : g.user = v} = {g \in grants : g.user = v}
    BY <1>1
  <2> QED BY <2>1 DEF RolesOf, RolesOfNext
<1> QED BY <1>1 DEF Touches

LEMMA GrantIs ==
    ASSUME RolesTypeOK, RowsInv, NEW u \in User, NEW n \in RolesOf(u), NEW i \in IdsOf(n)
    PROVE  [user |-> u, role |-> i] \in grants
<1>1. PICK g \in grants : g.user = u /\ roles[g.role].name = n
  BY DEF RolesOf
<1>2. g.role = i /\ g \in Grant
  BY <1>1 DEF RowsInv, IdsOf, RolesTypeOK, Grant
<1> QED BY <1>1, <1>2 DEF Grant

LEMMA GrantTaken ==
    ASSUME RolesTypeOK, RowsInv, NEW u \in User, NEW i \in Role,
           [user |-> u, role |-> i] \in grants, UNCHANGED roles,
           grants' = grants \ {[user |-> u, role |-> i]}
    PROVE  RolesOfNext(u) = RolesOf(u) \ {roles[i].name}
<1>1. ASSUME NEW n, n \in RolesOfNext(u) PROVE n \in RolesOf(u) /\ n # roles[i].name
  <2>1. PICK g \in grants' : g.user = u /\ roles[g.role].name = n
    BY <1>1 DEF RolesOfNext
  <2>2. g \in grants /\ g \in Grant /\ g # [user |-> u, role |-> i]
    BY <2>1 DEF RolesTypeOK
  <2>3. g.role # i
    BY <2>1, <2>2 DEF Grant
  <2>4. n # roles[i].name
    BY <2>1, <2>2, <2>3 DEF RowsInv, Grant
  <2> QED BY <2>1, <2>2, <2>4 DEF RolesOf
<1>2. ASSUME NEW n, n \in RolesOf(u), n # roles[i].name PROVE n \in RolesOfNext(u)
  <2>1. PICK g \in grants : g.user = u /\ roles[g.role].name = n
    BY <1>2 DEF RolesOf
  <2>2. g \in grants'
    BY <1>2, <2>1
  <2> QED BY <2>1, <2>2 DEF RolesOfNext
<1> QED BY <1>1, <1>2

LEMMA GrantGiven ==
    ASSUME NEW u, NEW i, UNCHANGED roles,
           grants' = grants \cup {[user |-> u, role |-> i]}
    PROVE  RolesOfNext(u) = RolesOf(u) \cup {roles[i].name}
<1> DEFINE g0 == [user |-> u, role |-> i]
<1>1. g0.user = u /\ g0.role = i /\ grants' = grants \cup {g0}
  OBVIOUS
<1> HIDE DEF g0
<1>2. ASSUME NEW n PROVE n \in RolesOfNext(u) <=> n \in RolesOf(u) \cup {roles[i].name}
  BY <1>1 DEF RolesOf, RolesOfNext
<1> QED BY <1>2

LEMMA QuietRoles == ASSUME UNCHANGED rows, NEW u PROVE RolesOfNext(u) = RolesOf(u)
BY DEF rows, RolesOf, RolesOfNext

(* setUserRoles between two roles, and at its end.                         *)
LEMMA BetweenRoles ==
    ASSUME NEW r \in Request, NEW l, Moves(r, Remains(l.todo), l), l.kind = "setRoles",
           (RolesOfNext(l.user) \ l.wanted) \cup (l.wanted \ RolesOfNext(l.user)) = l.todo,
           \A n \in l.todo : n \in l.current <=> n \in RolesOfNext(l.user)
    PROVE  OnTheWay(at[r], requests[r])'
<1>1. /\ at'[r] = Remains(l.todo) /\ requests'[r].kind = "setRoles"
      /\ requests'[r].user = l.user /\ requests'[r].wanted = l.wanted
      /\ requests'[r].current = l.current /\ requests'[r].todo = l.todo
  BY DEF Moves, SameWork
<1>2. at'[r] \notin {"remove", "add"} /\ (at'[r] = "audit" => l.todo = {})
  BY <1>1 DEF Remains
<1>3. RolesOf(requests[r].user)' = RolesOfNext(l.user)
  BY <1>1 DEF RolesOf, RolesOfNext
<1>4. RolesAreOnTheWay(at[r], requests[r])'
  BY <1>1, <1>2, <1>3 DEF RolesAreOnTheWay, Difference
<1> QED BY <1>1, <1>4 DEF OnTheWay, OfRole

LEMMA ReadUserWork ==
    ASSUME TypeInv, WorkInv, NEW r \in Request, ReadUser(r), ~GivesUp(r)
    PROVE  WorkInv'
<1> DEFINE l == requests[r]
           todo == (RolesOf(l.user) \ l.wanted) \cup (l.wanted \ RolesOf(l.user))
           k == [l EXCEPT !.current = RolesOf(l.user), !.todo = todo]
           m == [k EXCEPT !.shared = FALSE]
<1>1. /\ at[r] = "read" /\ l.kind = "setRoles" /\ k \in Local /\ Take(r, l.user, k)
      /\ Moves(r, Remains(todo), m) /\ UNCHANGED <<rows, audit>>
  BY ReadUserMoves
<1>2. l \in Local /\ l.user \in User
  BY <1>1 DEF TypeInv, RolesTypeOK, Ready, ReadyAt, Active, OfUser
<1>3. ~HalfDone(r)
  BY <1>1, NotWritten DEF WrittenAt
<1> HIDE DEF l, todo
<1>4. /\ m.kind = "setRoles" /\ m.user = l.user /\ m.wanted = l.wanted /\ m.todo = todo
      /\ m.current = RolesOf(l.user)
  <2> HIDE DEF RolesOf
  <2> QED BY <1>1, <1>2 DEF Local
<1> HIDE DEF k, m
<1>5. RolesOfNext(l.user) = RolesOf(l.user)
  BY <1>1, QuietRoles
<1>6. OnTheWay(at[r], requests[r])'
  BY <1>1, <1>4, <1>5, BetweenRoles DEF todo
<1>7. Target(m) = l.user /\ m.kind \in Kind /\ Remains(todo) \in TakenAt(m.kind)
  BY <1>4 DEF Target, Kind, TakenAt, Remains
<1>8. at'[r] \in {"next", "audit"} /\ requests'[r].kind = "setRoles"
  BY <1>1, <1>4 DEF Moves, Remains, SameWork
<1>9. RoleIsThere(r)' /\ HasWritten(r)'
  BY <1>8 DEF RoleIsThere, HasWritten
<1> QED BY <1>1, <1>2, <1>3, <1>6, <1>7, <1>9, QuietTouches, TakenWork

LEMMA NextRoleWork ==
    ASSUME TypeInv, RowsInv, WorkInv, NEW r \in Request, NEW n \in Name, NextRole(r, n), ~GivesUp(r)
    PROVE  WorkInv'
<1> DEFINE l == requests[r]
           k(i) == [l EXCEPT !.role = i, !.todo = @ \ {n}, !.raced = FALSE]
           s == IF n \in l.current THEN "remove" ELSE "add"
<1>1. /\ at[r] = "next" /\ InOrder(l, n) /\ \E i \in IdsOf(n) : Moves(r, s, k(i))
      /\ SharedStays /\ UNCHANGED <<rows, history>>
  BY NextRoleMoves
<1>2. PICK i \in IdsOf(n) : Moves(r, s, k(i))
  BY <1>1
<1>3. l \in Local /\ l.kind = "setRoles" /\ l.user \in User
  <2>1. l \in Local /\ ReadyAt("next", l)
    BY <1>1 DEF TypeInv, RolesTypeOK, Ready, Active
  <2>2. l.kind = "setRoles"
    BY <2>1, StepsTellKind DEF ReadyAt, Local
  <2> QED BY <2>1, <2>2 DEF ReadyAt, OfUser
<1>l. l = requests[r]
  OBVIOUS
<1> HIDE DEF l
<1> DEFINE m == k(i)
<1>4. /\ m.kind = "setRoles" /\ m.user = l.user /\ m.wanted = l.wanted /\ m.todo = l.todo \ {n}
      /\ m.current = l.current /\ m.role = i /\ m.changed = l.changed /\ m.shared = l.shared
  BY <1>3 DEF Local
<1>5. Moves(r, s, m)
  BY <1>2
<1>6. s \in {"remove", "add"} /\ (s = "remove" <=> n \in l.current)
  OBVIOUS
<1> HIDE DEF k, m, s
<1>7. /\ at'[r] = s /\ requests'[r].kind = "setRoles"
      /\ requests'[r].user = l.user /\ requests'[r].wanted = l.wanted
      /\ requests'[r].current = l.current /\ requests'[r].todo = l.todo \ {n}
      /\ requests'[r].role = i /\ (l.shared => requests'[r].shared)
  BY <1>4, <1>5 DEF Moves, SameWork
<1>8. i \in Role /\ roles[i].state = "live" /\ roles[i].name = n /\ roles' = roles
  BY <1>1, <1>2 DEF IdsOf, Exists, rows
<1>9. RoleIsThere(r)' /\ HasWritten(r)'
  BY <1>6, <1>7, <1>8 DEF RoleIsThere, HasWritten
<1>10. InHand(r) /\ s \in TakenAt(m.kind)
  BY <1>l, <1>1, <1>3, <1>4, <1>6 DEF InHand, TakenAt
<1>11. Alone(r)' => OnTheWay(at[r], requests[r])'
  <2> SUFFICES ASSUME ~l.shared PROVE OnTheWay(at[r], requests[r])'
    BY <1>7 DEF Alone
  <2>1. RolesAreOnTheWay("next", l)
    BY <1>l, <1>1, <1>3, <1>10 DEF WorkInv, WorkIsOnTheWay, Alone, OnTheWay
  <2>2. /\ Difference(l.user, l.wanted) = l.todo
        /\ \A x \in l.todo : x \in l.current <=> x \in RolesOf(l.user)
    BY <2>1 DEF RolesAreOnTheWay
  <2>3. n \in l.todo
    BY <1>1 DEF InOrder
  <2>4. RolesOf(requests[r].user)' = RolesOf(l.user)
    BY <1>1, <1>7 DEF RolesOf, rows
  <2>5. s = "remove" => [user |-> l.user, role |-> i] \in grants'
    BY <1>1, <1>2, <1>3, <1>6, <2>2, <2>3, GrantIs DEF rows, TypeInv
  <2>6. s = "add" => n \notin RolesOf(l.user)
    BY <1>6, <2>2, <2>3
  <2>7. roles'[requests'[r].role].name = n
    BY <1>7, <1>8
  <2>8. Difference(requests[r].user, requests[r].wanted)' = Difference(l.user, l.wanted)
    BY <1>7, <2>4 DEF Difference
  <2>9. RolesAreOnTheWay(at[r], requests[r])'
    BY <1>6, <1>7, <2>2, <2>3, <2>4, <2>5, <2>6, <2>7, <2>8 DEF RolesAreOnTheWay
  <2> QED BY <1>7, <2>9 DEF OnTheWay, OfRole
<1>12. Target(m) = Target(l) /\ UNCHANGED <<audit, spoiled>>
  BY <1>1, <1>3, <1>4 DEF Target, history
<1> QED BY <1>l, <1>1, <1>3, <1>4, <1>5, <1>9, <1>10, <1>11, <1>12, QuietTouches, InHandWork

LEMMA RemoveGrantWork ==
    ASSUME TypeInv, RowsInv, WorkInv, NEW r \in Request, RemoveGrant(r)
    PROVE  WorkInv'
<1> DEFINE l == requests[r]
           m == [l EXCEPT !.changed = TRUE]
           s == Remains(l.todo)
<1>1. /\ at[r] = "remove" /\ Moves(r, s, m) /\ SharedStays
      /\ grants' = grants \ {[user |-> l.user, role |-> l.role]}
      /\ UNCHANGED <<roles, audit, spoiled>>
  BY RemoveGrantMoves
<1>2. l \in Local /\ l.kind = "setRoles" /\ l.user \in User /\ l.role \in Role
  <2>1. l \in Local /\ ReadyAt("remove", l)
    BY <1>1 DEF TypeInv, RolesTypeOK, Ready, Active
  <2>2. l.kind = "setRoles"
    BY <2>1, StepsTellKind DEF ReadyAt, Local
  <2> QED BY <2>1, <2>2 DEF ReadyAt, OfUser
<1>l. l = requests[r]
  OBVIOUS
<1> HIDE DEF l
<1>3. /\ m.kind = "setRoles" /\ m.user = l.user /\ m.wanted = l.wanted /\ m.todo = l.todo
      /\ m.current = l.current /\ m.changed /\ m.shared = l.shared
  BY <1>2 DEF Local
<1>4. s = Remains(m.todo) /\ s \in {"next", "audit"}
  BY <1>3 DEF Remains
<1> HIDE DEF m, s
<1>5. Target(m) = l.user /\ Target(l) = l.user /\ s \in TakenAt(m.kind) /\ InHand(r)
  BY <1>l, <1>1, <1>2, <1>3, <1>4 DEF Target, TakenAt, InHand
<1>6. Touches({l.user})
  BY <1>1, <1>2, GrantsTouch DEF TypeInv
<1>7. at'[r] = s /\ requests'[r].kind = "setRoles" /\ (l.shared => requests'[r].shared)
  BY <1>1, <1>3 DEF Moves, SameWork
<1>8. RoleIsThere(r)' /\ HasWritten(r)'
  BY <1>4, <1>7 DEF RoleIsThere, HasWritten
<1>9. Alone(r)' => OnTheWay(at[r], requests[r])'
  <2> SUFFICES ASSUME ~l.shared PROVE OnTheWay(at[r], requests[r])'
    BY <1>7 DEF Alone
  <2> DEFINE n == roles[l.role].name
  <2>1. RolesAreOnTheWay("remove", l)
    BY <1>l, <1>1, <1>2, <1>5 DEF WorkInv, WorkIsOnTheWay, Alone, OnTheWay
  <2>2. /\ Difference(l.user, l.wanted) = l.todo \cup {n} /\ n \notin l.todo
        /\ \A x \in l.todo : x \in l.current <=> x \in RolesOf(l.user)
        /\ [user |-> l.user, role |-> l.role] \in grants
    BY <2>1 DEF RolesAreOnTheWay
  <2>3. n \in RolesOf(l.user)
    BY <2>2 DEF RolesOf
  <2>4. RolesOfNext(l.user) = RolesOf(l.user) \ {n}
    BY <1>1, <1>2, <2>2, GrantTaken DEF TypeInv
  <2> HIDE DEF n
  <2>5. (RolesOfNext(l.user) \ l.wanted) \cup (l.wanted \ RolesOfNext(l.user)) = l.todo
    BY <2>2, <2>3, <2>4 DEF Difference
  <2>6. \A x \in l.todo : x \in l.current <=> x \in RolesOfNext(l.user)
    BY <2>2, <2>4
  <2> QED BY <1>1, <1>3, <1>4, <2>5, <2>6, BetweenRoles
<1> QED BY <1>l, <1>1, <1>2, <1>3, <1>5, <1>6, <1>8, <1>9, InHandWork

LEMMA AddGrantWork ==
    ASSUME TypeInv, RowsInv, WorkInv, NEW r \in Request, AddGrant(r), ~GivesUp(r)
    PROVE  WorkInv'
<1> DEFINE l == requests[r]
           m == [l EXCEPT !.changed = TRUE]
           s == Remains(l.todo)
<1>1. /\ at[r] = "add" /\ Moves(r, s, m) /\ SharedStays
      /\ grants' = grants \cup {[user |-> l.user, role |-> l.role]}
      /\ UNCHANGED <<roles, audit, spoiled>>
  BY AddGrantMoves DEF history
<1>2. l \in Local /\ l.kind = "setRoles" /\ l.user \in User /\ l.role \in Role
  <2>1. l \in Local /\ ReadyAt("add", l)
    BY <1>1 DEF TypeInv, RolesTypeOK, Ready, Active
  <2>2. l.kind = "setRoles"
    BY <2>1, StepsTellKind DEF ReadyAt, Local
  <2> QED BY <2>1, <2>2 DEF ReadyAt, OfUser
<1>l. l = requests[r]
  OBVIOUS
<1> HIDE DEF l
<1>3. /\ m.kind = "setRoles" /\ m.user = l.user /\ m.wanted = l.wanted /\ m.todo = l.todo
      /\ m.current = l.current /\ m.changed /\ m.shared = l.shared
  BY <1>2 DEF Local
<1>4. s = Remains(m.todo) /\ s \in {"next", "audit"}
  BY <1>3 DEF Remains
<1> HIDE DEF m, s
<1>5. Target(m) = l.user /\ Target(l) = l.user /\ s \in TakenAt(m.kind) /\ InHand(r)
  BY <1>l, <1>1, <1>2, <1>3, <1>4 DEF Target, TakenAt, InHand
<1>6. Touches({l.user})
  BY <1>1, <1>2, GrantsTouch DEF TypeInv
<1>7. at'[r] = s /\ requests'[r].kind = "setRoles" /\ (l.shared => requests'[r].shared)
  BY <1>1, <1>3 DEF Moves, SameWork
<1>8. RoleIsThere(r)' /\ HasWritten(r)'
  BY <1>4, <1>7 DEF RoleIsThere, HasWritten
<1>9. Alone(r)' => OnTheWay(at[r], requests[r])'
  <2> SUFFICES ASSUME ~l.shared PROVE OnTheWay(at[r], requests[r])'
    BY <1>7 DEF Alone
  <2> DEFINE n == roles[l.role].name
  <2>1. RolesAreOnTheWay("add", l)
    BY <1>l, <1>1, <1>2, <1>5 DEF WorkInv, WorkIsOnTheWay, Alone, OnTheWay
  <2>2. /\ Difference(l.user, l.wanted) = l.todo \cup {n} /\ n \notin l.todo
        /\ \A x \in l.todo : x \in l.current <=> x \in RolesOf(l.user)
        /\ n \notin RolesOf(l.user)
    BY <2>1 DEF RolesAreOnTheWay
  <2>3. RolesOfNext(l.user) = RolesOf(l.user) \cup {n}
    BY <1>1, GrantGiven
  <2> HIDE DEF n
  <2>4. (RolesOfNext(l.user) \ l.wanted) \cup (l.wanted \ RolesOfNext(l.user)) = l.todo
    BY <2>2, <2>3 DEF Difference
  <2>5. \A x \in l.todo : x \in l.current <=> x \in RolesOfNext(l.user)
    BY <2>2, <2>3
  <2> QED BY <1>1, <1>3, <1>4, <2>4, <2>5, BetweenRoles
<1> QED BY <1>l, <1>1, <1>2, <1>3, <1>5, <1>6, <1>8, <1>9, InHandWork

LEMMA AccountWork ==
    ASSUME TypeInv, WorkInv, NEW r \in Request, ~GivesUp(r),
           ReadAccount(r) \/ DeleteUser(r) \/ ReadEmployeeId(r)
    PROVE  WorkInv'
<1> DEFINE l == requests[r]
<1>1. l \in Local
  BY DEF TypeInv, RolesTypeOK
<1>l. l = requests[r]
  OBVIOUS
<1> HIDE DEF l
<1>2. CASE ReadAccount(r)
  <2>1. /\ at[r] = "read" /\ l.kind = "deleteUser" /\ Moves(r, "delete", l)
        /\ UNCHANGED <<rows, requests, audit, spoiled>>
    BY <1>2, ReadAccountMoves DEF l, history
  <2>2. ~HalfDone(r) /\ "delete" \notin TakenAt(l.kind)
    BY <1>l, <2>1, NotWritten DEF WrittenAt, TakenAt
  <2> QED BY <2>1, <2>2, QuietTouches, SharedStaysForOthers, IdleWork
<1>3. CASE DeleteUser(r)
  <2> DEFINE m == [l EXCEPT !.changed = TRUE]
  <2>1. /\ at[r] = "delete" /\ l.kind = "deleteUser" /\ Moves(r, "audit", m) /\ SharedStays
        /\ UNCHANGED <<roles, grants, audit, spoiled>>
    BY <1>3, DeleteUserMoves DEF l, history
  <2>2. ~HalfDone(r)
    BY <1>l, <2>1, NotWritten DEF WrittenAt
  <2>3. m.kind = "deleteUser" /\ "audit" \notin TakenAt(m.kind)
    BY <1>1, <2>1 DEF Local, TakenAt
  <2> HIDE DEF m
  <2>4. Touches({})
    BY <2>1 DEF Touches, RolesOf, RolesOfNext
  <2> QED BY <2>1, <2>2, <2>3, <2>4, SharedStaysForOthers, IdleWork
<1>4. CASE ReadEmployeeId(r)
  <2>1. /\ at[r] = "read" /\ l.kind = "onboard" /\ Moves(r, "check", l)
        /\ UNCHANGED <<rows, requests, audit, spoiled>>
    BY <1>4, ReadEmployeeIdMoves DEF l, history
  <2>2. ~HalfDone(r) /\ "check" \notin TakenAt(l.kind)
    BY <1>l, <2>1, NotWritten DEF WrittenAt, TakenAt
  <2> QED BY <2>1, <2>2, QuietTouches, SharedStaysForOthers, IdleWork
<1> QED BY <1>2, <1>3, <1>4

LEMMA CheckEmailWork ==
    ASSUME TypeInv, WorkInv, NEW r \in Request, CheckEmail(r), ~GivesUp(r)
    PROVE  WorkInv'
<1> DEFINE l == requests[r]
           m == [l EXCEPT !.shared = FALSE]
<1>1. /\ at[r] = "check" /\ l.kind \in Creating /\ UNCHANGED <<rows, audit>>
      /\ \/ /\ l.kind = "bootstrap" /\ Moves(r, "number", l)
            /\ UNCHANGED <<requests, spoiled>>
         \/ /\ l.kind # "bootstrap" /\ Take(r, l.user, l)
            /\ Moves(r, "number", m)
  BY CheckEmailMoves
<1>2. l \in Local /\ l.user \in User
  BY <1>1 DEF TypeInv, RolesTypeOK, Ready, ReadyAt, Active, Creating, OfUser
<1>3. ~HalfDone(r)
  BY <1>1, NotWritten DEF WrittenAt, Creating
<1>l. l = requests[r]
  OBVIOUS
<1> HIDE DEF l
<1>4. m.kind = l.kind /\ m.user = l.user
  BY <1>2 DEF Local
<1> HIDE DEF m
<1>5. at'[r] = "number" /\ requests'[r].kind = l.kind
  BY <1>1, <1>4 DEF Moves, SameWork
<1>6. RoleIsThere(r)' /\ HasWritten(r)'
  BY <1>5 DEF RoleIsThere, HasWritten
<1>7. OnTheWay(at[r], requests[r])'
  BY <1>1, <1>5 DEF OnTheWay, Creating, OfRole
<1>8. Touches({})
  BY <1>1, QuietTouches
<1>9. CASE l.kind = "bootstrap"
  <2>1. /\ Moves(r, "number", l) /\ UNCHANGED <<audit, spoiled>> /\ SharedStays
    BY <1>1, <1>9 DEF SharedStays
  <2>2. InHand(r) /\ "number" \in TakenAt(l.kind)
    BY <1>l, <1>1, <1>9 DEF InHand, TakenAt
  <2> QED BY <1>l, <1>6, <1>7, <1>8, <2>1, <2>2, InHandWork
<1>10. CASE l.kind # "bootstrap"
  <2>1. Moves(r, "number", m) /\ Take(r, l.user, l)
    BY <1>1, <1>10
  <2>2. Target(m) = l.user /\ m.kind \in Kind
    BY <1>1, <1>4 DEF Target, Creating, Kind
  <2>3. Overlaps' /\ SharedIsSpoiled' /\ spoiled \subseteq spoiled'
    BY <1>2, <2>1, <2>2, OverlapsTaken, SharedTaken DEF WorkInv
  <2> QED BY <1>1, <1>3, <1>6, <1>7, <1>8, <2>1, <2>3, WorkFrom
<1> QED BY <1>9, <1>10

LEMMA NextUserNumberWork ==
    ASSUME TypeInv, WorkInv, NEW r \in Request, NextUserNumber(r)
    PROVE  WorkInv'
<1> DEFINE l == requests[r]
           m == [l EXCEPT !.late = FALSE]
<1>1. /\ at[r] = "number" /\ Moves(r, "insert", m) /\ SharedStays
      /\ UNCHANGED <<rows, audit, spoiled>>
  BY NextUserNumberMoves DEF history
<1>2. l \in Local /\ l.kind \in Creating
  <2>1. l \in Local /\ ReadyAt("number", l)
    BY <1>1 DEF TypeInv, RolesTypeOK, Ready, Active
  <2> QED BY <2>1, StepsTellKind DEF ReadyAt, Local
<1>3. ~HalfDone(r)
  BY <1>1, <1>2, NotWritten DEF WrittenAt, Creating
<1>l. l = requests[r]
  OBVIOUS
<1> HIDE DEF l
<1>4. m.kind = l.kind /\ m.user = l.user /\ m.shared = l.shared /\ m.changed = l.changed
  BY <1>2 DEF Local
<1> HIDE DEF m
<1>5. at'[r] = "insert" /\ requests'[r].kind = l.kind
  BY <1>1, <1>4 DEF Moves, SameWork
<1>6. RoleIsThere(r)' /\ HasWritten(r)' /\ OnTheWay(at[r], requests[r])'
  BY <1>2, <1>5 DEF RoleIsThere, HasWritten, OnTheWay, Creating, OfRole
<1>7. CASE l.kind = "onboard"
  <2>1. "insert" \notin TakenAt(m.kind)
    BY <1>4, <1>7 DEF TakenAt
  <2> QED BY <1>1, <1>3, <1>4, <1>7, <2>1, QuietTouches, SharedStaysForOthers, IdleWork
<1>8. CASE l.kind # "onboard"
  <2>1. InHand(r) /\ "insert" \in TakenAt(m.kind) /\ Target(m) = Target(l)
    BY <1>l, <1>1, <1>2, <1>4, <1>8 DEF InHand, TakenAt, Creating, Target
  <2> QED BY <1>l, <1>1, <1>4, <1>6, <2>1, QuietTouches, InHandWork
<1> QED BY <1>7, <1>8

LEMMA InsertUserWork ==
    ASSUME TypeInv, RowsInv, ChecksInv, WorkInv, NEW r \in Request, InsertUser(r), ~GivesUp(r)
    PROVE  WorkInv'
<1> DEFINE l == requests[r]
           ids == UNION {IdsOf(n) : n \in l.wanted}
           m == [l EXCEPT !.changed = TRUE]
           X == {l.user}
<1>1. /\ at[r] = "insert" /\ l.kind \in Creating /\ users[l.user] = "none"
      /\ Moves(r, "emit", m) /\ SharedStays /\ requests'[r].changed
      /\ grants' = grants \cup [user : {l.user}, role : ids]
      /\ spoiled' = spoiled \cup X
      /\ UNCHANGED <<roles, audit>>
  BY InsertUserMoves
<1>2. l \in Local /\ ReadyAt("insert", l)
  BY <1>1 DEF TypeInv, RolesTypeOK, Ready, Active
<1>3. l.user \in User /\ ~HalfDone(r)
  BY <1>1, <1>2, NotWritten DEF WrittenAt, Creating, ReadyAt, OfUser
<1>l. l = requests[r]
  OBVIOUS
<1> HIDE DEF l
<1>4. m.kind = l.kind /\ m.user = l.user /\ m.shared = l.shared /\ m.changed
  BY <1>2 DEF Local
<1> HIDE DEF m
<1>5. at'[r] = "emit" /\ requests'[r].kind = l.kind /\ requests'[r].user = l.user
  BY <1>1, <1>4 DEF Moves, SameWork
<1>6. RoleIsThere(r)' /\ HasWritten(r)'
  BY <1>1, <1>5 DEF RoleIsThere, HasWritten
<1>7. "emit" \in TakenAt(m.kind) => l.kind = "bootstrap"
  BY <1>1, <1>4 DEF TakenAt, Creating
<1>8. "emit" \in TakenAt(m.kind) =>
         InHand(r) /\ Target(m) = Target(l) /\ (l.shared => m.shared) /\ SharedStays
  BY <1>l, <1>1, <1>4, <1>7 DEF InHand, TakenAt, Target
<1>9. OthersShare(r) /\ spoiled \subseteq spoiled'
  BY <1>1 DEF SharedStays, OthersShare
<1>10. Overlaps' /\ SharedIsSpoiled'
  BY <1>l, <1>1, <1>8, <1>9, OverlapsFrom, SharedFrom DEF WorkInv
<1>11. Touches(X)
  <2> HIDE DEF ids
  <2>1. \A g \in grants \cup grants' : g.user # l.user => g \in grants /\ g \in grants'
    BY <1>1
  <2> QED BY <1>1, <1>3, <2>1, GrantsTouch DEF TypeInv
<1>12. ASSUME NEW q \in Request \ {r}, Alone(q)', Watches(q)
       PROVE  Target(requests[q]) \notin X
  <2>1. InHand(q) /\ ReadyAt(at[q], requests[q]) /\ UserIsThere(q)
    BY <1>1, <1>12, OthersInHand, InHandIsAtWork DEF Moves, Alone, ChecksInv
  <2>2. CASE requests[q].kind \in OfRole
    <3>1. requests[q].role \in Role /\ Target(requests[q]) = requests[q].role
      BY <2>1, <2>2 DEF ReadyAt, OfRole, InHand, TakenAt, Target
    <3> QED BY <1>3, <3>1, UserAssumption
  <2>3. CASE requests[q].kind \in {"setRoles", "bootstrap"}
    <3>1. users[requests[q].user] # "none"
      BY <1>12, <2>1, <2>3 DEF UserIsThere, Watches, InHand, TakenAt, OfRole
    <3> QED BY <1>1, <2>3, <3>1 DEF Target
  <2> QED BY <1>12, <2>2, <2>3 DEF Watches
<1>13. Alone(r)' => OnTheWay(at[r], requests[r])'
  <2> SUFFICES ASSUME Alone(r)' PROVE OnTheWay(at[r], requests[r])'
    OBVIOUS
  <2>1. l.kind = "bootstrap"
    BY <1>1, <1>7, MovesInHand DEF Alone
  <2>2. ids = {}
    BY <1>2, <2>1 DEF ReadyAt
  <2>3. grants' = grants
    <3> HIDE DEF ids
    <3> QED BY <1>1, <2>2
  <2>4. \A g \in grants : g.user # l.user
    BY <1>1 DEF RowsInv
  <2>5. RolesOf(requests[r].user)' = {}
    BY <1>5, <2>3, <2>4 DEF RolesOf
  <2> QED BY <1>5, <2>1, <2>5 DEF OnTheWay, OfRole
<1>14. \A x \in (User \cup Role) \cap X : x \in spoiled' \/ (HalfDone(r)' /\ Target(requests[r])' = x)
  BY <1>1
<1> HIDE DEF X
<1> QED BY <1>1, <1>3, <1>6, <1>9, <1>10, <1>11, <1>12, <1>13, <1>14, WorkFrom

LEMMA AssignSuperAdminWork ==
    ASSUME TypeInv, RowsInv, WorkInv, NEW r \in Request, AssignSuperAdmin(r)
    PROVE  WorkInv'
<1> DEFINE l == requests[r]
<1>1. /\ at[r] = "assign" /\ Moves(r, "audit", l) /\ SharedStays
      /\ grants' = grants \cup {[user |-> l.user, role |-> SuperAdmin]}
      /\ UNCHANGED <<roles, audit, spoiled>>
  BY AssignSuperAdminMoves DEF history
<1>2. l \in Local /\ l.kind = "bootstrap" /\ l.user \in User
  <2>1. l \in Local /\ ReadyAt("assign", l)
    BY <1>1 DEF TypeInv, RolesTypeOK, Ready, Active
  <2>2. l.kind = "bootstrap"
    BY <2>1, StepsTellKind DEF ReadyAt, Local
  <2> QED BY <2>1, <2>2 DEF ReadyAt, OfUser
<1>3. l.changed
  BY <1>1, <1>2 DEF WorkInv, WorkIsKnown, HasWritten
<1>l. l = requests[r]
  OBVIOUS
<1> HIDE DEF l
<1>4. InHand(r) /\ "audit" \in TakenAt(l.kind) /\ Target(l) = l.user
  BY <1>l, <1>1, <1>2 DEF InHand, TakenAt, Target
<1>5. /\ at'[r] = "audit" /\ requests'[r].kind = "bootstrap" /\ requests'[r].user = l.user
      /\ requests'[r].changed /\ (l.shared => requests'[r].shared)
  BY <1>1, <1>2, <1>3 DEF Moves, SameWork
<1>6. RoleIsThere(r)' /\ HasWritten(r)'
  BY <1>5 DEF RoleIsThere, HasWritten
<1>7. Touches({l.user})
  BY <1>1, <1>2, GrantsTouch DEF TypeInv
<1>8. Alone(r)' => OnTheWay(at[r], requests[r])'
  <2> SUFFICES ASSUME ~l.shared PROVE OnTheWay(at[r], requests[r])'
    BY <1>5 DEF Alone
  <2>1. RolesOf(l.user) = {}
    BY <1>l, <1>1, <1>2, <1>4 DEF WorkInv, WorkIsOnTheWay, Alone, OnTheWay
  <2>2. RolesOfNext(l.user) = {"SUPER_ADMIN"}
    BY <1>1, <2>1, GrantGiven, RoleAssumption DEF RowsInv
  <2>3. RolesOf(requests[r].user)' = {"SUPER_ADMIN"}
    BY <1>5, <2>2 DEF RolesOf, RolesOfNext
  <2> QED BY <1>5, <2>3 DEF OnTheWay, OfRole
<1> QED BY <1>l, <1>1, <1>3, <1>4, <1>6, <1>7, <1>8, InHandWork

LEMMA UserStepWork ==
    ASSUME TypeInv, RowsInv, ChecksInv, WorkInv, NEW r \in Request, UserStep(r), ~GivesUp(r)
    PROVE  WorkInv'
BY ReadUserWork, NextRoleWork, RemoveGrantWork, AddGrantWork, AccountWork, CheckEmailWork,
   NextUserNumberWork, InsertUserWork, AssignSuperAdminWork DEF UserStep

(* The audit record of a request that has been alone tells what there is.  *)
LEMMA RecordTellsTheState ==
    ASSUME TypeInv, NEW l \in Local, l.kind \in Changing, ReadyAt("audit", l), OnTheWay("audit", l),
           NEW x, x = Target(l), UNCHANGED <<users, roles, catalog, grants>>,
           audit' = [audit EXCEPT ![x] =
                       IF l.kind = "bootstrap" THEN {"SUPER_ADMIN"} ELSE l.wanted]
    PROVE  Accurate(x)'
<1> DEFINE said == IF l.kind = "bootstrap" THEN {"SUPER_ADMIN"} ELSE l.wanted
<1>1. l.kind \in {"createRole", "updateRole", "deleteRole", "setRoles", "bootstrap"}
  BY DEF Changing, Kind, ReadyAt, StepsOf
<1>2. x \in User \cup Role
  BY <1>1 DEF Target, ReadyAt, OfUser
<1>3. audit'[x] = said
  BY <1>2 DEF TypeInv, RolesTypeOK
<1>4. RolesOf(x)' = RolesOf(x) /\ roles'[x] = roles[x]
  BY DEF RolesOf
<1>5. CASE l.kind \in {"createRole", "updateRole", "deleteRole"}
  <2>1. x = l.role /\ x \in Role /\ x \notin User
    BY <1>5, UserAssumption DEF Target, ReadyAt
  <2>2. PermissionsAreOnTheWay("audit", l)
    BY <1>5 DEF OnTheWay, OfRole
  <2>3. said = l.wanted
    BY <1>5
  <2> HIDE DEF said
  <2>4. Listed(x)' = l.wanted \cap Catalog /\ Actual(x)' = roles[x].permissions
    BY <1>3, <1>4, <2>1, <2>3 DEF Listed, Actual
  <2> QED BY <1>3, <2>1, <2>2, <2>3, <2>4 DEF Accurate, PermissionsAreOnTheWay
<1>6. CASE l.kind \in {"setRoles", "bootstrap"}
  <2>1. x = l.user /\ x \in User
    BY <1>6 DEF Target, ReadyAt, OfUser
  <2>2. CASE l.kind = "setRoles"
    <3>1. Difference(l.user, l.wanted) = {}
      BY <2>2 DEF OnTheWay, RolesAreOnTheWay
    <3>2. RolesOf(l.user) = l.wanted
      BY <3>1 DEF Difference
    <3> QED BY <1>3, <1>4, <2>1, <2>2, <3>2 DEF Accurate, Listed, Actual
  <2>3. CASE l.kind = "bootstrap"
    <3>1. RolesOf(l.user) = {"SUPER_ADMIN"}
      BY <2>3 DEF OnTheWay
    <3> QED BY <1>3, <1>4, <2>1, <2>3, <3>1 DEF Accurate, Listed, Actual
  <2> QED BY <1>6, <2>2, <2>3
<1> QED BY <1>1, <1>5, <1>6

LEMMA RecordAuditWork ==
    ASSUME TypeInv, WorkInv, NEW r \in Request, RecordAudit(r)
    PROVE  WorkInv'
<1> DEFINE l == requests[r]
           x == Target(l)
<1>1. /\ at[r] = "audit"
      /\ IF l.kind \in Changing
         THEN /\ audit' = [audit EXCEPT ![x] =
                             IF l.kind = "bootstrap" THEN {"SUPER_ADMIN"} ELSE l.wanted]
              /\ spoiled' = IF l.shared THEN spoiled ELSE spoiled \ {x}
         ELSE UNCHANGED <<audit, spoiled>>
      /\ \/ l.kind \in {"bootstrap", "onboard"} /\ End(r, "ok")
         \/ /\ l.kind \notin {"bootstrap", "onboard"}
            /\ Moves(r, "emit", l) /\ UNCHANGED <<requests, outcomes>>
      /\ UNCHANGED <<rows, mishap>>
  BY RecordAuditMoves
<1>2. l \in Local /\ ReadyAt("audit", l)
  BY <1>1 DEF TypeInv, RolesTypeOK, Ready, Active
<1>l. l = requests[r]
  OBVIOUS
<1>3. Touches({})
  BY <1>1, QuietTouches
<1> HIDE DEF l
<1>4. CASE l.kind \notin Changing
  <2>1. ~HalfDone(r) /\ UNCHANGED <<audit, spoiled>>
    BY <1>l, <1>1, <1>4 DEF HalfDone, AtWork
  <2>2. CASE End(r, "ok")
    <3>1. GivesUp(r)
      BY <1>1, <2>1, <2>2, RefusedGivesUp DEF history
    <3> QED BY <3>1, GivesUpWork
  <2>3. CASE Moves(r, "emit", l) /\ l.kind \notin {"bootstrap", "onboard"} /\ UNCHANGED requests
    <3>1. "emit" \notin TakenAt(l.kind)
      BY <1>2, <1>4, <2>3 DEF TakenAt, Changing, Local
    <3> QED BY <1>3, <2>1, <2>3, <3>1, SharedStaysForOthers, IdleWork
  <2> QED BY <1>1, <2>2, <2>3
<1>5. CASE l.kind \in Changing
  <2>1. l.kind \in {"createRole", "updateRole", "deleteRole", "setRoles", "bootstrap"}
    BY <1>2, <1>5 DEF Changing, Kind, ReadyAt, StepsOf
  <2>2. InHand(r)
    BY <1>l, <1>1, <2>1 DEF InHand, TakenAt
  <2>3. /\ OthersKeep(r) /\ \A q \in Request \ {r} : requests'[q] = requests[q]
        /\ ~InHand(r)' /\ RoleIsThere(r)' /\ HasWritten(r)'
    <3>1. CASE End(r, "ok")
      BY <3>1, EndEffect DEF TypeInv, InHand, TakenAt, RoleIsThere, HasWritten, Idle
    <3>2. CASE Moves(r, "emit", l) /\ l.kind \notin {"bootstrap", "onboard"} /\ UNCHANGED requests
      <4>1. at'[r] = "emit" /\ requests'[r] = l
        BY <1>l, <3>2 DEF Moves
      <4> QED BY <2>1, <3>2, <4>1 DEF Moves, InHand, TakenAt, RoleIsThere, HasWritten
    <3> QED BY <1>1, <3>1, <3>2
  <2>4. \A q \in Request : InHand(q)' => q # r /\ InHand(q) /\ requests'[q] = requests[q]
    BY <2>3, OthersInHand
  <2>5. Overlaps'
    BY <2>3, <2>4, OthersInHand DEF WorkInv, Overlaps
  <2>6. SharedIsSpoiled'
    <3> SUFFICES ASSUME NEW q \in Request, InHand(q)', requests'[q].shared
                 PROVE  Target(requests[q])' \in spoiled'
      BY DEF SharedIsSpoiled
    <3>1. q # r /\ InHand(q) /\ requests[q].shared /\ Target(requests[q])' = Target(requests[q])
      BY <2>3, <2>4, OthersInHand
    <3>2. Target(requests[q]) \in spoiled
      BY <3>1 DEF WorkInv, SharedIsSpoiled
    <3>3. Target(requests[q]) = x => l.shared
      BY <1>l, <2>2, <3>1 DEF WorkInv, Overlaps
    <3> HIDE DEF x
    <3> QED BY <1>1, <1>5, <3>1, <3>2, <3>3
  <2>7. WorkIsOnTheWay'
    <3>1. \A q \in Request \ {r} : Alone(q)' => OnTheWay(at[q], requests[q])'
      BY <1>3, <2>3, OthersOnTheWay
    <3> QED BY <2>3, <3>1 DEF WorkIsOnTheWay, Alone
  <2>8. WorkIsKnown'
    <3>1. \A q \in Request \ {r} : RoleIsThere(q)' /\ HasWritten(q)'
      BY <1>1, <2>3 DEF WorkInv, WorkIsKnown, RoleIsThere, HasWritten, OthersKeep, rows
    <3> QED BY <2>3, <3>1 DEF WorkIsKnown
  <2>9. AuditIsAccurate'
    <3> SUFFICES ASSUME NEW y \in (User \cup Role) \ spoiled'
                 PROVE  Accurate(y)' \/ \E q \in Request : HalfDone(q)' /\ Target(requests[q])' = y
      BY DEF AuditIsAccurate
    <3>1. CASE y = x
      <4>1. ~l.shared
        BY <1>l, <1>1, <1>5, <2>2, <3>1 DEF WorkInv, SharedIsSpoiled
      <4>2. OnTheWay("audit", l)
        BY <1>l, <1>1, <2>2, <4>1 DEF WorkInv, WorkIsOnTheWay, Alone
      <4>3. PICK k \in Local : k = l
        BY <1>2
      <4> QED BY <1>1, <1>2, <1>5, <3>1, <4>2, <4>3, RecordTellsTheState DEF rows
    <3>2. CASE y # x
      <4>1. y \notin spoiled
        BY <1>1, <1>5, <3>2
      <4>2. CASE Accurate(y)
        <5>1. audit'[y] = audit[y]
          BY <1>1, <1>5, <3>2 DEF TypeInv, RolesTypeOK
        <5>2. RolesOf(y)' = RolesOf(y) /\ roles' = roles
          BY <1>1 DEF rows, RolesOf
        <5> QED BY <4>2, <5>1, <5>2 DEF Accurate, Listed, Actual
      <4>3. CASE \E q \in Request : HalfDone(q) /\ Target(requests[q]) = y
        <5>1. PICK q \in Request : HalfDone(q) /\ Target(requests[q]) = y
          BY <4>3
        <5>2. q # r
          BY <1>l, <3>2, <5>1
        <5> QED BY <2>3, <5>1, <5>2, OthersInHand
      <4> QED BY <4>1, <4>2, <4>3 DEF WorkInv, AuditIsAccurate
    <3> QED BY <3>1, <3>2
  <2> QED BY <2>5, <2>6, <2>7, <2>8, <2>9 DEF WorkInv
<1> QED BY <1>4, <1>5

LEMMA AnnouncedWork ==
    ASSUME TypeInv, WorkInv, NEW r \in Request, Announced(r), ~GivesUp(r)
    PROVE  WorkInv'
<1> DEFINE l == requests[r]
           s == Afterwards(l.kind)
<1>1. /\ at[r] = "emit" /\ l.kind \in {"bootstrap", "onboard"} /\ Moves(r, s, l)
      /\ UNCHANGED <<rows, requests, audit, spoiled>>
  BY AnnouncedMoves DEF history
<1>l. l = requests[r]
  OBVIOUS
<1> HIDE DEF l
<1>2. CASE l.kind = "onboard"
  <2>1. ~HalfDone(r) /\ s = "audit" /\ s \notin TakenAt(l.kind)
    BY <1>l, <1>2 DEF HalfDone, AtWork, Changing, Afterwards, TakenAt
  <2> HIDE DEF s
  <2> QED BY <1>1, <1>2, <2>1, QuietTouches, SharedStaysForOthers, IdleWork
<1>3. CASE l.kind = "bootstrap"
  <2>1. InHand(r) /\ s = "assign" /\ s \in TakenAt(l.kind)
    BY <1>l, <1>1, <1>3 DEF InHand, Afterwards, TakenAt
  <2> HIDE DEF s
  <2>2. l.changed
    BY <1>l, <1>1, <1>3 DEF WorkInv, WorkIsKnown, HasWritten
  <2>3. at'[r] = "assign" /\ requests'[r] = l
    BY <1>l, <1>1, <2>1 DEF Moves
  <2>4. RoleIsThere(r)' /\ HasWritten(r)'
    BY <2>2, <2>3 DEF RoleIsThere, HasWritten
  <2>5. Alone(r)' => OnTheWay(at[r], requests[r])'
    <3> SUFFICES ASSUME ~l.shared PROVE OnTheWay(at[r], requests[r])'
      BY <2>3 DEF Alone
    <3>1. RolesOf(l.user) = {}
      BY <1>l, <1>1, <1>3, <2>1 DEF WorkInv, WorkIsOnTheWay, Alone, OnTheWay
    <3>2. RolesOf(requests[r].user)' = {}
      BY <1>1, <2>3, <3>1 DEF RolesOf, rows
    <3> QED BY <1>3, <2>3, <3>2 DEF OnTheWay, OfRole
  <2> QED BY <1>l, <1>1, <2>1, <2>4, <2>5, QuietTouches, SharedStaysForOthers, InHandWork
<1> QED BY <1>1, <1>2, <1>3

LEMMA LoseWork ==
    ASSUME TypeInv, WorkInv, LoseRequests
    PROVE  WorkInv'
<1>1. /\ \A r \in Request : ~Active(r)' /\ requests'[r] = Idle
      /\ UNCHANGED <<rows, audit>>
  BY LoseTypes
<1>2. \A r \in Request : ~InHand(r)' /\ RoleIsThere(r)' /\ HasWritten(r)'
  <2>1. \A r \in Request : at'[r] \in {"idle", "over"}
    BY <1>1 DEF Active
  <2> QED BY <1>1, <2>1 DEF InHand, TakenAt, RoleIsThere, HasWritten
<1>3. AuditIsAccurate'
  <2> SUFFICES ASSUME NEW x \in (User \cup Role) \ spoiled' PROVE Accurate(x)'
    BY DEF AuditIsAccurate
  <2>1. x \notin spoiled /\ \A r \in Request : HalfDone(r) => Target(requests[r]) # x
    BY DEF LoseRequests
  <2>2. Accurate(x)
    BY <2>1 DEF WorkInv, AuditIsAccurate
  <2> QED BY <1>1, <2>2 DEF Accurate, Listed, Actual, RolesOf, rows
<1> QED BY <1>2, <1>3 DEF WorkInv, WorkIsKnown, Overlaps, SharedIsSpoiled, WorkIsOnTheWay, Alone

LEMMA WorkInit == RolesInit => WorkInv
<1> SUFFICES ASSUME RolesInit PROVE WorkInv
  OBVIOUS
<1>1. \A r \in Request : ~InHand(r) /\ RoleIsThere(r) /\ HasWritten(r)
  BY DEF RolesInit, InHand, TakenAt, RoleIsThere, HasWritten
<1>2. AuditIsAccurate
  BY DEF RolesInit, AuditIsAccurate, Accurate, Listed, Actual
<1> QED BY <1>1, <1>2 DEF WorkInv, WorkIsKnown, Overlaps, SharedIsSpoiled, WorkIsOnTheWay, Alone

LEMMA WorkStep == IInv /\ WorkInv /\ [RolesNext]_roleVars => WorkInv'
<1> SUFFICES ASSUME IInv, WorkInv, [RolesNext]_roleVars PROVE WorkInv'
  OBVIOUS
<1> USE DEF IInv
<1>1. CASE UNCHANGED roleVars
  <2>1. /\ users' = users /\ roles' = roles /\ grants' = grants /\ at' = at /\ requests' = requests
        /\ audit' = audit /\ spoiled' = spoiled
    BY <1>1 DEF roleVars
  <2>2. WorkIsKnown'
    BY <2>1 DEF WorkInv, WorkIsKnown, RoleIsThere, HasWritten
  <2>3. Overlaps' /\ SharedIsSpoiled'
    BY <2>1 DEF WorkInv, Overlaps, SharedIsSpoiled, InHand, Target
  <2>4. WorkIsOnTheWay'
    <3> SUFFICES ASSUME NEW r \in Request, Alone(r)' PROVE OnTheWay(at[r], requests[r])'
      BY DEF WorkIsOnTheWay
    <3>1. OnTheWay(at[r], requests[r])
      BY <2>1 DEF WorkInv, WorkIsOnTheWay, Alone, InHand
    <3>2. RolesOf(requests[r].user)' = RolesOf(requests[r].user)
      BY <2>1 DEF RolesOf
    <3>3. RolesAreOnTheWay(at[r], requests[r]) => RolesAreOnTheWay(at[r], requests[r])'
      BY <2>1, <3>2 DEF RolesAreOnTheWay, Difference
    <3>4. PermissionsAreOnTheWay(at[r], requests[r]) => PermissionsAreOnTheWay(at[r], requests[r])'
      BY <2>1 DEF PermissionsAreOnTheWay
    <3> QED BY <2>1, <3>1, <3>2, <3>3, <3>4 DEF OnTheWay
  <2>5. AuditIsAccurate'
    BY <2>1 DEF WorkInv, AuditIsAccurate, Accurate, Listed, Actual, RolesOf, HalfDone, AtWork,
       Active, At, Target
  <2> QED BY <2>2, <2>3, <2>4, <2>5 DEF WorkInv
<1>2. CASE LoseRequests
  BY <1>2, LoseWork
<1>3. CASE \E r \in Request : Arrival(r) \/ RequestStep(r) \/ Announced(r) \/ QueryFails(r)
  <2>1. PICK r \in Request : Arrival(r) \/ RequestStep(r) \/ Announced(r) \/ QueryFails(r)
    BY <1>3
  <2>2. CASE GivesUp(r)
    BY <2>2, GivesUpWork
  <2>3. CASE ~GivesUp(r)
    BY <2>1, <2>3, RoleStepWork, DeleteRoleWork, UserStepWork, OtherStepWork, RecordAuditWork,
       AnnouncedWork, QueryFailsGivesUp DEF RequestStep
  <2> QED BY <2>2, <2>3
<1> QED BY <1>1, <1>2, <1>3 DEF RolesNext

(* The audit records of setUserRoles, createRole, updateRole, deleteRole   *)
(* and the bootstrap (rbac.ts, user.ts, bootstrap.ts): the last one about  *)
(* a user or role tells what there is, unless requests overlapped on it,   *)
(* one gave up half way, or a role was deleted after it was given.         *)
THEOREM AuditTellsTheStateHolds == RolesSpec => []AuditTellsTheState
<1>1. WorkInv => AuditTellsTheState
  BY DEF WorkInv, AuditIsAccurate, Accurate, AuditTellsTheState, HalfDone
<1> QED BY IInvInit, IInvStep, WorkInit, WorkStep, <1>1, PTL DEF RolesSpec
=============================================================================
