--------------------------- MODULE Administration ---------------------------
(***************************************************************************)
(* Roles and EventBus together: the last statement of a handler is         *)
(* emitEvent, which stores the event and leaves its dispatch running in    *)
(* the background of the process that served the request.  The event of a  *)
(* request bears its name.                                                 *)
(***************************************************************************)
EXTENDS Roles, EventBus

ASSUME EventAssumption == Request \subseteq Event

vars == <<roleVars, busVars>>

(* The type each handler emits.                                            *)
TypeOf(kind) ==
    CASE kind \in {"createRole", "deleteRole", "setRoles"} -> "role.changed"
      [] kind \in {"updateRole", "createPermission"} -> "permission.changed"
      [] kind \in {"createUser", "onboard", "bootstrap"} -> "user.created"
      [] kind = "deleteUser" -> "user.deleted"

ASSUME TypeOfAssumption == \A kind \in Kind : TypeOf(kind) \in EventType

Init == RolesInit /\ BusInit

(* emitEvent never fails its caller.                                       *)
Emit(r) ==
    /\ Announced(r)
    /\ EmitEvent(r, TypeOf(requests[r].kind)) \/ EmitFails(r)

RequestFault(r) ==
    /\ QueryFails(r)
    /\ Incident
    /\ UNCHANGED <<eventLog, endpoints, deliveries, sending, dispatches, posts, eligible>>

(* The process dies: its requests and its dispatches with it.              *)
Crash ==
    /\ \E r \in Request : Active(r) \/ Underway(r)
    /\ Incident
    /\ LoseRequests
    /\ LoseDispatches
    /\ UNCHANGED <<eventLog, endpoints, deliveries, dispatches, posts, eligible>>

Background ==
    /\ \/ Manage
       \/ \E v \in Event \ Request : TestDelivery(v)
       \/ \E v \in Event : DispatchStep(v) \/ DispatchFault(v)
    /\ UNCHANGED roleVars

Serve(r) == RequestStep(r) /\ UNCHANGED busVars

Next ==
    \/ \E r \in Request : \/ Arrival(r) /\ UNCHANGED busVars
                          \/ Serve(r) \/ Emit(r) \/ RequestFault(r)
    \/ Background
    \/ Crash

Spec == Init /\ [][Next]_vars

(* The event loop goes on as long as a handler or a dispatch can: each has *)
(* but finitely many statements left.                                      *)
Progress ==
    \/ \E r \in Request : Serve(r) \/ Emit(r)
    \/ \E v \in Event : DispatchStep(v) /\ UNCHANGED roleVars

FairSpec == Spec /\ WF_vars(Progress)

-----------------------------------------------------------------------------
TypeOK == RolesTypeOK /\ BusTypeOK

(* What a handler has done and is about to announce reaches every endpoint *)
(* that is due the event and stays so, whatever becomes of the caller: the *)
(* delivery log ends up with an outcome, unless the event could not be     *)
(* stored, a statement of its dispatch failed or the process died.         *)
Announces(r, kind) == At(r, "emit") /\ requests[r].kind = kind

ChangeReachesSubscribers ==
    \A r \in Request, e \in Endpoint, kind \in Kinds :
        (Announces(r, kind) /\ Due(endpoints[e], TypeOf(kind)))
          ~> \/ Settled(e, r) \/ ~Due(endpoints[e], TypeOf(kind))
             \/ dispatches[r].faulty \/ sending[r] = "dead" \/ outcomes[r] = "dead"
=============================================================================
