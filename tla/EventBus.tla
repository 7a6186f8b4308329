------------------------------ MODULE EventBus ------------------------------
(***************************************************************************)
(* Domain events and webhooks: apps/api/src/services/events.ts, services/  *)
(* webhook.ts and routes/webhooks.ts.                                      *)
(*                                                                         *)
(* emitEvent stores an event and starts its dispatch in the background.  A *)
(* dispatch reads the subscribed endpoints once and takes them one after   *)
(* the other: a delivery row, a POST, two statements that record how it    *)
(* went and, if it failed, one for the retry.  Each statement is an action *)
(* that may fail; the process may die between any two.                     *)
(***************************************************************************)
EXTENDS Naturals, FiniteSets

CONSTANTS
    Event,                  \* event ids: newEventId never draws one twice
    EventType,
    TestType,               \* the type the test route sends
    Endpoint,
    Subscriptions,          \* the sets of types endpoints may ask for
    MaxSecret,              \* bound: secrets an endpoint may have had
    MaxRetries,             \* WEBHOOK_MAX_RETRIES
    Answers,                \* how a POST may end
    MaxIncidents,           \* bound: changes of endpoints, faults, crashes
    Null

Secret == 1..MaxSecret

(* "late": the endpoint took the event, but the POST had been aborted.     *)
Answer == {"accepted", "refused", "late", "lost"}

ASSUME TypeAssumption ==
    /\ TestType \in EventType
    /\ Subscriptions \subseteq (SUBSET EventType) \ {{}}
ASSUME BusBounds ==
    /\ MaxSecret \in Nat \ {0}
    /\ MaxRetries \in Nat \ {0}
    /\ MaxIncidents \in Nat
ASSUME AnswersAssumption == Answers \subseteq Answer
ASSUME NoEndpoint == Null \notin Endpoint \cup Secret

VARIABLES
    eventLog,               \* event_log
    endpoints,              \* webhook_endpoints
    deliveries,             \* webhook_deliveries, by endpoint and event
    sending,                \* the statement each dispatch is about to execute
    dispatches,             \* what each dispatch has read
    posts,                  \* what the endpoints have received, and answered
    eligible,               \* secrets an endpoint had, while it was due the event
    incidents

busVars == <<eventLog, endpoints, deliveries, sending, dispatches, posts,
             eligible, incidents>>

-----------------------------------------------------------------------------
Sending == {"idle", "select", "next", "post", "record", "mark", "retry",
            "caught", "caughtMark", "caughtRetry", "done", "dead"}

EndpointRow == [state : {"none", "live", "deleted"}, active : BOOLEAN,
                events : SUBSET EventType, secret : Secret,
                last : {"pending", "success", "failed"}]

(* "none": no row; "attempts" is at most two for the one POST.             *)
DeliveryRow == [status : {"none", "pending", "success", "failed", "dead"},
                attempts : 0..2, retry : BOOLEAN]

(* "secrets" is Null for endpoints the dispatch has not selected; "faulty":*)
(* a statement has failed.                                                 *)
Dispatch == [type : EventType, todo : SUBSET Endpoint,
             secrets : [Endpoint -> Secret \cup {Null}],
             target : Endpoint \cup {Null}, faulty : BOOLEAN]

Receipt == [count : 0..2, secret : Secret \cup {Null}, answer : Answer \cup {Null}]

BusTypeOK ==
    /\ eventLog \subseteq Event
    /\ endpoints \in [Endpoint -> EndpointRow]
    /\ deliveries \in [Endpoint -> [Event -> DeliveryRow]]
    /\ sending \in [Event -> Sending]
    /\ dispatches \in [Event -> Dispatch]
    /\ posts \in [Endpoint -> [Event -> Receipt]]
    /\ eligible \in [Endpoint -> [Event -> SUBSET Secret]]
    /\ incidents \in 0..MaxIncidents

NoDelivery == [status |-> "none", attempts |-> 0, retry |-> FALSE]
NoReceipt == [count |-> 0, secret |-> Null, answer |-> Null]
NoDispatch == [type |-> TestType, todo |-> {}, secrets |-> [e \in Endpoint |-> Null],
               target |-> Null, faulty |-> FALSE]

(* Some endpoints are registered.                                          *)
BusInit ==
    /\ eventLog = {}
    /\ endpoints \in [Endpoint -> [state : {"none", "live"}, active : {TRUE},
                                   events : Subscriptions, secret : {1},
                                   last : {"pending"}]]
    /\ deliveries = [e \in Endpoint |-> [v \in Event |-> NoDelivery]]
    /\ sending = [v \in Event |-> "idle"]
    /\ dispatches = [v \in Event |-> NoDispatch]
    /\ posts = [e \in Endpoint |-> [v \in Event |-> NoReceipt]]
    /\ eligible = [e \in Endpoint |-> [v \in Event |-> {}]]
    /\ incidents = 0

-----------------------------------------------------------------------------
Due(endpoint, type) ==
    endpoint.state = "live" /\ endpoint.active /\ type \in endpoint.events

Incident == incidents < MaxIncidents /\ incidents' = incidents + 1

SendNext(v, s) == sending' = [sending EXCEPT ![v] = s]
SetDispatch(v, d) == dispatches' = [dispatches EXCEPT ![v] = d]

(* The loop goes on with the endpoints that are left.                      *)
Leave(v, e, faulty) ==
    LET left == dispatches[v].todo \ {e} IN
    /\ SetDispatch(v, [dispatches[v] EXCEPT !.todo = left, !.target = Null,
                                            !.faulty = @ \/ faulty])
    /\ SendNext(v, IF left = {} THEN "done" ELSE "next")

Underway(v) == sending[v] \notin {"idle", "done", "dead"}

-----------------------------------------------------------------------------
(* Managing endpoints: every route but the test is one statement.          *)

(* Whatever an endpoint becomes counts for the events that are underway.   *)
Becomes(e, row) ==
    /\ endpoints' = [endpoints EXCEPT ![e] = row]
    /\ eligible' = [eligible EXCEPT ![e] =
          [v \in Event |-> IF Underway(v) /\ Due(row, dispatches[v].type)
                           THEN @[v] \cup {row.secret} ELSE @[v]]]

CreateEndpoint(e, types) ==
    /\ endpoints[e].state = "none"
    /\ Incident
    /\ Becomes(e, [state |-> "live", active |-> TRUE, events |-> types,
                   secret |-> 1, last |-> "pending"])
    /\ UNCHANGED <<eventLog, deliveries, sending, dispatches, posts>>

UpdateEndpoint(e, active, types) ==
    /\ endpoints[e].state = "live"
    /\ <<active, types>> # <<endpoints[e].active, endpoints[e].events>>
    /\ Incident
    /\ Becomes(e, [endpoints[e] EXCEPT !.active = active, !.events = types])
    /\ UNCHANGED <<eventLog, deliveries, sending, dispatches, posts>>

RotateSecret(e) ==
    /\ endpoints[e].state = "live"
    /\ endpoints[e].secret < MaxSecret
    /\ Incident
    /\ Becomes(e, [endpoints[e] EXCEPT !.secret = @ + 1])
    /\ UNCHANGED <<eventLog, deliveries, sending, dispatches, posts>>

(* The delivery rows go with the endpoint.                                 *)
DeleteEndpoint(e) ==
    /\ endpoints[e].state = "live"
    /\ Incident
    /\ Becomes(e, [endpoints[e] EXCEPT !.state = "deleted"])
    /\ deliveries' = [deliveries EXCEPT ![e] = [v \in Event |-> NoDelivery]]
    /\ UNCHANGED <<eventLog, sending, dispatches, posts>>

-----------------------------------------------------------------------------
Start(v, type) ==
    /\ sending[v] = "idle"
    /\ SetDispatch(v, [NoDispatch EXCEPT !.type = type])
    /\ SendNext(v, "select")
    /\ eligible' = [e \in Endpoint |-> [eligible[e] EXCEPT ![v] =
                      IF Due(endpoints[e], type) THEN {endpoints[e].secret} ELSE {}]]

(* emitEvent: the row, then dispatchEvent without awaiting it.             *)
EmitEvent(v, type) ==
    /\ Start(v, type)
    /\ eventLog' = eventLog \cup {v}
    /\ UNCHANGED <<endpoints, deliveries, posts, incidents>>

(* The insert fails: the error is logged, the caller goes on, nothing is   *)
(* dispatched.                                                             *)
EmitFails(v) ==
    /\ sending[v] = "idle"
    /\ Incident
    /\ SendNext(v, "dead")
    /\ UNCHANGED <<eventLog, endpoints, deliveries, dispatches, posts, eligible>>

(* The test route dispatches to every subscriber, whichever endpoint it is *)
(* asked for, an event that is not in the log.                             *)
TestDelivery(v) ==
    /\ \E e \in Endpoint : endpoints[e].state = "live"
    /\ Incident
    /\ Start(v, TestType)
    /\ UNCHANGED <<eventLog, endpoints, deliveries, posts>>

(* Mutant: the endpoints that are switched off are selected too.           *)
SelectInactiveToo(v) ==
    LET due == {e \in Endpoint : /\ endpoints[e].state = "live"
                                 /\ dispatches[v].type \in endpoints[e].events}
    IN  /\ sending[v] = "select"
        /\ SetDispatch(v, [dispatches[v] EXCEPT
              !.todo = due,
              !.secrets = [e \in Endpoint |-> IF e \in due THEN endpoints[e].secret
                                              ELSE Null]])
        /\ SendNext(v, IF due = {} THEN "done" ELSE "next")
        /\ UNCHANGED <<eventLog, endpoints, deliveries, posts, eligible, incidents>>

(* dispatchEvent reads the endpoints with their secrets, once.             *)
SelectEndpoints(v) ==
    LET due == {e \in Endpoint : Due(endpoints[e], dispatches[v].type)}
    IN  /\ sending[v] = "select"
        /\ SetDispatch(v, [dispatches[v] EXCEPT
              !.todo = due,
              !.secrets = [e \in Endpoint |-> IF e \in due THEN endpoints[e].secret
                                              ELSE Null]])
        /\ SendNext(v, IF due = {} THEN "done" ELSE "next")
        /\ UNCHANGED <<eventLog, endpoints, deliveries, posts, eligible, incidents>>

(* The delivery row is pending before the POST.  There is one already: the *)
(* event is not delivered again.  The endpoint is gone: the foreign key    *)
(* refuses the row, the error is logged.                                   *)
InsertDelivery(v, e) ==
    /\ sending[v] = "next"
    /\ e \in dispatches[v].todo
    /\ IF endpoints[e].state = "live" /\ deliveries[e][v].status = "none"
       THEN /\ deliveries' = [deliveries EXCEPT ![e][v].status = "pending"]
            /\ SetDispatch(v, [dispatches[v] EXCEPT !.target = e])
            /\ SendNext(v, "post")
       ELSE Leave(v, e, FALSE) /\ UNCHANGED deliveries
    /\ UNCHANGED <<eventLog, endpoints, posts, eligible, incidents>>

(* Mutant: an error of the POST is not caught.                             *)
PostUncaught(v, answer) ==
    LET e == dispatches[v].target
    IN  /\ sending[v] = "post"
        /\ posts' = [posts EXCEPT ![e][v] =
              [count |-> @.count + 1, secret |-> dispatches[v].secrets[e],
               answer |-> answer]]
        /\ IF answer \in {"accepted", "refused"}
           THEN SendNext(v, "record") /\ UNCHANGED dispatches
           ELSE Leave(v, e, FALSE)
        /\ UNCHANGED <<eventLog, endpoints, deliveries, eligible, incidents>>

(* fetch, with the signature by the secret read before: an answer, or an   *)
(* error when the endpoint cannot be reached or the timeout aborts it.     *)
Post(v, answer) ==
    LET e == dispatches[v].target
    IN  /\ sending[v] = "post"
        /\ posts' = [posts EXCEPT ![e][v] =
              [count |-> @.count + 1, secret |-> dispatches[v].secrets[e],
               answer |-> answer]]
        /\ SendNext(v, IF answer \in {"accepted", "refused"} THEN "record"
                       ELSE "caught")
        /\ UNCHANGED <<eventLog, endpoints, deliveries, dispatches, eligible, incidents>>

(* A statement about a row that has been deleted meanwhile changes nothing.*)
UpdateDelivery(v, status) ==
    LET e == dispatches[v].target
    IN  deliveries' = IF deliveries[e][v].status = "none" THEN deliveries
                      ELSE [deliveries EXCEPT ![e][v].status = status,
                                              ![e][v].attempts = @ + 1]

UpdateLast(v, status) ==
    LET e == dispatches[v].target
    IN  endpoints' = IF endpoints[e].state # "live" THEN endpoints
                     ELSE [endpoints EXCEPT ![e].last = status]

Verdict(v) ==
    IF posts[dispatches[v].target][v].answer = "accepted" THEN "success" ELSE "failed"

(* Mutant: any answer at all counts as a delivery.                         *)
RecordAnswered(v) ==
    /\ sending[v] = "record"
    /\ UpdateDelivery(v, "success")
    /\ SendNext(v, "mark")
    /\ UNCHANGED <<eventLog, endpoints, dispatches, posts, eligible, incidents>>

RecordAnswer(v) ==
    /\ sending[v] = "record"
    /\ UpdateDelivery(v, Verdict(v))
    /\ SendNext(v, "mark")
    /\ UNCHANGED <<eventLog, endpoints, dispatches, posts, eligible, incidents>>

MarkEndpoint(v) ==
    /\ sending[v] = "mark"
    /\ UpdateLast(v, Verdict(v))
    /\ IF Verdict(v) = "success" THEN Leave(v, dispatches[v].target, FALSE)
       ELSE SendNext(v, "retry") /\ UNCHANGED dispatches
    /\ UNCHANGED <<eventLog, deliveries, posts, eligible, incidents>>

(* The catch branch: a POST without an answer, or a statement after it     *)
(* that failed.                                                            *)
RecordError(v) ==
    /\ sending[v] = "caught"
    /\ UpdateDelivery(v, "failed")
    /\ SendNext(v, "caughtMark")
    /\ UNCHANGED <<eventLog, endpoints, dispatches, posts, eligible, incidents>>

(* Mutant: the endpoint gets a status of its own.                          *)
MarkUnreachable(v) ==
    /\ sending[v] = "caughtMark"
    /\ UpdateLast(v, "unreachable")
    /\ SendNext(v, "caughtRetry")
    /\ UNCHANGED <<eventLog, deliveries, dispatches, posts, eligible, incidents>>

MarkError(v) ==
    /\ sending[v] = "caughtMark"
    /\ UpdateLast(v, "failed")
    /\ SendNext(v, "caughtRetry")
    /\ UNCHANGED <<eventLog, deliveries, dispatches, posts, eligible, incidents>>

(* scheduleRetry, always of the first attempt: the time of the next one,   *)
(* which nothing reads, or the end if there is but one.                    *)
ScheduleRetry(v) ==
    LET e == dispatches[v].target
    IN  /\ sending[v] \in {"retry", "caughtRetry"}
        /\ deliveries' = IF deliveries[e][v].status = "none" THEN deliveries
                         ELSE IF 1 >= MaxRetries
                         THEN [deliveries EXCEPT ![e][v].status = "dead"]
                         ELSE [deliveries EXCEPT ![e][v].retry = TRUE]
        /\ Leave(v, e, FALSE)
        /\ UNCHANGED <<eventLog, endpoints, posts, eligible, incidents>>

(* The process dies, and with it whatever it had in the background.        *)
LoseDispatches ==
    sending' = [v \in Event |-> IF Underway(v) THEN "dead" ELSE sending[v]]

(* A statement fails.  The select is outside any try: nobody awaits the    *)
(* promise of an emitted event, so the rejection ends the process; the     *)
(* test route answers with the error.  An error after the POST leads to    *)
(* the catch branch, an error there or of the insert to the next endpoint. *)
SelectFails(v) ==
    /\ sending[v] = "select"
    /\ v \notin eventLog
    /\ Incident
    /\ SendNext(v, "dead")
    /\ UNCHANGED <<eventLog, endpoints, deliveries, dispatches, posts, eligible>>

StatementFails(v) ==
    /\ Incident
    /\ \/ /\ sending[v] = "next"
          /\ \E e \in dispatches[v].todo : Leave(v, e, TRUE)
       \/ /\ sending[v] \in {"record", "mark", "retry"}
          /\ SendNext(v, "caught")
          /\ SetDispatch(v, [dispatches[v] EXCEPT !.faulty = TRUE])
       \/ /\ sending[v] \in {"caught", "caughtMark", "caughtRetry"}
          /\ Leave(v, dispatches[v].target, TRUE)
    /\ UNCHANGED <<eventLog, endpoints, deliveries, posts, eligible>>

Dying == Incident /\ \E v \in Event : Underway(v)

-----------------------------------------------------------------------------
Manage ==
    \E e \in Endpoint :
        \/ \E types \in Subscriptions : CreateEndpoint(e, types)
        \/ \E active \in BOOLEAN, types \in Subscriptions : UpdateEndpoint(e, active, types)
        \/ RotateSecret(e) \/ DeleteEndpoint(e)

DispatchStep(v) ==
    \/ SelectEndpoints(v)
    \/ \E e \in Endpoint : InsertDelivery(v, e)
    \/ \E answer \in Answers : Post(v, answer)
    \/ RecordAnswer(v) \/ MarkEndpoint(v)
    \/ RecordError(v) \/ MarkError(v)
    \/ ScheduleRetry(v)

DispatchFault(v) == SelectFails(v) \/ StatementFails(v)

-----------------------------------------------------------------------------
(* An endpoint receives an event at most once, signed with a secret that   *)
(* was its own at a time when it was live, switched on and subscribed,     *)
(* since the event was emitted: what an administrator changed before that  *)
(* holds.                                                                  *)
PostsFollowConfiguration ==
    \A e \in Endpoint, v \in Event :
        /\ posts[e][v].count <= 1
        /\ posts[e][v].count = 1 => posts[e][v].secret \in eligible[e][v]

(* What the delivery log says is what happened: a success was accepted by  *)
(* the endpoint, and a delivery it accepted in time is recorded as failed  *)
(* only if a statement failed.                                             *)
OutcomeIsTrue ==
    \A e \in Endpoint, v \in Event :
        LET status == deliveries[e][v].status IN
        /\ status = "success" => posts[e][v].answer = "accepted"
        /\ status \in {"failed", "dead"} /\ posts[e][v].answer = "accepted"
              => dispatches[v].faulty

Settled(e, v) == deliveries[e][v].status \in {"success", "failed", "dead"}
=============================================================================
