------------------------- MODULE AdministrationProofs -------------------------
(***************************************************************************)
(* Proofs about Administration: what an endpoint receives of an event, and *)
(* what the delivery log says of it, for any number of events, endpoints,  *)
(* secrets, requests and faults.                                           *)
(*                                                                         *)
(* The invariant relates a delivery to where the dispatch of its event is. *)
(* Administration implements Roles, whose theorems hold here with it.      *)
(***************************************************************************)
EXTENDS Administration, RolesProofs, TLAPS

(* All the proof needs to know of the rows.                                *)
DispatchShape(d) ==
    /\ DOMAIN d = {"type", "todo", "secrets", "target", "faulty"}
    /\ d.todo \subseteq Endpoint
    /\ d.faulty \in BOOLEAN

DeliveryShape(row) == DOMAIN row = {"status", "attempts", "retry"}

EndpointShape(row) == DOMAIN row = {"state", "active", "events", "secret", "last"}

ReceiptShape(receipt) == DOMAIN receipt = {"count", "secret", "answer"}

BusShape ==
    /\ endpoints = [e \in Endpoint |-> endpoints[e]]
    /\ deliveries = [e \in Endpoint |-> [v \in Event |-> deliveries[e][v]]]
    /\ sending = [v \in Event |-> sending[v]]
    /\ dispatches = [v \in Event |-> dispatches[v]]
    /\ posts = [e \in Endpoint |-> [v \in Event |-> posts[e][v]]]
    /\ eligible = [e \in Endpoint |-> [v \in Event |-> eligible[e][v]]]
    /\ \A e \in Endpoint : EndpointShape(endpoints[e])
    /\ \A v \in Event : DispatchShape(dispatches[v])
    /\ \A e \in Endpoint, v \in Event :
          DeliveryShape(deliveries[e][v]) /\ ReceiptShape(posts[e][v])

-----------------------------------------------------------------------------
(* Where a dispatch is: it has a target while it deals with it.            *)
Busy == {"post", "record", "mark", "retry", "caught", "caughtMark", "caughtRetry"}
Recovering == {"retry", "caught", "caughtMark", "caughtRetry"}

Place(s, d) ==
    /\ s \in Busy => d.target \in d.todo
    /\ s \in {"idle", "select"} => d.todo = {} /\ d.target = Null
    /\ s = "next" => d.target = Null

(* The endpoint has not been sent the event yet.                           *)
Waits(e, s, d) ==
    \/ s \in {"idle", "select"}
    \/ e \in d.todo /\ (e # d.target \/ s = "post")

(* The delivery of an event to an endpoint, against its dispatch.          *)
PairInv(e, s, d, row, receipt, secrets) ==
    /\ receipt.count \in {0, 1}
    /\ receipt.count = 1 => receipt.secret \in secrets
    /\ Waits(e, s, d) => receipt.count = 0 /\ row.status \in {"none", "pending"}
    /\ e \in d.todo => d.secrets[e] \in secrets
    /\ row.status = "success" => receipt.answer = "accepted"
    /\ row.status \in {"failed", "dead"} /\ receipt.answer = "accepted" => d.faulty
    /\ s \in Recovering /\ d.target = e /\ receipt.answer = "accepted" => d.faulty

(* The secret of an endpoint that is due the event is among those that     *)
(* count.                                                                  *)
DueInv(row, s, d, secrets) ==
    s \notin {"idle", "done", "dead"} /\ Due(row, d.type) => row.secret \in secrets

PairsInv ==
    \A e \in Endpoint, v \in Event :
        /\ PairInv(e, sending[v], dispatches[v], deliveries[e][v], posts[e][v], eligible[e][v])
        /\ DueInv(endpoints[e], sending[v], dispatches[v], eligible[e][v])

BusInv ==
    /\ BusShape
    /\ \A v \in Event : Place(sending[v], dispatches[v])
    /\ PairsInv

LEMMA BusInvImplies == BusInv => PostsFollowConfiguration /\ OutcomeIsTrue
<1> SUFFICES ASSUME BusInv, NEW e \in Endpoint, NEW v \in Event
             PROVE  /\ posts[e][v].count <= 1
                    /\ posts[e][v].count = 1 => posts[e][v].secret \in eligible[e][v]
                    /\ deliveries[e][v].status = "success" => posts[e][v].answer = "accepted"
                    /\ deliveries[e][v].status \in {"failed", "dead"}
                          => (posts[e][v].answer = "accepted" => dispatches[v].faulty)
  BY DEF PostsFollowConfiguration, OutcomeIsTrue
<1> QED BY DEF BusInv, PairsInv, PairInv

LEMMA BusInitially == Init => BusInv
<1> SUFFICES ASSUME BusInit PROVE BusInv
  BY DEF Init
<1>1. DispatchShape(NoDispatch) /\ DeliveryShape(NoDelivery) /\ ReceiptShape(NoReceipt)
  BY DEF DispatchShape, NoDispatch, DeliveryShape, NoDelivery, ReceiptShape, NoReceipt
<1>2. \A e \in Endpoint : EndpointShape(endpoints[e])
  BY DEF BusInit, EndpointShape
<1>3. BusShape
  BY <1>1, <1>2 DEF BusInit, BusShape
<1>4. \A v \in Event : Place(sending[v], dispatches[v])
  BY DEF BusInit, Place, Busy, NoDispatch
<1>5. PairsInv
  BY DEF BusInit, PairsInv, PairInv, DueInv, Waits, Recovering, NoDispatch, NoDelivery, NoReceipt
<1> QED BY <1>3, <1>4, <1>5 DEF BusInv

(* A step that leaves the bus alone, whoever takes it.                     *)
BusRows == <<endpoints, deliveries, sending, dispatches, posts, eligible>>

LEMMA BusStutters == BusInv /\ UNCHANGED BusRows => BusInv'
BY DEF BusRows, BusInv, BusShape, PairsInv

-----------------------------------------------------------------------------
(* The steps of a dispatch: its own state, the delivery to one endpoint at *)
(* most, and at most the last outcome of endpoints.                        *)
SameConfiguration ==
    /\ endpoints' = [e \in Endpoint |-> endpoints'[e]]
    /\ \A e \in Endpoint :
          /\ EndpointShape(endpoints'[e])
          /\ endpoints'[e].state = endpoints[e].state
          /\ endpoints'[e].active = endpoints[e].active
          /\ endpoints'[e].events = endpoints[e].events
          /\ endpoints'[e].secret = endpoints[e].secret

LEMMA DispatchMoves ==
    ASSUME BusInv, SameConfiguration, UNCHANGED eligible,
           NEW v \in Event, Underway(v), NEW s, NEW d, NEW e \in Endpoint, NEW row, NEW receipt,
           sending' = [sending EXCEPT ![v] = s],
           dispatches' = [dispatches EXCEPT ![v] = d],
           deliveries' = [deliveries EXCEPT ![e][v] = row],
           posts' = [posts EXCEPT ![e][v] = receipt],
           DispatchShape(d), DeliveryShape(row), ReceiptShape(receipt),
           d.type = dispatches[v].type, Place(s, d),
           PairInv(e, s, d, row, receipt, eligible[e][v]),
           \A f \in Endpoint \ {e} :
              PairInv(f, s, d, deliveries[f][v], posts[f][v], eligible[f][v])
    PROVE  BusInv'
<1>1. BusShape
  BY DEF BusInv
<1>2. \A w \in Event : /\ sending'[w] = IF w = v THEN s ELSE sending[w]
                       /\ dispatches'[w] = IF w = v THEN d ELSE dispatches[w]
  BY <1>1 DEF BusShape
<1>3. \A f \in Endpoint, w \in Event :
         /\ deliveries'[f][w] = IF f = e /\ w = v THEN row ELSE deliveries[f][w]
         /\ posts'[f][w] = IF f = e /\ w = v THEN receipt ELSE posts[f][w]
  BY <1>1 DEF BusShape
<1>7. BusShape'
  <2>1. /\ sending' = [w \in Event |-> sending'[w]]
        /\ dispatches' = [w \in Event |-> dispatches'[w]]
    BY <1>1 DEF BusShape
  <2>2. ASSUME NEW f \in Endpoint
        PROVE  /\ deliveries'[f] = [w \in Event |-> deliveries'[f][w]]
               /\ posts'[f] = [w \in Event |-> posts'[f][w]]
    <3>1. /\ deliveries[f] = [w \in Event |-> deliveries[f][w]]
          /\ posts[f] = [w \in Event |-> posts[f][w]]
      BY <1>1 DEF BusShape
    <3>2. /\ deliveries'[f] = IF f = e THEN [deliveries[f] EXCEPT ![v] = row] ELSE deliveries[f]
          /\ posts'[f] = IF f = e THEN [posts[f] EXCEPT ![v] = receipt] ELSE posts[f]
      BY <1>1 DEF BusShape
    <3> QED BY <3>1, <3>2
  <2>3. /\ deliveries' = [f \in Endpoint |-> [w \in Event |-> deliveries'[f][w]]]
        /\ posts' = [f \in Endpoint |-> [w \in Event |-> posts'[f][w]]]
    <3>1. /\ deliveries' = [f \in Endpoint |-> deliveries'[f]]
          /\ posts' = [f \in Endpoint |-> posts'[f]]
      BY <1>1 DEF BusShape
    <3> QED BY <3>1, <2>2, Zenon
  <2>4. \A w \in Event : DispatchShape(dispatches'[w])
    BY <1>1, <1>2 DEF BusShape
  <2>5. \A f \in Endpoint, w \in Event :
           DeliveryShape(deliveries'[f][w]) /\ ReceiptShape(posts'[f][w])
    BY <1>1, <1>3 DEF BusShape
  <2>6. eligible' = [f \in Endpoint |-> [w \in Event |-> eligible'[f][w]]]
    BY <1>1 DEF BusShape
  <2>7. /\ endpoints' = [f \in Endpoint |-> endpoints'[f]]
        /\ \A f \in Endpoint : EndpointShape(endpoints'[f])
    BY DEF SameConfiguration
  <2> QED BY <2>1, <2>3, <2>4, <2>5, <2>6, <2>7, Zenon DEF BusShape
<1>4. \A w \in Event : Place(sending'[w], dispatches'[w])
  BY <1>2 DEF BusInv
<1>5. ASSUME NEW f \in Endpoint, NEW w \in Event
      PROVE  PairInv(f, sending'[w], dispatches'[w], deliveries'[f][w], posts'[f][w],
                     eligible'[f][w])
  BY <1>2, <1>3 DEF BusInv, PairsInv
<1>6. ASSUME NEW f \in Endpoint, NEW w \in Event
      PROVE  DueInv(endpoints'[f], sending'[w], dispatches'[w], eligible'[f][w])
  BY <1>2 DEF BusInv, PairsInv, DueInv, SameConfiguration, Due, Underway
<1> QED BY <1>4, <1>5, <1>6, <1>7 DEF BusInv, PairsInv

LEMMA EndpointsKept ==
    ASSUME BusInv, UNCHANGED endpoints PROVE SameConfiguration
BY DEF BusInv, BusShape, SameConfiguration

LEMMA UpdateLastKeeps ==
    ASSUME BusInv, NEW v \in Event, NEW status, UpdateLast(v, status)
    PROVE  SameConfiguration
<1> DEFINE e == dispatches[v].target
           row == [endpoints[e] EXCEPT !.last = status]
<1>1. /\ endpoints = [f \in Endpoint |-> endpoints[f]]
      /\ \A f \in Endpoint : EndpointShape(endpoints[f])
  BY DEF BusInv, BusShape
<1>2. CASE UNCHANGED endpoints
  BY <1>2, EndpointsKept
<1>3. CASE e \in Endpoint /\ endpoints' = [endpoints EXCEPT ![e] = row]
  <2>1. EndpointShape(endpoints[e])
    BY <1>1, <1>3
  <2>2. /\ row.state = endpoints[e].state /\ row.active = endpoints[e].active
        /\ row.events = endpoints[e].events /\ row.secret = endpoints[e].secret
    BY <2>1 DEF EndpointShape
  <2>3. EndpointShape(row)
    BY <2>1 DEF EndpointShape
  <2> HIDE DEF row
  <2>4. \A f \in Endpoint : endpoints'[f] = IF f = e THEN row ELSE endpoints[f]
    BY <1>1, <1>3
  <2>5. endpoints' = [f \in Endpoint |-> endpoints'[f]]
    BY <1>1, <1>3
  <2> QED BY <1>1, <2>2, <2>3, <2>4, <2>5 DEF SameConfiguration
<1>4. CASE e \notin Endpoint
  BY <1>1, <1>2, <1>4 DEF UpdateLast
<1> QED BY <1>2, <1>3, <1>4 DEF UpdateLast

(* Nothing about a delivery changes.                                       *)
LEMMA Untouched ==
    ASSUME BusInv, NEW e \in Endpoint, NEW v \in Event
    PROVE  /\ posts = [posts EXCEPT ![e][v] = posts[e][v]]
           /\ deliveries = [deliveries EXCEPT ![e][v] = deliveries[e][v]]
           /\ ReceiptShape(posts[e][v]) /\ DeliveryShape(deliveries[e][v])
<1>1. /\ posts[e] = [posts[e] EXCEPT ![v] = posts[e][v]]
      /\ deliveries[e] = [deliveries[e] EXCEPT ![v] = deliveries[e][v]]
  BY DEF BusInv, BusShape
<1>2. /\ posts = [posts EXCEPT ![e] = posts[e]]
      /\ deliveries = [deliveries EXCEPT ![e] = deliveries[e]]
  BY DEF BusInv, BusShape
<1> QED BY <1>1, <1>2 DEF BusInv, BusShape

(* A busy dispatch and its target.                                         *)
LEMMA TargetOf ==
    ASSUME BusInv, NEW v \in Event, sending[v] \in Busy
    PROVE  dispatches[v].target \in Endpoint /\ dispatches[v].target \in dispatches[v].todo
BY DEF BusInv, Place, BusShape, DispatchShape

(* The loop goes on: the endpoint it leaves is done with, and nothing else *)
(* changes but its delivery, which agrees with its receipt.                *)
LEMMA LeaveKeeps ==
    ASSUME BusInv, SameConfiguration, UNCHANGED <<eligible, posts>>,
           NEW v \in Event, Underway(v), NEW e \in Endpoint, NEW row, NEW faulty \in BOOLEAN,
           e \in dispatches[v].todo,
           dispatches[v].target \in {e, Null}, Leave(v, e, faulty),
           deliveries' = [deliveries EXCEPT ![e][v] = row], DeliveryShape(row),
           row.status = "success" => posts[e][v].answer = "accepted",
           row.status \in {"failed", "dead"} /\ posts[e][v].answer = "accepted"
              => dispatches[v].faulty
    PROVE  BusInv'
<1> DEFINE d == dispatches[v]
           left == d.todo \ {e}
           d2 == [d EXCEPT !.todo = left, !.target = Null, !.faulty = @ \/ faulty]
           s2 == IF left = {} THEN "done" ELSE "next"
<1>1. DispatchShape(d)
  BY DEF BusInv, BusShape
<1>2. /\ DOMAIN d2 = {"type", "todo", "secrets", "target", "faulty"}
      /\ d2.type = d.type /\ d2.todo = left /\ d2.secrets = d.secrets
      /\ d2.target = Null /\ d2.faulty = (d.faulty \/ faulty)
  BY <1>1 DEF DispatchShape
<1>3. DispatchShape(d2) /\ d2.type = d.type /\ Place(s2, d2)
  BY <1>1, <1>2 DEF DispatchShape, Place, Busy
<1>4. posts' = [posts EXCEPT ![e][v] = posts[e][v]] /\ ReceiptShape(posts[e][v])
  BY Untouched
<1>5. PairInv(e, s2, d2, row, posts[e][v], eligible[e][v])
  BY <1>2, NoEndpoint DEF BusInv, PairsInv, PairInv, Waits, Recovering
<1>6. ASSUME NEW f \in Endpoint \ {e}
      PROVE  PairInv(f, s2, d2, deliveries[f][v], posts[f][v], eligible[f][v])
  BY <1>2, NoEndpoint DEF BusInv, PairsInv, PairInv, Waits, Recovering
<1>7. sending' = [sending EXCEPT ![v] = s2] /\ dispatches' = [dispatches EXCEPT ![v] = d2]
  BY DEF Leave, SendNext, SetDispatch
<1> HIDE DEF d2, s2
<1> QED BY <1>3, <1>4, <1>5, <1>6, <1>7, DispatchMoves

(* Only its place changes, and the delivery to its target.                 *)
LEMMA AdvanceKeeps ==
    ASSUME BusInv, SameConfiguration, UNCHANGED <<eligible, posts, dispatches>>,
           NEW v \in Event, NEW s \in Busy \ {"post"}, NEW row,
           sending[v] \in Busy, SendNext(v, s),
           deliveries' = [deliveries EXCEPT ![dispatches[v].target][v] = row],
           DeliveryShape(row),
           row.status = "success" => posts[dispatches[v].target][v].answer = "accepted",
           row.status \in {"failed", "dead"} /\ posts[dispatches[v].target][v].answer = "accepted"
              => dispatches[v].faulty,
           s \in Recovering /\ posts[dispatches[v].target][v].answer = "accepted"
              => dispatches[v].faulty
    PROVE  BusInv'
<1> DEFINE d == dispatches[v]
           e == d.target
<1>1. e \in Endpoint /\ e \in d.todo
  BY TargetOf
<1>2. DispatchShape(d) /\ dispatches' = [dispatches EXCEPT ![v] = d]
  BY DEF BusInv, BusShape
<1>3. Place(s, d)
  BY <1>1 DEF Place, Busy
<1>4. posts' = [posts EXCEPT ![e][v] = posts[e][v]] /\ ReceiptShape(posts[e][v])
  BY <1>1, Untouched
<1>5. PairInv(e, s, d, row, posts[e][v], eligible[e][v])
  BY <1>1 DEF BusInv, PairsInv, PairInv, Waits, Busy, Recovering
<1>6. ASSUME NEW f \in Endpoint \ {e}
      PROVE  PairInv(f, s, d, deliveries[f][v], posts[f][v], eligible[f][v])
  BY DEF BusInv, PairsInv, PairInv, Waits, Busy, Recovering
<1>7. Underway(v) /\ sending' = [sending EXCEPT ![v] = s]
  BY DEF SendNext, Underway, Busy
<1> HIDE DEF d, e
<1>8. deliveries' = [deliveries EXCEPT ![e][v] = row] /\ d.type = dispatches[v].type
  BY DEF d, e
<1> QED BY <1>1, <1>2, <1>3, <1>4, <1>5, <1>6, <1>7, <1>8, DispatchMoves

-----------------------------------------------------------------------------
(* Each statement of a dispatch.                                           *)
LEMMA SelectEndpointsKeeps ==
    ASSUME BusInv, NEW v \in Event, SelectEndpoints(v) PROVE BusInv'
<1> DEFINE d == dispatches[v]
           due == {e \in Endpoint : Due(endpoints[e], d.type)}
           d2 == [d EXCEPT !.todo = due,
                           !.secrets = [e \in Endpoint |-> IF e \in due THEN endpoints[e].secret
                                                           ELSE Null]]
           s2 == IF due = {} THEN "done" ELSE "next"
<1>1. DispatchShape(d) /\ sending[v] = "select"
  BY DEF BusInv, BusShape, SelectEndpoints
<1>2. /\ DOMAIN d2 = {"type", "todo", "secrets", "target", "faulty"}
      /\ d2.type = d.type /\ d2.todo = due /\ d2.target = d.target /\ d2.faulty = d.faulty
      /\ \A e \in due : d2.secrets[e] = endpoints[e].secret
  BY <1>1 DEF DispatchShape
<1>3. d.target = Null /\ Place(s2, d2)
  BY <1>1, <1>2 DEF BusInv, Place, Busy
<1>4. DispatchShape(d2)
  BY <1>1, <1>2 DEF DispatchShape
<1>5. \A e \in Endpoint : PairInv(e, s2, d2, deliveries[e][v], posts[e][v], eligible[e][v])
  <2> SUFFICES ASSUME NEW e \in Endpoint
               PROVE  PairInv(e, s2, d2, deliveries[e][v], posts[e][v], eligible[e][v])
    OBVIOUS
  <2>1. posts[e][v].count = 0 /\ deliveries[e][v].status \in {"none", "pending"}
    BY <1>1 DEF BusInv, PairsInv, PairInv, Waits
  <2>2. e \in due => endpoints[e].secret \in eligible[e][v]
    BY <1>1 DEF BusInv, PairsInv, DueInv
  <2> QED BY <1>2, <2>1, <2>2 DEF PairInv, Recovering
<1>6. /\ sending' = [sending EXCEPT ![v] = s2] /\ dispatches' = [dispatches EXCEPT ![v] = d2]
      /\ Underway(v) /\ UNCHANGED <<endpoints, deliveries, posts, eligible>>
  BY DEF SelectEndpoints, SendNext, SetDispatch, Underway
<1> HIDE DEF d2, s2
<1>7. CASE Endpoint = {}
  BY <1>2, <1>3, <1>4, <1>6, <1>7 DEF BusInv, BusShape, PairsInv
<1>8. ASSUME NEW e \in Endpoint PROVE BusInv'
  BY <1>2, <1>3, <1>4, <1>5, <1>6, Untouched, EndpointsKept, DispatchMoves
<1> QED BY <1>7, <1>8

LEMMA InsertDeliveryKeeps ==
    ASSUME BusInv, NEW v \in Event, NEW e \in Endpoint, InsertDelivery(v, e) PROVE BusInv'
<1> DEFINE d == dispatches[v]
           d2 == [d EXCEPT !.target = e]
           row == [deliveries[e][v] EXCEPT !.status = "pending"]
<1>1. /\ DispatchShape(d) /\ sending[v] = "next" /\ e \in d.todo /\ d.target = Null
      /\ Underway(v) /\ UNCHANGED <<endpoints, posts, eligible>> /\ SameConfiguration
  BY EndpointsKept DEF BusInv, BusShape, Place, InsertDelivery, Underway
<1>2. CASE endpoints[e].state = "live" /\ deliveries[e][v].status = "none"
  <2>1. /\ DOMAIN d2 = {"type", "todo", "secrets", "target", "faulty"}
        /\ d2.type = d.type /\ d2.todo = d.todo /\ d2.secrets = d.secrets
        /\ d2.target = e /\ d2.faulty = d.faulty
    BY <1>1 DEF DispatchShape
  <2>2. DispatchShape(d2) /\ Place("post", d2)
    BY <1>1, <2>1 DEF DispatchShape, Place
  <2>3. DeliveryShape(row) /\ row.status = "pending"
    BY Untouched DEF DeliveryShape
  <2>4. deliveries' = [deliveries EXCEPT ![e][v] = row]
    BY <1>2 DEF InsertDelivery
  <2>5. sending' = [sending EXCEPT ![v] = "post"] /\ dispatches' = [dispatches EXCEPT ![v] = d2]
    BY <1>2 DEF InsertDelivery, SendNext, SetDispatch
  <2> HIDE DEF row
  <2>6. PairInv(e, "post", d2, row, posts[e][v], eligible[e][v])
    BY <1>1, <2>1, <2>3, NoEndpoint DEF BusInv, PairsInv, PairInv, Waits, Recovering
  <2>7. ASSUME NEW f \in Endpoint \ {e}
        PROVE  PairInv(f, "post", d2, deliveries[f][v], posts[f][v], eligible[f][v])
    BY <1>1, <2>1, NoEndpoint DEF BusInv, PairsInv, PairInv, Waits, Recovering
  <2> HIDE DEF d2
  <2>8. posts' = [posts EXCEPT ![e][v] = posts[e][v]] /\ ReceiptShape(posts[e][v])
    BY <1>1, Untouched
  <2> QED BY <1>1, <2>1, <2>2, <2>3, <2>4, <2>5, <2>6, <2>7, <2>8, DispatchMoves
<1>3. CASE ~(endpoints[e].state = "live" /\ deliveries[e][v].status = "none")
  <2>1. Leave(v, e, FALSE) /\ UNCHANGED deliveries
    BY <1>3 DEF InsertDelivery
  <2>2. /\ deliveries' = [deliveries EXCEPT ![e][v] = deliveries[e][v]]
        /\ DeliveryShape(deliveries[e][v])
    BY <2>1, Untouched
  <2>3. /\ deliveries[e][v].status = "success" => posts[e][v].answer = "accepted"
        /\ deliveries[e][v].status \in {"failed", "dead"} /\ posts[e][v].answer = "accepted"
              => d.faulty
    BY DEF BusInv, PairsInv, PairInv
  <2> QED BY <1>1, <2>1, <2>2, <2>3, LeaveKeeps
<1> QED BY <1>2, <1>3

LEMMA PostKeeps ==
    ASSUME BusInv, NEW v \in Event, NEW answer, Post(v, answer) PROVE BusInv'
<1> DEFINE d == dispatches[v]
           e == d.target
           receipt == [count |-> posts[e][v].count + 1, secret |-> d.secrets[e], answer |-> answer]
           s2 == IF answer \in {"accepted", "refused"} THEN "record" ELSE "caught"
<1>1. /\ sending[v] = "post" /\ Underway(v) /\ sending' = [sending EXCEPT ![v] = s2]
      /\ posts' = [posts EXCEPT ![e][v] = receipt]
      /\ UNCHANGED <<endpoints, deliveries, dispatches, eligible>>
  BY DEF Post, SendNext, Underway
<1>2. e \in Endpoint /\ e \in d.todo
  BY <1>1, TargetOf DEF Busy
<1>3. DispatchShape(d) /\ dispatches' = [dispatches EXCEPT ![v] = d] /\ SameConfiguration
  BY <1>1, EndpointsKept DEF BusInv, BusShape
<1>4. Place(s2, d)
  BY <1>2 DEF Place
<1>5. posts[e][v].count = 0 /\ deliveries[e][v].status \in {"none", "pending"}
  BY <1>1, <1>2 DEF BusInv, PairsInv, PairInv, Waits
<1>6. d.secrets[e] \in eligible[e][v]
  BY <1>2 DEF BusInv, PairsInv, PairInv
<1>7. PairInv(e, s2, d, deliveries[e][v], receipt, eligible[e][v])
  BY <1>2, <1>5, <1>6 DEF PairInv, Waits, Recovering
<1>8. ASSUME NEW f \in Endpoint \ {e}
      PROVE  PairInv(f, s2, d, deliveries[f][v], posts[f][v], eligible[f][v])
  BY <1>1 DEF BusInv, PairsInv, PairInv, Waits, Recovering
<1>9. ReceiptShape(receipt)
  BY DEF ReceiptShape
<1>10. /\ deliveries' = [deliveries EXCEPT ![e][v] = deliveries[e][v]]
       /\ DeliveryShape(deliveries[e][v])
  BY <1>1, <1>2, Untouched
<1>11. d.type = dispatches[v].type
  OBVIOUS
<1> HIDE DEF receipt, s2, e, d
<1> QED BY <1>1, <1>2, <1>3, <1>4, <1>7, <1>8, <1>9, <1>10, <1>11, DispatchMoves

(* What becomes of the delivery: its status is the one given, unless the   *)
(* row has gone with its endpoint.                                         *)
LEMMA UpdateDeliveryRow ==
    ASSUME BusInv, NEW v \in Event, sending[v] \in Busy, NEW status, UpdateDelivery(v, status)
    PROVE  \E row :
              /\ deliveries' = [deliveries EXCEPT ![dispatches[v].target][v] = row]
              /\ DeliveryShape(row)
              /\ row.status \in {"none", status}
<1> DEFINE e == dispatches[v].target
           row == [deliveries[e][v] EXCEPT !.status = status, !.attempts = @ + 1]
<1>1. e \in Endpoint
  BY TargetOf
<1>2. CASE deliveries[e][v].status = "none"
  BY <1>1, <1>2, Untouched DEF UpdateDelivery
<1>3. CASE deliveries[e][v].status # "none"
  <2>1. DeliveryShape(row) /\ row.status = status
    BY <1>1, Untouched DEF DeliveryShape
  <2>2. deliveries' = [deliveries EXCEPT ![e][v] = row]
    BY <1>1, <1>3 DEF UpdateDelivery, BusInv, BusShape
  <2> HIDE DEF row
  <2> QED BY <2>1, <2>2
<1> QED BY <1>2, <1>3

(* What the invariant says of the target of a busy dispatch.               *)
LEMMA TargetPair ==
    ASSUME BusInv, NEW v \in Event, sending[v] \in Busy
    PROVE  LET d == dispatches[v]
               status == deliveries[d.target][v].status
               receipt == posts[d.target][v]
           IN  /\ status = "success" => receipt.answer = "accepted"
               /\ status \in {"failed", "dead"} /\ receipt.answer = "accepted" => d.faulty
               /\ sending[v] \in Recovering /\ receipt.answer = "accepted" => d.faulty
BY TargetOf DEF BusInv, PairsInv, PairInv

LEMMA RecordAnswerKeeps ==
    ASSUME BusInv, NEW v \in Event, RecordAnswer(v) PROVE BusInv'
<1> DEFINE e == dispatches[v].target
<1>1. /\ sending[v] = "record" /\ UpdateDelivery(v, Verdict(v)) /\ SendNext(v, "mark")
      /\ UNCHANGED <<endpoints, dispatches, posts, eligible>>
  BY DEF RecordAnswer
<1>2. PICK row : /\ deliveries' = [deliveries EXCEPT ![e][v] = row]
                 /\ DeliveryShape(row)
                 /\ row.status \in {"none", Verdict(v)}
  BY <1>1, UpdateDeliveryRow DEF Busy
<1>3. /\ row.status = "success" => posts[e][v].answer = "accepted"
      /\ row.status \in {"failed", "dead"} => posts[e][v].answer # "accepted"
  BY <1>2 DEF Verdict
<1>4. SameConfiguration /\ sending[v] \in Busy /\ "mark" \in Busy \ {"post"}
      /\ "mark" \notin Recovering
  BY <1>1, EndpointsKept DEF Busy, Recovering
<1> QED BY <1>1, <1>2, <1>3, <1>4, AdvanceKeeps

LEMMA RecordErrorKeeps ==
    ASSUME BusInv, NEW v \in Event, RecordError(v) PROVE BusInv'
<1> DEFINE e == dispatches[v].target
<1>1. /\ sending[v] = "caught" /\ UpdateDelivery(v, "failed") /\ SendNext(v, "caughtMark")
      /\ UNCHANGED <<endpoints, dispatches, posts, eligible>>
  BY DEF RecordError
<1>2. PICK row : /\ deliveries' = [deliveries EXCEPT ![e][v] = row]
                 /\ DeliveryShape(row)
                 /\ row.status \in {"none", "failed"}
  BY <1>1, UpdateDeliveryRow DEF Busy
<1>3. posts[e][v].answer = "accepted" => dispatches[v].faulty
  BY <1>1, TargetPair DEF Busy, Recovering
<1>4. SameConfiguration /\ sending[v] \in Busy /\ "caughtMark" \in Busy \ {"post"}
  BY <1>1, EndpointsKept DEF Busy
<1>5. /\ row.status = "success" => posts[e][v].answer = "accepted"
      /\ row.status \in {"failed", "dead"} /\ posts[e][v].answer = "accepted"
            => dispatches[v].faulty
  BY <1>2, <1>3
<1> QED BY <1>1, <1>2, <1>3, <1>4, <1>5, AdvanceKeeps

(* A step that leaves the deliveries alone.                                *)
LEMMA TargetUntouched ==
    ASSUME BusInv, NEW v \in Event, sending[v] \in Busy
    PROVE  LET e == dispatches[v].target IN
              /\ deliveries = [deliveries EXCEPT ![e][v] = deliveries[e][v]]
              /\ DeliveryShape(deliveries[e][v])
BY TargetOf, Untouched

(* The dispatch is done with its target.                                   *)
LEMMA LeaveTargetKeeps ==
    ASSUME BusInv, SameConfiguration, UNCHANGED <<eligible, posts, deliveries>>,
           NEW v \in Event, sending[v] \in Busy, NEW faulty \in BOOLEAN,
           Leave(v, dispatches[v].target, faulty)
    PROVE  BusInv'
<1> DEFINE e == dispatches[v].target
           row == deliveries[e][v]
<1>1. e \in Endpoint /\ e \in dispatches[v].todo /\ Underway(v)
  BY TargetOf DEF Underway, Busy
<1>2. deliveries' = [deliveries EXCEPT ![e][v] = row] /\ DeliveryShape(row)
  BY TargetUntouched
<1>3. /\ row.status = "success" => posts[e][v].answer = "accepted"
      /\ row.status \in {"failed", "dead"} /\ posts[e][v].answer = "accepted"
            => dispatches[v].faulty
  BY TargetPair
<1>4. e \in {e, Null} /\ Leave(v, e, faulty)
  OBVIOUS
<1> HIDE DEF row
<1> QED BY <1>1, <1>2, <1>3, <1>4, LeaveKeeps

(* The dispatch goes on with its target.                                   *)
LEMMA GoOnKeeps ==
    ASSUME BusInv, SameConfiguration, UNCHANGED <<eligible, posts, deliveries, dispatches>>,
           NEW v \in Event, sending[v] \in Busy, NEW s \in Busy \ {"post"}, SendNext(v, s),
           s \in Recovering /\ posts[dispatches[v].target][v].answer = "accepted"
              => dispatches[v].faulty
    PROVE  BusInv'
<1> DEFINE e == dispatches[v].target
           row == deliveries[e][v]
<1>1. deliveries' = [deliveries EXCEPT ![e][v] = row] /\ DeliveryShape(row)
  BY TargetUntouched
<1>2. /\ row.status = "success" => posts[e][v].answer = "accepted"
      /\ row.status \in {"failed", "dead"} /\ posts[e][v].answer = "accepted"
            => dispatches[v].faulty
  BY TargetPair
<1> HIDE DEF row
<1> QED BY <1>1, <1>2, AdvanceKeeps

LEMMA MarkEndpointKeeps ==
    ASSUME BusInv, NEW v \in Event, MarkEndpoint(v) PROVE BusInv'
<1> DEFINE e == dispatches[v].target
<1>1. /\ sending[v] = "mark" /\ sending[v] \in Busy
      /\ UNCHANGED <<deliveries, posts, eligible>> /\ SameConfiguration
  BY UpdateLastKeeps DEF MarkEndpoint, Busy
<1>2. CASE Verdict(v) = "success"
  <2>1. Leave(v, e, FALSE)
    BY <1>2 DEF MarkEndpoint
  <2> QED BY <1>1, <2>1, LeaveTargetKeeps
<1>3. CASE Verdict(v) # "success"
  <2>1. SendNext(v, "retry") /\ UNCHANGED dispatches /\ posts[e][v].answer # "accepted"
    BY <1>3 DEF MarkEndpoint, Verdict
  <2> QED BY <1>1, <2>1, GoOnKeeps DEF Busy
<1> QED BY <1>2, <1>3

LEMMA MarkErrorKeeps ==
    ASSUME BusInv, NEW v \in Event, MarkError(v) PROVE BusInv'
<1>1. /\ sending[v] = "caughtMark" /\ SendNext(v, "caughtRetry") /\ SameConfiguration
      /\ UNCHANGED <<deliveries, dispatches, posts, eligible>>
  BY UpdateLastKeeps DEF MarkError
<1>2. sending[v] \in Busy /\ "caughtRetry" \in Busy \ {"post"}
  BY <1>1 DEF Busy
<1>3. posts[dispatches[v].target][v].answer = "accepted" => dispatches[v].faulty
  BY <1>1, <1>2, TargetPair DEF Recovering
<1> QED BY <1>1, <1>2, <1>3, GoOnKeeps

LEMMA ScheduleRetryKeeps ==
    ASSUME BusInv, NEW v \in Event, ScheduleRetry(v) PROVE BusInv'
<1> DEFINE e == dispatches[v].target
           old == deliveries[e][v]
           dead == [old EXCEPT !.status = "dead"]
           again == [old EXCEPT !.retry = TRUE]
<1>1. /\ sending[v] \in Busy /\ sending[v] \in Recovering /\ SameConfiguration /\ Underway(v)
      /\ UNCHANGED <<endpoints, posts, eligible>> /\ Leave(v, e, FALSE)
  BY EndpointsKept DEF ScheduleRetry, Busy, Recovering, Underway
<1>2. e \in Endpoint /\ e \in dispatches[v].todo
  BY <1>1, TargetOf
<1>3. \E row : /\ deliveries' = [deliveries EXCEPT ![e][v] = row] /\ DeliveryShape(row)
               /\ row.status \in {old.status, "dead"}
  <2>1. DeliveryShape(old)
    BY <1>1, TargetUntouched
  <2>2. DeliveryShape(dead) /\ dead.status = "dead"
    BY <2>1 DEF DeliveryShape
  <2>3. DeliveryShape(again) /\ again.status = old.status
    BY <2>1 DEF DeliveryShape
  <2>4. \/ UNCHANGED deliveries
        \/ deliveries' = [deliveries EXCEPT ![e][v] = dead]
        \/ deliveries' = [deliveries EXCEPT ![e][v] = again]
    BY DEF ScheduleRetry
  <2> HIDE DEF dead, again
  <2> QED BY <1>1, <2>1, <2>2, <2>3, <2>4, TargetUntouched
<1>4. PICK row : /\ deliveries' = [deliveries EXCEPT ![e][v] = row] /\ DeliveryShape(row)
                 /\ row.status \in {old.status, "dead"}
  BY <1>3
<1>5. /\ row.status = "success" => posts[e][v].answer = "accepted"
      /\ row.status \in {"failed", "dead"} /\ posts[e][v].answer = "accepted"
            => dispatches[v].faulty
  BY <1>1, <1>4, TargetPair
<1> QED BY <1>1, <1>2, <1>4, <1>5, LeaveKeeps

-----------------------------------------------------------------------------
(* Faults.  A dispatch that is lost leaves no delivery it has yet to make. *)
LEMMA DeathKeeps ==
    ASSUME BusInv, UNCHANGED <<endpoints, deliveries, dispatches, posts, eligible>>,
           sending' = [v \in Event |-> sending'[v]],
           \A v \in Event : sending'[v] \in {sending[v], "dead"}
    PROVE  BusInv'
<1>1. BusShape'
  BY DEF BusInv, BusShape
<1>2. \A v \in Event : Place(sending'[v], dispatches'[v])
  BY DEF BusInv, Place, Busy
<1>3. ASSUME NEW e \in Endpoint, NEW v \in Event
      PROVE  PairInv(e, sending'[v], dispatches'[v], deliveries'[e][v], posts'[e][v],
                     eligible'[e][v])
  <2>1. Waits(e, sending'[v], dispatches'[v]) => Waits(e, sending[v], dispatches[v])
    BY DEF Waits
  <2>2. sending'[v] \in Recovering => sending'[v] = sending[v]
    BY DEF Recovering
  <2> QED BY <2>1, <2>2 DEF BusInv, PairsInv, PairInv
<1>4. ASSUME NEW e \in Endpoint, NEW v \in Event
      PROVE  DueInv(endpoints'[e], sending'[v], dispatches'[v], eligible'[e][v])
  BY DEF BusInv, PairsInv, DueInv
<1> QED BY <1>1, <1>2, <1>3, <1>4 DEF BusInv, PairsInv

LEMMA SendNextDead ==
    ASSUME BusInv, NEW v \in Event, SendNext(v, "dead")
    PROVE  /\ sending' = [w \in Event |-> sending'[w]]
           /\ \A w \in Event : sending'[w] \in {sending[w], "dead"}
BY DEF BusInv, BusShape, SendNext

LEMMA SelectFailsKeeps ==
    ASSUME BusInv, NEW v \in Event, SelectFails(v) PROVE BusInv'
BY SendNextDead, DeathKeeps DEF SelectFails

LEMMA EmitFailsKeeps ==
    ASSUME BusInv, NEW v \in Event, EmitFails(v) PROVE BusInv'
BY SendNextDead, DeathKeeps DEF EmitFails

LEMMA CrashKeeps == BusInv /\ Crash => BusInv'
<1> SUFFICES ASSUME BusInv, Crash PROVE BusInv'
  OBVIOUS
<1>1. sending' = [v \in Event |-> IF Underway(v) THEN "dead" ELSE sending[v]]
      /\ UNCHANGED <<endpoints, deliveries, dispatches, posts, eligible>>
  BY DEF Crash, LoseDispatches
<1> QED BY <1>1, DeathKeeps

(* A statement that fails leads to the catch branch or to the next         *)
(* endpoint.                                                               *)
LEMMA CaughtKeeps ==
    ASSUME BusInv, NEW v \in Event, sending[v] \in {"record", "mark", "retry"},
           SendNext(v, "caught"),
           SetDispatch(v, [dispatches[v] EXCEPT !.faulty = TRUE]),
           UNCHANGED <<endpoints, deliveries, posts, eligible>>
    PROVE  BusInv'
<1> DEFINE d == dispatches[v]
           d2 == [d EXCEPT !.faulty = TRUE]
           e == d.target
<1>1. e \in Endpoint /\ e \in d.todo /\ Underway(v) /\ SameConfiguration
  BY TargetOf, EndpointsKept DEF Busy, Underway
<1>2. DispatchShape(d)
  BY DEF BusInv, BusShape
<1>3. /\ DOMAIN d2 = {"type", "todo", "secrets", "target", "faulty"}
      /\ d2.type = d.type /\ d2.todo = d.todo /\ d2.secrets = d.secrets
      /\ d2.target = d.target /\ d2.faulty = TRUE
  BY <1>2 DEF DispatchShape
<1>4. DispatchShape(d2) /\ Place("caught", d2)
  BY <1>1, <1>2, <1>3 DEF DispatchShape, Place
<1>5. ASSUME NEW f \in Endpoint
      PROVE  PairInv(f, "caught", d2, deliveries[f][v], posts[f][v], eligible[f][v])
  BY <1>3 DEF BusInv, PairsInv, PairInv, Waits
<1>6. sending' = [sending EXCEPT ![v] = "caught"] /\ dispatches' = [dispatches EXCEPT ![v] = d2]
  BY DEF SendNext, SetDispatch
<1>7. /\ deliveries' = [deliveries EXCEPT ![e][v] = deliveries[e][v]]
      /\ posts' = [posts EXCEPT ![e][v] = posts[e][v]]
      /\ ReceiptShape(posts[e][v]) /\ DeliveryShape(deliveries[e][v])
  BY <1>1, Untouched
<1> HIDE DEF d2, e
<1> QED BY <1>1, <1>3, <1>4, <1>5, <1>6, <1>7, DispatchMoves

LEMMA StatementFailsKeeps ==
    ASSUME BusInv, NEW v \in Event, StatementFails(v) PROVE BusInv'
<1>1. UNCHANGED <<endpoints, deliveries, posts, eligible>> /\ SameConfiguration
  BY EndpointsKept DEF StatementFails
<1>2. ASSUME sending[v] = "next", NEW e \in dispatches[v].todo, Leave(v, e, TRUE)
      PROVE  BusInv'
  <2>1. e \in Endpoint /\ dispatches[v].target = Null /\ Underway(v)
    BY <1>2 DEF BusInv, BusShape, DispatchShape, Place, Underway
  <2>2. /\ deliveries' = [deliveries EXCEPT ![e][v] = deliveries[e][v]]
        /\ DeliveryShape(deliveries[e][v])
    BY <1>1, <2>1, Untouched
  <2>3. /\ deliveries[e][v].status = "success" => posts[e][v].answer = "accepted"
        /\ deliveries[e][v].status \in {"failed", "dead"} /\ posts[e][v].answer = "accepted"
              => dispatches[v].faulty
    BY <2>1 DEF BusInv, PairsInv, PairInv
  <2> QED BY <1>1, <1>2, <2>1, <2>2, <2>3, LeaveKeeps
<1>3. CASE /\ sending[v] \in {"record", "mark", "retry"}
           /\ SendNext(v, "caught")
           /\ SetDispatch(v, [dispatches[v] EXCEPT !.faulty = TRUE])
  BY <1>1, <1>3, CaughtKeeps
<1>4. CASE /\ sending[v] \in {"caught", "caughtMark", "caughtRetry"}
           /\ Leave(v, dispatches[v].target, TRUE)
  <2>1. sending[v] \in Busy
    BY <1>4 DEF Busy
  <2> QED BY <1>1, <1>4, <2>1, LeaveTargetKeeps
<1> QED BY <1>2, <1>3, <1>4 DEF StatementFails

-----------------------------------------------------------------------------
(* The beginning of a dispatch: what its endpoints have now counts.        *)
LEMMA StartKeeps ==
    ASSUME BusInv, NEW v \in Event, NEW type, Start(v, type),
           UNCHANGED <<endpoints, deliveries, posts>>
    PROVE  BusInv'
<1> DEFINE d == [NoDispatch EXCEPT !.type = type]
<1>1. /\ DOMAIN d = {"type", "todo", "secrets", "target", "faulty"}
      /\ d.type = type /\ d.todo = {} /\ d.target = Null /\ d.faulty = FALSE
  BY DEF NoDispatch
<1>2. /\ sending[v] = "idle" /\ sending' = [sending EXCEPT ![v] = "select"]
      /\ dispatches' = [dispatches EXCEPT ![v] = d]
  BY DEF Start, SendNext, SetDispatch
<1> HIDE DEF d
<1>3. \A w \in Event : /\ sending'[w] = IF w = v THEN "select" ELSE sending[w]
                       /\ dispatches'[w] = IF w = v THEN d ELSE dispatches[w]
  BY <1>2 DEF BusInv, BusShape
<1>4. \A e \in Endpoint, w \in Event \ {v} : eligible'[e][w] = eligible[e][w]
  BY DEF Start, BusInv, BusShape
<1>5. \A e \in Endpoint : eligible'[e][v] = IF Due(endpoints[e], type)
                                           THEN {endpoints[e].secret} ELSE {}
  <2> SUFFICES ASSUME NEW e \in Endpoint
               PROVE  eligible'[e][v] = IF Due(endpoints[e], type)
                                        THEN {endpoints[e].secret} ELSE {}
    OBVIOUS
  <2>1. eligible[e] = [w \in Event |-> eligible[e][w]]
    BY DEF BusInv, BusShape
  <2> QED BY <2>1 DEF Start
<1>6. BusShape'
  <2>1. /\ sending' = [w \in Event |-> sending'[w]]
        /\ dispatches' = [w \in Event |-> dispatches'[w]]
    BY <1>2 DEF BusInv, BusShape
  <2>2. \A w \in Event : DispatchShape(dispatches'[w])
    BY <1>1, <1>3 DEF BusInv, BusShape, DispatchShape
  <2>3. ASSUME NEW e \in Endpoint PROVE eligible'[e] = [w \in Event |-> eligible'[e][w]]
    <3>1. eligible[e] = [w \in Event |-> eligible[e][w]]
      BY DEF BusInv, BusShape
    <3> QED BY <3>1 DEF Start
  <2>4. eligible' = [e \in Endpoint |-> eligible'[e]]
    BY DEF Start
  <2>5. eligible' = [e \in Endpoint |-> [w \in Event |-> eligible'[e][w]]]
    BY <2>3, <2>4, Zenon
  <2> QED BY <2>1, <2>2, <2>5 DEF BusInv, BusShape
<1>7. \A w \in Event : Place(sending'[w], dispatches'[w])
  BY <1>1, <1>3 DEF BusInv, Place, Busy
<1>8. ASSUME NEW e \in Endpoint, NEW w \in Event
      PROVE  PairInv(e, sending'[w], dispatches'[w], deliveries'[e][w], posts'[e][w],
                     eligible'[e][w])
  <2>1. CASE w # v
    BY <1>3, <1>4, <2>1 DEF BusInv, PairsInv
  <2>2. CASE w = v
    <3>1. posts[e][v].count = 0 /\ deliveries[e][v].status \in {"none", "pending"}
      BY <1>2 DEF BusInv, PairsInv, PairInv, Waits
    <3> QED BY <1>1, <1>3, <2>2, <3>1 DEF PairInv, Recovering
  <2> QED BY <2>1, <2>2
<1>9. ASSUME NEW e \in Endpoint, NEW w \in Event
      PROVE  DueInv(endpoints'[e], sending'[w], dispatches'[w], eligible'[e][w])
  <2>1. CASE w # v
    BY <1>3, <1>4, <2>1 DEF BusInv, PairsInv
  <2>2. CASE w = v
    BY <1>1, <1>3, <1>5, <2>2 DEF DueInv
  <2> QED BY <2>1, <2>2
<1> QED BY <1>6, <1>7, <1>8, <1>9 DEF BusInv, PairsInv

-----------------------------------------------------------------------------
(* Managing an endpoint: what it becomes counts for whatever is underway.  *)
LEMMA BecomesKeeps ==
    ASSUME BusInv, NEW e \in Endpoint, NEW row, EndpointShape(row), Becomes(e, row),
           UNCHANGED <<sending, dispatches, posts>>,
           \/ UNCHANGED deliveries
           \/ deliveries' = [deliveries EXCEPT ![e] = [v \in Event |-> NoDelivery]]
    PROVE  BusInv'
<1>1. \A f \in Endpoint : endpoints'[f] = IF f = e THEN row ELSE endpoints[f]
  BY DEF Becomes, BusInv, BusShape
<1>2. \A f \in Endpoint, w \in Event :
         deliveries'[f][w] = deliveries[f][w] \/ deliveries'[f][w] = NoDelivery
  <2>1. CASE UNCHANGED deliveries
    BY <2>1
  <2>2. CASE deliveries' = [deliveries EXCEPT ![e] = [v \in Event |-> NoDelivery]]
    <3>1. \A f \in Endpoint : deliveries'[f] = IF f = e THEN [v \in Event |-> NoDelivery]
                                              ELSE deliveries[f]
      BY <2>2 DEF BusInv, BusShape
    <3> QED BY <3>1
  <2> QED BY <2>1, <2>2
<1>3. ASSUME NEW w \in Event
      PROVE  eligible'[e][w] = IF Underway(w) /\ Due(row, dispatches[w].type)
                               THEN eligible[e][w] \cup {row.secret} ELSE eligible[e][w]
  BY DEF Becomes, BusInv, BusShape
<1>4. \A f \in Endpoint \ {e}, w \in Event : eligible'[f][w] = eligible[f][w]
  BY DEF Becomes, BusInv, BusShape
<1>5. DeliveryShape(NoDelivery) /\ NoDelivery.status = "none"
  BY DEF DeliveryShape, NoDelivery
<1>6. BusShape'
  <2>1. endpoints' = [f \in Endpoint |-> endpoints'[f]]
    BY DEF Becomes, BusInv, BusShape
  <2>2. \A f \in Endpoint : EndpointShape(endpoints'[f])
    BY <1>1 DEF BusInv, BusShape
  <2>3. eligible' = [f \in Endpoint |-> [w \in Event |-> eligible'[f][w]]]
    <3>1. eligible' = [f \in Endpoint |-> eligible'[f]]
      BY DEF Becomes, BusInv, BusShape
    <3>2. ASSUME NEW f \in Endpoint PROVE eligible'[f] = [w \in Event |-> eligible'[f][w]]
      BY DEF Becomes, BusInv, BusShape
    <3> QED BY <3>1, <3>2, Zenon
  <2>4. deliveries' = [f \in Endpoint |-> [w \in Event |-> deliveries'[f][w]]]
    <3>1. deliveries' = [f \in Endpoint |-> deliveries'[f]]
      BY DEF BusInv, BusShape
    <3>2. ASSUME NEW f \in Endpoint PROVE deliveries'[f] = [w \in Event |-> deliveries'[f][w]]
      <4>1. deliveries[f] = [w \in Event |-> deliveries[f][w]]
        BY DEF BusInv, BusShape
      <4>2. deliveries'[f] = deliveries[f] \/ deliveries'[f] = [v \in Event |-> NoDelivery]
        BY DEF BusInv, BusShape
      <4> QED BY <4>1, <4>2
    <3> QED BY <3>1, <3>2, Zenon
  <2>5. \A f \in Endpoint, w \in Event : DeliveryShape(deliveries'[f][w])
    BY <1>2, <1>5 DEF BusInv, BusShape
  <2> QED BY <2>1, <2>2, <2>3, <2>4, <2>5 DEF BusInv, BusShape
<1>7. \A w \in Event : Place(sending'[w], dispatches'[w])
  BY DEF BusInv
<1>8. ASSUME NEW f \in Endpoint, NEW w \in Event
      PROVE  /\ PairInv(f, sending'[w], dispatches'[w], deliveries'[f][w], posts'[f][w],
                        eligible'[f][w])
             /\ DueInv(endpoints'[f], sending'[w], dispatches'[w], eligible'[f][w])
  <2>1. eligible[f][w] \subseteq eligible'[f][w]
    BY <1>3, <1>4
  <2>2. PairInv(f, sending[w], dispatches[w], deliveries[f][w], posts[f][w], eligible[f][w])
    BY DEF BusInv, PairsInv
  <2>3. PairInv(f, sending'[w], dispatches'[w], deliveries'[f][w], posts'[f][w], eligible'[f][w])
    BY <1>2, <1>5, <2>1, <2>2 DEF PairInv
  <2>4. CASE f = e
    BY <1>1, <1>3, <2>3, <2>4 DEF DueInv, Underway
  <2>5. CASE f # e
    BY <1>1, <1>4, <2>3, <2>5 DEF BusInv, PairsInv
  <2> QED BY <2>4, <2>5
<1> QED BY <1>6, <1>7, <1>8 DEF BusInv, PairsInv

LEMMA ManageKeeps == BusInv /\ Manage => BusInv'
<1> SUFFICES ASSUME BusInv, NEW e \in Endpoint,
                    \/ \E types \in Subscriptions : CreateEndpoint(e, types)
                    \/ \E active \in BOOLEAN, types \in Subscriptions :
                          UpdateEndpoint(e, active, types)
                    \/ RotateSecret(e) \/ DeleteEndpoint(e)
             PROVE  BusInv'
  BY DEF Manage
<1>1. EndpointShape(endpoints[e])
  BY DEF BusInv, BusShape
<1>2. ASSUME NEW types \in Subscriptions, CreateEndpoint(e, types) PROVE BusInv'
  <2> DEFINE row == [state |-> "live", active |-> TRUE, events |-> types, secret |-> 1,
                     last |-> "pending"]
  <2>1. EndpointShape(row)
    BY DEF EndpointShape
  <2> QED BY <1>2, <2>1, BecomesKeeps DEF CreateEndpoint
<1>3. ASSUME NEW active \in BOOLEAN, NEW types \in Subscriptions, UpdateEndpoint(e, active, types)
      PROVE  BusInv'
  <2>1. EndpointShape([endpoints[e] EXCEPT !.active = active, !.events = types])
    BY <1>1 DEF EndpointShape
  <2> QED BY <1>3, <2>1, BecomesKeeps DEF UpdateEndpoint
<1>4. CASE RotateSecret(e)
  <2>1. EndpointShape([endpoints[e] EXCEPT !.secret = @ + 1])
    BY <1>1 DEF EndpointShape
  <2> QED BY <1>4, <2>1, BecomesKeeps DEF RotateSecret
<1>5. CASE DeleteEndpoint(e)
  <2>1. EndpointShape([endpoints[e] EXCEPT !.state = "deleted"])
    BY <1>1 DEF EndpointShape
  <2> QED BY <1>5, <2>1, BecomesKeeps DEF DeleteEndpoint
<1> QED BY <1>2, <1>3, <1>4, <1>5

-----------------------------------------------------------------------------
LEMMA DispatchStepKeeps ==
    ASSUME BusInv, NEW v \in Event, DispatchStep(v) \/ DispatchFault(v) PROVE BusInv'
BY SelectEndpointsKeeps, InsertDeliveryKeeps, PostKeeps, RecordAnswerKeeps, MarkEndpointKeeps,
   RecordErrorKeeps, MarkErrorKeeps, ScheduleRetryKeeps, SelectFailsKeeps, StatementFailsKeeps
   DEF DispatchStep, DispatchFault

LEMMA BackgroundKeeps == BusInv /\ Background => BusInv'
<1> SUFFICES ASSUME BusInv, Background PROVE BusInv'
  OBVIOUS
<1>1. ASSUME NEW v \in Event, TestDelivery(v) PROVE BusInv'
  BY <1>1, StartKeeps DEF TestDelivery
<1> QED BY <1>1, ManageKeeps, DispatchStepKeeps DEF Background

LEMMA EmitKeeps ==
    ASSUME BusInv, NEW r \in Request, Emit(r) PROVE BusInv'
<1>1. r \in Event
  BY EventAssumption
<1>2. ASSUME EmitEvent(r, TypeOf(requests[r].kind)) PROVE BusInv'
  BY <1>1, <1>2, StartKeeps DEF EmitEvent
<1>3. CASE EmitFails(r)
  BY <1>1, <1>3, EmitFailsKeeps
<1> QED BY <1>2, <1>3 DEF Emit

LEMMA BusInvStep == BusInv /\ [Next]_vars => BusInv'
<1> SUFFICES ASSUME BusInv, [Next]_vars PROVE BusInv'
  OBVIOUS
<1>1. ASSUME NEW r \in Request, (Arrival(r) /\ UNCHANGED busVars) \/ Serve(r) PROVE BusInv'
  BY <1>1, BusStutters DEF Serve, busVars, BusRows
<1>2. ASSUME NEW r \in Request, RequestFault(r) PROVE BusInv'
  BY <1>2, BusStutters DEF RequestFault, BusRows
<1>3. CASE UNCHANGED vars
  BY <1>3, BusStutters DEF vars, busVars, BusRows
<1> QED BY <1>1, <1>2, <1>3, EmitKeeps, BackgroundKeeps, CrashKeeps DEF Next

(* An endpoint receives an event at most once, signed with a secret it had *)
(* while it was due the event: dispatchEvent of services/webhook.ts reads  *)
(* the endpoints once, and what an administrator changes meanwhile is for  *)
(* the next event.                                                         *)
THEOREM PostsFollowConfigurationHolds == Spec => []PostsFollowConfiguration
BY BusInitially, BusInvStep, BusInvImplies, PTL DEF Spec

(* The delivery log is right about every delivery (deliverWebhook of       *)
(* services/webhook.ts), unless one of the statements that keep it failed. *)
THEOREM OutcomeIsTrueHolds == Spec => []OutcomeIsTrue
BY BusInitially, BusInvStep, BusInvImplies, PTL DEF Spec

-----------------------------------------------------------------------------
(* Types.  A delivery is recorded twice at most: once for the answer, and  *)
(* once more in the catch branch, if the statement after it failed.        *)
Tried(e, s, d, row) ==
    /\ Waits(e, s, d) \/ (s = "record" /\ d.target = e) => row.attempts = 0
    /\ s \in {"mark", "retry", "caught"} /\ d.target = e => row.attempts <= 1

BusTypes ==
    /\ BusTypeOK
    /\ \A e \in Endpoint, v \in Event : Tried(e, sending[v], dispatches[v], deliveries[e][v])

LEMMA BusTypesInitially == BusInit => BusTypes
<1> SUFFICES ASSUME BusInit PROVE BusTypes
  OBVIOUS
<1>1. NoDelivery \in DeliveryRow /\ NoReceipt \in Receipt /\ NoDispatch \in Dispatch
  BY TypeAssumption DEF NoDelivery, DeliveryRow, NoReceipt, Receipt, NoDispatch, Dispatch
<1>2. endpoints \in [Endpoint -> EndpointRow]
  <2>1. 1 \in Secret
    BY BusBounds DEF Secret
  <2>2. [state : {"none", "live"}, active : {TRUE}, events : Subscriptions, secret : {1},
         last : {"pending"}] \subseteq EndpointRow
    BY <2>1, TypeAssumption DEF EndpointRow
  <2> QED BY <2>2 DEF BusInit
<1>3. BusTypeOK
  BY <1>1, <1>2, BusBounds DEF BusInit, BusTypeOK, Sending
<1>4. \A e \in Endpoint, v \in Event : Tried(e, sending[v], dispatches[v], deliveries[e][v])
  BY DEF BusInit, Tried, NoDelivery
<1> QED BY <1>3, <1>4 DEF BusTypes

LEMMA BusTypesStutter == BusTypes /\ UNCHANGED busVars => BusTypes'
BY DEF BusTypes, BusTypeOK, busVars

LEMMA IncidentTyped == BusTypeOK /\ (Incident \/ UNCHANGED incidents) => incidents' \in 0..MaxIncidents
BY BusBounds DEF BusTypeOK, Incident

(* A step of one dispatch, with one delivery at most.                      *)
LEMMA DispatchTypes ==
    ASSUME BusTypes, NEW v \in Event, NEW s \in Sending, NEW d \in Dispatch,
           NEW e \in Endpoint, NEW row \in DeliveryRow,
           sending' = [sending EXCEPT ![v] = s],
           dispatches' = [dispatches EXCEPT ![v] = d],
           deliveries' = [deliveries EXCEPT ![e][v] = row],
           Tried(e, s, d, row),
           \A x \in Endpoint \ {e} : Tried(x, s, d, deliveries[x][v]),
           eventLog' \subseteq Event, endpoints' \in [Endpoint -> EndpointRow],
           posts' \in [Endpoint -> [Event -> Receipt]],
           eligible' \in [Endpoint -> [Event -> SUBSET Secret]],
           Incident \/ UNCHANGED incidents
    PROVE  BusTypes'
<1>1. sending' \in [Event -> Sending] /\ dispatches' \in [Event -> Dispatch]
  BY DEF BusTypes, BusTypeOK
<1>2. /\ deliveries' \in [Endpoint -> [Event -> DeliveryRow]]
      /\ deliveries'[e][v] = row
      /\ \A x \in Endpoint, w \in Event : x # e \/ w # v => deliveries'[x][w] = deliveries[x][w]
  BY DEF BusTypes, BusTypeOK
<1>3. ASSUME NEW x \in Endpoint, NEW w \in Event
      PROVE  Tried(x, sending'[w], dispatches'[w], deliveries'[x][w])
  <2>1. sending'[v] = s /\ dispatches'[v] = d
    BY DEF BusTypes, BusTypeOK
  <2>2. w # v => sending'[w] = sending[w] /\ dispatches'[w] = dispatches[w]
    BY DEF BusTypes, BusTypeOK
  <2>3. CASE w = v /\ x = e
    BY <1>2, <2>1, <2>3
  <2>4. CASE w = v /\ x # e
    BY <1>2, <2>1, <2>4
  <2>5. CASE w # v
    BY <1>2, <2>2, <2>5 DEF BusTypes
  <2> QED BY <2>3, <2>4, <2>5
<1>4. incidents' \in 0..MaxIncidents
  BY IncidentTyped DEF BusTypes
<1> QED BY <1>1, <1>2, <1>3, <1>4 DEF BusTypes, BusTypeOK

LEMMA StayTypes ==
    ASSUME BusTypes, NEW v \in Event, NEW s \in Sending, NEW d \in Dispatch,
           sending' = [sending EXCEPT ![v] = s],
           \/ dispatches' = [dispatches EXCEPT ![v] = d]
           \/ d = dispatches[v] /\ UNCHANGED dispatches,
           UNCHANGED deliveries,
           \A x \in Endpoint : Tried(x, s, d, deliveries[x][v]),
           eventLog' \subseteq Event, endpoints' \in [Endpoint -> EndpointRow],
           posts' \in [Endpoint -> [Event -> Receipt]],
           eligible' \in [Endpoint -> [Event -> SUBSET Secret]],
           Incident \/ UNCHANGED incidents
    PROVE  BusTypes'
<1>1. sending' \in [Event -> Sending] /\ dispatches' \in [Event -> Dispatch]
  BY DEF BusTypes, BusTypeOK
<1>2. sending'[v] = s /\ dispatches'[v] = d
  BY DEF BusTypes, BusTypeOK
<1>3. \A w \in Event \ {v} : sending'[w] = sending[w] /\ dispatches'[w] = dispatches[w]
  BY DEF BusTypes, BusTypeOK
<1>4. ASSUME NEW x \in Endpoint, NEW w \in Event
      PROVE  Tried(x, sending'[w], dispatches'[w], deliveries'[x][w])
  <2>1. CASE w = v
    BY <1>2, <2>1
  <2>2. CASE w # v
    BY <1>3, <2>2 DEF BusTypes
  <2> QED BY <2>1, <2>2
<1>5. incidents' \in 0..MaxIncidents
  BY IncidentTyped DEF BusTypes
<1> QED BY <1>1, <1>4, <1>5 DEF BusTypes, BusTypeOK

(* A dispatch is done with an endpoint.                                    *)
LEMMA LeaveTried ==
    ASSUME BusTypes, NEW v \in Event, NEW e \in Endpoint, NEW faulty \in BOOLEAN,
           sending[v] \in Busy => dispatches[v].target = e,
           sending[v] \in Busy \cup {"next"}, Place(sending[v], dispatches[v]),
           Leave(v, e, faulty)
    PROVE  \E s \in Sending, d \in Dispatch :
              /\ sending' = [sending EXCEPT ![v] = s]
              /\ dispatches' = [dispatches EXCEPT ![v] = d]
              /\ \A x \in Endpoint, row \in DeliveryRow :
                    x = e \/ Tried(x, sending[v], dispatches[v], row) => Tried(x, s, d, row)
<1> DEFINE left == dispatches[v].todo \ {e}
           d == [dispatches[v] EXCEPT !.todo = left, !.target = Null, !.faulty = @ \/ faulty]
           s == IF left = {} THEN "done" ELSE "next"
<1>1. dispatches[v] \in Dispatch
  BY DEF BusTypes, BusTypeOK
<1>2. d \in Dispatch /\ d.todo = left /\ d.target = Null
  BY <1>1 DEF Dispatch
<1>3. s \in Sending /\ s \in {"done", "next"}
  BY DEF Sending
<1>4. sending' = [sending EXCEPT ![v] = s] /\ dispatches' = [dispatches EXCEPT ![v] = d]
  BY DEF Leave, SetDispatch, SendNext
<1> HIDE DEF d, s
<1>5. \A x \in Endpoint : Waits(x, s, d) => x # e /\ Waits(x, sending[v], dispatches[v])
  BY <1>2, <1>3, NoEndpoint DEF Waits, Place
<1>6. ASSUME NEW x \in Endpoint, NEW row \in DeliveryRow,
             x = e \/ Tried(x, sending[v], dispatches[v], row)
      PROVE  Tried(x, s, d, row)
  BY <1>3, <1>5, <1>6 DEF Tried
<1> QED BY <1>2, <1>3, <1>4, <1>6

LEMMA LeaveTypes ==
    ASSUME BusTypes, NEW v \in Event, NEW e \in Endpoint, NEW faulty \in BOOLEAN,
           sending[v] \in Busy => dispatches[v].target = e,
           sending[v] \in Busy \cup {"next"}, Place(sending[v], dispatches[v]),
           Leave(v, e, faulty), UNCHANGED <<eventLog, posts, eligible>>,
           UNCHANGED deliveries \/
              \E row \in DeliveryRow : deliveries' = [deliveries EXCEPT ![e][v] = row],
           endpoints' \in [Endpoint -> EndpointRow], Incident \/ UNCHANGED incidents
    PROVE  BusTypes'
<1>1. PICK s \in Sending, d \in Dispatch :
              /\ sending' = [sending EXCEPT ![v] = s]
              /\ dispatches' = [dispatches EXCEPT ![v] = d]
              /\ \A x \in Endpoint, row \in DeliveryRow :
                    x = e \/ Tried(x, sending[v], dispatches[v], row) => Tried(x, s, d, row)
  BY LeaveTried
<1>2. \A x \in Endpoint : /\ deliveries[x][v] \in DeliveryRow
                          /\ Tried(x, s, d, deliveries[x][v])
  BY <1>1 DEF BusTypes, BusTypeOK
<1>3. /\ eventLog' \subseteq Event /\ posts' \in [Endpoint -> [Event -> Receipt]]
      /\ eligible' \in [Endpoint -> [Event -> SUBSET Secret]]
  BY DEF BusTypes, BusTypeOK
<1>4. CASE UNCHANGED deliveries
  BY <1>1, <1>2, <1>3, <1>4, StayTypes
<1>5. ASSUME NEW row \in DeliveryRow, deliveries' = [deliveries EXCEPT ![e][v] = row]
      PROVE  BusTypes'
  BY <1>1, <1>2, <1>3, <1>5, DispatchTypes
<1> QED BY <1>4, <1>5

(* What the statements leave alone.                                        *)
LEMMA BusTypesRest ==
    ASSUME BusTypes
    PROVE  /\ eventLog \subseteq Event /\ endpoints \in [Endpoint -> EndpointRow]
           /\ posts \in [Endpoint -> [Event -> Receipt]]
           /\ eligible \in [Endpoint -> [Event -> SUBSET Secret]]
           /\ \A v \in Event : sending[v] \in Sending /\ dispatches[v] \in Dispatch
           /\ \A e \in Endpoint, v \in Event :
                 /\ deliveries[e][v] \in DeliveryRow
                 /\ posts[e][v] \in Receipt
                 /\ Tried(e, sending[v], dispatches[v], deliveries[e][v])
BY DEF BusTypes, BusTypeOK

LEMMA UpdateLastTypes ==
    ASSUME BusTypes, NEW v \in Event, NEW status \in {"success", "failed"}, UpdateLast(v, status),
           dispatches[v].target \in Endpoint
    PROVE  endpoints' \in [Endpoint -> EndpointRow]
<1> DEFINE e == dispatches[v].target
           row == [endpoints[e] EXCEPT !.last = status]
<1>1. endpoints[e] \in EndpointRow
  BY BusTypesRest
<1>2. row \in EndpointRow
  BY <1>1 DEF EndpointRow
<1>3. endpoints' = endpoints \/ endpoints' = [endpoints EXCEPT ![e] = row]
  BY DEF UpdateLast
<1> HIDE DEF row, e
<1> QED BY <1>2, <1>3, BusTypesRest

LEMMA SelectEndpointsTypes ==
    ASSUME BusInv, BusTypes, NEW v \in Event, SelectEndpoints(v) PROVE BusTypes'
<1> DEFINE due == {e \in Endpoint : Due(endpoints[e], dispatches[v].type)}
           secrets == [e \in Endpoint |-> IF e \in due THEN endpoints[e].secret ELSE Null]
           d == [dispatches[v] EXCEPT !.todo = due, !.secrets = secrets]
           s == IF due = {} THEN "done" ELSE "next"
<1>1. secrets \in [Endpoint -> Secret \cup {Null}]
  <2>1. \A e \in Endpoint : endpoints[e].secret \in Secret
    BY BusTypesRest DEF EndpointRow
  <2> QED BY <2>1
<1>2. due \subseteq Endpoint
  OBVIOUS
<1> HIDE DEF secrets, due
<1>3. d \in Dispatch
  BY <1>1, <1>2, BusTypesRest DEF Dispatch
<1>4. s \in Sending /\ s \in {"done", "next"} /\ sending[v] = "select"
  BY DEF Sending, SelectEndpoints
<1>5. sending' = [sending EXCEPT ![v] = s] /\ dispatches' = [dispatches EXCEPT ![v] = d]
  BY DEF SelectEndpoints, SetDispatch, SendNext, due, secrets
<1> HIDE DEF d, s
<1>6. \A x \in Endpoint : Tried(x, s, d, deliveries[x][v])
  BY <1>4, BusTypesRest DEF Tried, Waits
<1>7. UNCHANGED <<eventLog, endpoints, deliveries, posts, eligible, incidents>>
  BY DEF SelectEndpoints
<1> QED BY <1>3, <1>4, <1>5, <1>6, <1>7, BusTypesRest, StayTypes

LEMMA InsertDeliveryTypes ==
    ASSUME BusInv, BusTypes, NEW v \in Event, NEW e \in Endpoint, InsertDelivery(v, e)
    PROVE  BusTypes'
<1>1. /\ sending[v] = "next" /\ e \in dispatches[v].todo
      /\ UNCHANGED <<eventLog, endpoints, posts, eligible, incidents>>
  BY DEF InsertDelivery
<1>2. Place(sending[v], dispatches[v])
  BY DEF BusInv
<1>3. CASE endpoints[e].state = "live" /\ deliveries[e][v].status = "none"
  <2> DEFINE row == [deliveries[e][v] EXCEPT !.status = "pending"]
             d == [dispatches[v] EXCEPT !.target = e]
  <2>1. deliveries' = [deliveries EXCEPT ![e][v] = row]
    BY <1>3 DEF InsertDelivery
  <2>2. dispatches' = [dispatches EXCEPT ![v] = d] /\ sending' = [sending EXCEPT ![v] = "post"]
    BY <1>3 DEF InsertDelivery, SetDispatch, SendNext
  <2>3. /\ d \in Dispatch /\ d.todo = dispatches[v].todo /\ d.target = e
    BY BusTypesRest DEF Dispatch
  <2>4. row \in DeliveryRow /\ row.attempts = deliveries[e][v].attempts
    BY BusTypesRest DEF DeliveryRow
  <2>5. dispatches[v].target = Null
    BY <1>1, <1>2 DEF Place
  <2> HIDE DEF row, d
  <2>6. deliveries[e][v].attempts = 0
    BY <1>1, <2>5, NoEndpoint, BusTypesRest DEF Tried, Waits
  <2>7. Tried(e, "post", d, row)
    BY <2>4, <2>6 DEF Tried
  <2>8. \A x \in Endpoint \ {e} : Tried(x, "post", d, deliveries[x][v])
    BY <1>1, <2>3, <2>5, NoEndpoint, BusTypesRest DEF Tried, Waits
  <2>9. "post" \in Sending
    BY DEF Sending
  <2> QED BY <1>1, <2>1, <2>2, <2>3, <2>4, <2>7, <2>8, <2>9, BusTypesRest, DispatchTypes
<1>4. CASE ~(endpoints[e].state = "live" /\ deliveries[e][v].status = "none")
  <2>1. Leave(v, e, FALSE) /\ UNCHANGED deliveries
    BY <1>4 DEF InsertDelivery
  <2> QED BY <1>1, <1>2, <2>1, BusTypesRest, LeaveTypes DEF Busy
<1> QED BY <1>3, <1>4

LEMMA PostTypes ==
    ASSUME BusInv, BusTypes, NEW v \in Event, NEW answer \in Answers, Post(v, answer)
    PROVE  BusTypes'
<1> DEFINE e == dispatches[v].target
           receipt == [count |-> posts[e][v].count + 1, secret |-> dispatches[v].secrets[e],
                       answer |-> answer]
           s == IF answer \in {"accepted", "refused"} THEN "record" ELSE "caught"
<1>1. sending[v] = "post" /\ e \in Endpoint /\ e \in dispatches[v].todo
  BY TargetOf DEF Post, Busy
<1>2. posts[e][v].count = 0
  BY <1>1 DEF BusInv, PairsInv, PairInv, Waits
<1>3. dispatches[v].secrets[e] \in Secret \cup {Null}
  BY <1>1, BusTypesRest DEF Dispatch
<1>4. receipt \in Receipt
  BY <1>2, <1>3, AnswersAssumption DEF Receipt
<1>5. posts' = [posts EXCEPT ![e][v] = receipt]
  BY DEF Post
<1>6. s \in Sending /\ s \in {"record", "caught"}
  BY DEF Sending
<1>7. sending' = [sending EXCEPT ![v] = s]
  BY DEF Post, SendNext
<1>8. UNCHANGED <<eventLog, endpoints, deliveries, dispatches, eligible, incidents>>
  BY DEF Post
<1> HIDE DEF receipt, s
<1>9. posts' \in [Endpoint -> [Event -> Receipt]]
  BY <1>4, <1>5, BusTypesRest
<1>10. ASSUME NEW x \in Endpoint PROVE Tried(x, s, dispatches[v], deliveries[x][v])
  <2>1. Waits(x, s, dispatches[v]) \/ x = e => Waits(x, sending[v], dispatches[v])
    BY <1>1, <1>6 DEF Waits
  <2> QED BY <1>6, <2>1, BusTypesRest DEF Tried
<1> HIDE DEF e
<1> QED BY <1>6, <1>7, <1>8, <1>9, <1>10, BusTypesRest, StayTypes

(* The row of a delivery after the statement that records how it went.     *)
LEMMA UpdateDeliveryTypes ==
    ASSUME BusTypes, NEW v \in Event, NEW status \in {"success", "failed"},
           UpdateDelivery(v, status), dispatches[v].target \in Endpoint,
           deliveries[dispatches[v].target][v].attempts <= 1
    PROVE  \E row \in DeliveryRow :
              /\ deliveries' = [deliveries EXCEPT ![dispatches[v].target][v] = row]
              /\ row.attempts <= deliveries[dispatches[v].target][v].attempts + 1
<1> DEFINE e == dispatches[v].target
           old == deliveries[e][v]
           row == [old EXCEPT !.status = status, !.attempts = @ + 1]
<1>1. old \in DeliveryRow
  BY BusTypesRest
<1>2. deliveries = [deliveries EXCEPT ![e][v] = old]
  <2>1. deliveries[e] = [deliveries[e] EXCEPT ![v] = old]
    BY DEF BusTypes, BusTypeOK
  <2> QED BY <2>1 DEF BusTypes, BusTypeOK
<1>3. row \in DeliveryRow /\ row.attempts = old.attempts + 1
  <2>1. old.attempts + 1 \in 0..2
    BY <1>1 DEF DeliveryRow
  <2>2. row.attempts = old.attempts + 1
    BY <1>1 DEF DeliveryRow
  <2>3. \A n \in 0..2 : [old EXCEPT !.status = status, !.attempts = n] \in DeliveryRow
    BY <1>1 DEF DeliveryRow
  <2> QED BY <2>1, <2>2, <2>3
<1>4. CASE old.status = "none"
  <2>1. deliveries' = [deliveries EXCEPT ![e][v] = old]
    BY <1>2, <1>4 DEF UpdateDelivery
  <2>2. old.attempts <= old.attempts + 1
    BY <1>1 DEF DeliveryRow
  <2> QED BY <1>1, <2>1, <2>2
<1>5. CASE old.status # "none"
  <2>1. deliveries' = [deliveries EXCEPT ![e][v] = row]
    BY <1>5 DEF UpdateDelivery
  <2>2. row.attempts <= old.attempts + 1
    BY <1>1, <1>3 DEF DeliveryRow
  <2> QED BY <1>3, <2>1, <2>2
<1> QED BY <1>4, <1>5

LEMMA RecordTypes ==
    ASSUME BusInv, BusTypes, NEW v \in Event, NEW status \in {"success", "failed"},
           UpdateDelivery(v, status),
           NEW s, <<sending[v], s>> \in {<<"record", "mark">>, <<"caught", "caughtMark">>},
           SendNext(v, s),
           UNCHANGED <<eventLog, endpoints, dispatches, posts, eligible, incidents>>
    PROVE  BusTypes'
<1> DEFINE d == dispatches[v]
           e == d.target
<1>1. sending[v] \in {"record", "caught"} /\ s \in {"mark", "caughtMark"}
  OBVIOUS
<1>2. e \in Endpoint /\ d \in Dispatch /\ deliveries[e][v] \in DeliveryRow
  BY <1>1, TargetOf, BusTypesRest DEF Busy
<1>3. /\ deliveries[e][v].attempts <= 1
      /\ s = "mark" => deliveries[e][v].attempts = 0
  BY <1>1, <1>2, BusTypesRest DEF Tried, DeliveryRow
<1>4. PICK row \in DeliveryRow :
              /\ deliveries' = [deliveries EXCEPT ![e][v] = row]
              /\ row.attempts <= deliveries[e][v].attempts + 1
  BY <1>2, <1>3, UpdateDeliveryTypes
<1>5. sending' = [sending EXCEPT ![v] = s] /\ s \in Sending
  BY <1>1 DEF SendNext, Sending
<1>6. \A x \in Endpoint : Waits(x, s, d) => x # e /\ Waits(x, sending[v], d)
  BY <1>1 DEF Waits
<1>7. Tried(e, s, d, row)
  <2>1. row.attempts \in 0..2 /\ deliveries[e][v].attempts \in 0..2
    BY <1>2 DEF DeliveryRow
  <2>2. s = "mark" => row.attempts <= 1
    BY <1>3, <1>4, <2>1
  <2> QED BY <1>1, <1>2, <1>6, <2>2 DEF Tried
<1>8. \A x \in Endpoint \ {e} : Tried(x, s, d, deliveries[x][v])
  BY <1>1, <1>6, BusTypesRest DEF Tried
<1>9. dispatches' = [dispatches EXCEPT ![v] = d]
  BY DEF BusTypes, BusTypeOK
<1>10. /\ eventLog' \subseteq Event /\ endpoints' \in [Endpoint -> EndpointRow]
       /\ posts' \in [Endpoint -> [Event -> Receipt]]
       /\ eligible' \in [Endpoint -> [Event -> SUBSET Secret]]
  BY BusTypesRest
<1> HIDE DEF d, e
<1> QED BY <1>2, <1>4, <1>5, <1>7, <1>8, <1>9, <1>10, DispatchTypes

LEMMA VerdictIs ==
    ASSUME NEW v \in Event PROVE Verdict(v) \in {"success", "failed"}
BY DEF Verdict

LEMMA RecordAnswerTypes ==
    ASSUME BusInv, BusTypes, NEW v \in Event, RecordAnswer(v) \/ RecordError(v) PROVE BusTypes'
<1>1. CASE RecordAnswer(v)
  <2> DEFINE status == Verdict(v)
  <2>1. status \in {"success", "failed"} /\ UpdateDelivery(v, status)
    BY <1>1, VerdictIs DEF RecordAnswer
  <2> HIDE DEF status
  <2> QED BY <1>1, <2>1, RecordTypes DEF RecordAnswer
<1>2. CASE RecordError(v)
  BY <1>2, RecordTypes DEF RecordError
<1> QED BY <1>1, <1>2

(* Only the place of a dispatch changes, from one statement about its      *)
(* target to the next.                                                     *)
LEMMA GoOnTypes ==
    ASSUME BusTypes, NEW v \in Event, NEW s, NEW faulty \in BOOLEAN,
           \/ sending[v] \in {"record", "mark", "retry"} /\ s = "caught"
           \/ sending[v] = "mark" /\ s = "retry"
           \/ sending[v] = "caughtMark" /\ s = "caughtRetry",
           SendNext(v, s),
           UNCHANGED <<eventLog, deliveries, posts, eligible>>,
           \/ UNCHANGED dispatches
           \/ SetDispatch(v, [dispatches[v] EXCEPT !.faulty = TRUE]),
           endpoints' \in [Endpoint -> EndpointRow], Incident \/ UNCHANGED incidents
    PROVE  BusTypes'
<1>1. sending' = [sending EXCEPT ![v] = s] /\ s \in Sending
  BY DEF SendNext, Sending
<1>2. PICK d \in Dispatch :
         /\ \/ dispatches' = [dispatches EXCEPT ![v] = d]
            \/ d = dispatches[v] /\ UNCHANGED dispatches
         /\ d.todo = dispatches[v].todo /\ d.target = dispatches[v].target
  <2> DEFINE d2 == [dispatches[v] EXCEPT !.faulty = TRUE]
  <2>1. /\ d2 \in Dispatch /\ d2.todo = dispatches[v].todo /\ d2.target = dispatches[v].target
        /\ dispatches[v] \in Dispatch
    BY BusTypesRest DEF Dispatch
  <2>2. UNCHANGED dispatches \/ dispatches' = [dispatches EXCEPT ![v] = d2]
    BY DEF SetDispatch
  <2> HIDE DEF d2
  <2> QED BY <2>1, <2>2
<1>3. ASSUME NEW x \in Endpoint PROVE Tried(x, s, d, deliveries[x][v])
  <2>1. Waits(x, s, d) => Waits(x, sending[v], dispatches[v])
    BY <1>2 DEF Waits
  <2>2. CASE s = "caughtRetry"
    BY <2>1, <2>2, BusTypesRest DEF Tried
  <2>3. CASE s \in {"caught", "retry"}
    <3>1. sending[v] \in {"record", "mark", "retry"}
      BY <2>3
    <3> QED BY <1>2, <2>1, <2>3, <3>1, BusTypesRest DEF Tried, DeliveryRow, Waits
  <2> QED BY <2>2, <2>3
<1>4. /\ eventLog' \subseteq Event /\ posts' \in [Endpoint -> [Event -> Receipt]]
      /\ eligible' \in [Endpoint -> [Event -> SUBSET Secret]]
  BY BusTypesRest
<1> QED BY <1>1, <1>2, <1>3, <1>4, StayTypes

(* A busy dispatch leaves its target.                                      *)
LEMMA LeaveTargetTypes ==
    ASSUME BusInv, BusTypes, NEW v \in Event, sending[v] \in Busy, NEW faulty \in BOOLEAN,
           Leave(v, dispatches[v].target, faulty),
           UNCHANGED <<eventLog, posts, eligible>>,
           UNCHANGED deliveries \/
              \E row \in DeliveryRow :
                 deliveries' = [deliveries EXCEPT ![dispatches[v].target][v] = row],
           endpoints' \in [Endpoint -> EndpointRow], Incident \/ UNCHANGED incidents
    PROVE  BusTypes'
<1>1. PICK e \in Endpoint : e = dispatches[v].target
  BY TargetOf
<1>2. Place(sending[v], dispatches[v])
  BY DEF BusInv
<1> QED BY <1>1, <1>2, LeaveTypes

LEMMA MarkTypes ==
    ASSUME BusInv, BusTypes, NEW v \in Event, MarkEndpoint(v) \/ MarkError(v) PROVE BusTypes'
<1>1. sending[v] \in Busy /\ dispatches[v].target \in Endpoint
  BY TargetOf DEF MarkEndpoint, MarkError, Busy
<1>2. endpoints' \in [Endpoint -> EndpointRow]
  <2>1. PICK status \in {"success", "failed"} : UpdateLast(v, status)
    BY VerdictIs DEF MarkEndpoint, MarkError
  <2> QED BY <1>1, <2>1, UpdateLastTypes
<1>3. CASE MarkEndpoint(v)
  BY <1>1, <1>2, <1>3, LeaveTargetTypes, GoOnTypes DEF MarkEndpoint
<1>4. CASE MarkError(v)
  BY <1>2, <1>4, GoOnTypes DEF MarkError
<1> QED BY <1>3, <1>4

LEMMA ScheduleRetryTypes ==
    ASSUME BusInv, BusTypes, NEW v \in Event, ScheduleRetry(v) PROVE BusTypes'
<1>1. sending[v] \in Busy
  BY DEF ScheduleRetry, Busy
<1>2. PICK e \in Endpoint : e = dispatches[v].target
  BY <1>1, TargetOf
<1>3. UNCHANGED deliveries \/
         \E row \in DeliveryRow : deliveries' = [deliveries EXCEPT ![e][v] = row]
  <2> DEFINE old == deliveries[e][v]
  <2>1. old \in DeliveryRow
    BY BusTypesRest
  <2>2. [old EXCEPT !.status = "dead"] \in DeliveryRow /\ [old EXCEPT !.retry = TRUE] \in DeliveryRow
    BY <2>1 DEF DeliveryRow
  <2>3. \/ UNCHANGED deliveries
        \/ deliveries' = [deliveries EXCEPT ![e][v] = [old EXCEPT !.status = "dead"]]
        \/ deliveries' = [deliveries EXCEPT ![e][v] = [old EXCEPT !.retry = TRUE]]
    BY <1>2 DEF ScheduleRetry
  <2> QED BY <2>2, <2>3
<1>4. Leave(v, e, FALSE) /\ UNCHANGED <<eventLog, endpoints, posts, eligible, incidents>>
  BY <1>2 DEF ScheduleRetry
<1> QED BY <1>1, <1>2, <1>3, <1>4, BusTypesRest, LeaveTargetTypes

(* Dispatches end where they are.                                          *)
LEMMA DeathTypes ==
    ASSUME BusTypes, UNCHANGED <<eventLog, endpoints, deliveries, dispatches, posts, eligible>>,
           Incident, sending' \in [Event -> Sending],
           \A v \in Event : sending'[v] \in {sending[v], "dead"}
    PROVE  BusTypes'
<1>1. ASSUME NEW e \in Endpoint, NEW v \in Event
      PROVE  Tried(e, sending'[v], dispatches'[v], deliveries'[e][v])
  <2>1. Waits(e, "dead", dispatches[v]) => Waits(e, sending[v], dispatches[v])
    BY DEF Waits
  <2>2. Tried(e, "dead", dispatches[v], deliveries[e][v])
    BY <2>1, BusTypesRest DEF Tried
  <2> QED BY <2>2, BusTypesRest
<1>2. incidents' \in 0..MaxIncidents
  BY IncidentTyped DEF BusTypes
<1> QED BY <1>1, <1>2 DEF BusTypes, BusTypeOK

LEMMA FaultTypes ==
    ASSUME BusInv, BusTypes, NEW v \in Event, DispatchFault(v) \/ EmitFails(v) PROVE BusTypes'
<1>1. CASE SelectFails(v) \/ EmitFails(v)
  <2>1. sending' = [sending EXCEPT ![v] = "dead"] /\ "dead" \in Sending
    BY <1>1 DEF SelectFails, EmitFails, SendNext, Sending
  <2>2. sending \in [Event -> Sending]
    BY DEF BusTypes, BusTypeOK
  <2> QED BY <1>1, <2>1, <2>2, DeathTypes DEF SelectFails, EmitFails
<1>2. CASE StatementFails(v)
  <2>1. UNCHANGED <<eventLog, endpoints, deliveries, posts, eligible>> /\ Incident
    BY <1>2 DEF StatementFails
  <2>2. ASSUME sending[v] = "next", NEW e \in dispatches[v].todo, Leave(v, e, TRUE)
        PROVE  BusTypes'
    <3>1. e \in Endpoint
      BY BusTypesRest DEF Dispatch
    <3>2. Place(sending[v], dispatches[v])
      BY DEF BusInv
    <3> QED BY <2>1, <2>2, <3>1, <3>2, BusTypesRest, LeaveTypes DEF Busy
  <2>3. CASE /\ sending[v] \in {"record", "mark", "retry"}
             /\ SendNext(v, "caught")
             /\ SetDispatch(v, [dispatches[v] EXCEPT !.faulty = TRUE])
    BY <2>1, <2>3, BusTypesRest, GoOnTypes
  <2>4. CASE /\ sending[v] \in {"caught", "caughtMark", "caughtRetry"}
             /\ Leave(v, dispatches[v].target, TRUE)
    BY <2>1, <2>4, BusTypesRest, LeaveTargetTypes DEF Busy
  <2> QED BY <1>2, <2>2, <2>3, <2>4 DEF StatementFails
<1> QED BY <1>1, <1>2 DEF DispatchFault

LEMMA DispatchStepTypes ==
    ASSUME BusInv, BusTypes, NEW v \in Event, DispatchStep(v) \/ DispatchFault(v)
    PROVE  BusTypes'
BY SelectEndpointsTypes, InsertDeliveryTypes, PostTypes, RecordAnswerTypes, MarkTypes,
   ScheduleRetryTypes, FaultTypes DEF DispatchStep

LEMMA StartTypes ==
    ASSUME BusTypes, NEW v \in Event, NEW type \in EventType, Start(v, type),
           UNCHANGED <<endpoints, deliveries, posts>>, eventLog' \subseteq Event,
           Incident \/ UNCHANGED incidents
    PROVE  BusTypes'
<1> DEFINE d == [NoDispatch EXCEPT !.type = type]
<1>1. d \in Dispatch
  BY DEF NoDispatch, Dispatch
<1>2. /\ sending[v] = "idle" /\ sending' = [sending EXCEPT ![v] = "select"]
      /\ dispatches' = [dispatches EXCEPT ![v] = d] /\ "select" \in Sending
  BY DEF Start, SetDispatch, SendNext, Sending
<1> HIDE DEF d
<1>3. eligible' \in [Endpoint -> [Event -> SUBSET Secret]]
  <2> DEFINE first(e) == IF Due(endpoints[e], type) THEN {endpoints[e].secret} ELSE {}
             row(e) == [eligible[e] EXCEPT ![v] = first(e)]
  <2>1. eligible' = [e \in Endpoint |-> row(e)]
    BY DEF Start
  <2>2. ASSUME NEW e \in Endpoint PROVE row(e) \in [Event -> SUBSET Secret]
    <3>1. endpoints[e].secret \in Secret
      BY BusTypesRest DEF EndpointRow
    <3>2. first(e) \in SUBSET Secret /\ eligible[e] \in [Event -> SUBSET Secret]
      BY <3>1, BusTypesRest
    <3> HIDE DEF first
    <3> QED BY <3>2
  <2> HIDE DEF row
  <2> QED BY <2>1, <2>2
<1>4. \A x \in Endpoint : Tried(x, "select", d, deliveries[x][v])
  BY <1>2, BusTypesRest DEF Tried, Waits
<1>5. endpoints' \in [Endpoint -> EndpointRow] /\ posts' \in [Endpoint -> [Event -> Receipt]]
  BY BusTypesRest
<1> QED BY <1>1, <1>2, <1>3, <1>4, <1>5, StayTypes

LEMMA BecomesTypes ==
    ASSUME BusTypes, NEW e \in Endpoint, NEW row \in EndpointRow, Becomes(e, row),
           \/ UNCHANGED deliveries
           \/ deliveries' = [deliveries EXCEPT ![e] = [v \in Event |-> NoDelivery]],
           Incident, UNCHANGED <<eventLog, sending, dispatches, posts>>
    PROVE  BusTypes'
<1>1. endpoints' \in [Endpoint -> EndpointRow]
  BY BusTypesRest DEF Becomes
<1>2. eligible' \in [Endpoint -> [Event -> SUBSET Secret]]
  <2> DEFINE added == [v \in Event |-> IF Underway(v) /\ Due(row, dispatches[v].type)
                                       THEN eligible[e][v] \cup {row.secret} ELSE eligible[e][v]]
  <2>1. eligible' = [eligible EXCEPT ![e] = added]
    BY DEF Becomes
  <2>2. row.secret \in Secret /\ \A v \in Event : eligible[e][v] \subseteq Secret
    BY BusTypesRest DEF EndpointRow
  <2>3. added \in [Event -> SUBSET Secret]
    BY <2>2
  <2> HIDE DEF added
  <2> QED BY <2>1, <2>3, BusTypesRest
<1>3. /\ NoDelivery \in DeliveryRow /\ NoDelivery.attempts = 0
      /\ deliveries \in [Endpoint -> [Event -> DeliveryRow]]
  BY DEF NoDelivery, DeliveryRow, BusTypes, BusTypeOK
<1>4. /\ deliveries' \in [Endpoint -> [Event -> DeliveryRow]]
      /\ \A x \in Endpoint, v \in Event : deliveries'[x][v] \in {deliveries[x][v], NoDelivery}
  <2>1. CASE UNCHANGED deliveries
    BY <1>3, <2>1
  <2>2. CASE deliveries' = [deliveries EXCEPT ![e] = [v \in Event |-> NoDelivery]]
    <3>1. [v \in Event |-> NoDelivery] \in [Event -> DeliveryRow]
      BY <1>3
    <3>2. \A x \in Endpoint : deliveries'[x] = IF x = e THEN [v \in Event |-> NoDelivery]
                                               ELSE deliveries[x]
      BY <1>3, <2>2
    <3> QED BY <1>3, <2>2, <3>1, <3>2
  <2> QED BY <2>1, <2>2
<1>5. ASSUME NEW x \in Endpoint, NEW v \in Event
      PROVE  Tried(x, sending'[v], dispatches'[v], deliveries'[x][v])
  <2>1. Tried(x, sending[v], dispatches[v], NoDelivery)
    BY <1>3 DEF Tried
  <2> QED BY <1>4, <2>1, BusTypesRest
<1>6. incidents' \in 0..MaxIncidents
  BY IncidentTyped DEF BusTypes
<1> QED BY <1>1, <1>2, <1>4, <1>5, <1>6 DEF BusTypes, BusTypeOK

LEMMA ManageTypes ==
    ASSUME BusTypes, Manage PROVE BusTypes'
<1>1. PICK e \in Endpoint :
         \/ \E types \in Subscriptions : CreateEndpoint(e, types)
         \/ \E active \in BOOLEAN, types \in Subscriptions : UpdateEndpoint(e, active, types)
         \/ RotateSecret(e) \/ DeleteEndpoint(e)
  BY DEF Manage
<1>2. endpoints[e] \in EndpointRow
  BY BusTypesRest
<1>3. Subscriptions \subseteq SUBSET EventType /\ 1 \in Secret
  BY TypeAssumption, BusBounds DEF Secret
<1>4. ASSUME NEW types \in Subscriptions, CreateEndpoint(e, types) PROVE BusTypes'
  <2> DEFINE row == [state |-> "live", active |-> TRUE, events |-> types, secret |-> 1,
                     last |-> "pending"]
  <2>1. row \in EndpointRow
    BY <1>3 DEF EndpointRow
  <2> QED BY <1>4, <2>1, BecomesTypes DEF CreateEndpoint
<1>5. ASSUME NEW active \in BOOLEAN, NEW types \in Subscriptions, UpdateEndpoint(e, active, types)
      PROVE  BusTypes'
  <2>1. [endpoints[e] EXCEPT !.active = active, !.events = types] \in EndpointRow
    BY <1>2, <1>3 DEF EndpointRow
  <2> QED BY <1>5, <2>1, BecomesTypes DEF UpdateEndpoint
<1>6. CASE RotateSecret(e)
  <2>1. endpoints[e].secret + 1 \in Secret
    BY <1>2, <1>6, BusBounds DEF EndpointRow, Secret, RotateSecret
  <2>2. [endpoints[e] EXCEPT !.secret = @ + 1] \in EndpointRow
    BY <1>2, <2>1 DEF EndpointRow
  <2> QED BY <1>6, <2>2, BecomesTypes DEF RotateSecret
<1>7. CASE DeleteEndpoint(e)
  <2>1. [endpoints[e] EXCEPT !.state = "deleted"] \in EndpointRow
    BY <1>2 DEF EndpointRow
  <2> QED BY <1>7, <2>1, BecomesTypes DEF DeleteEndpoint
<1> QED BY <1>1, <1>4, <1>5, <1>6, <1>7

(* The type of what a request announces, whose kind RolesTypeOK knows.     *)
LEMMA EmitTypes ==
    ASSUME BusTypes, RolesTypeOK, NEW r \in Request, Emit(r) PROVE BusTypes'
<1>1. r \in Event /\ requests[r].kind \in Kind
  BY EventAssumption DEF RolesTypeOK, Local
<1> DEFINE type == TypeOf(requests[r].kind)
<1>2. type \in EventType
  BY <1>1, TypeOfAssumption
<1> HIDE DEF type
<1>3. CASE EmitEvent(r, type)
  <2>1. eventLog' \subseteq Event
    BY <1>1, <1>3, BusTypesRest DEF EmitEvent
  <2> QED BY <1>1, <1>2, <1>3, <2>1, StartTypes DEF EmitEvent
<1>4. CASE EmitFails(r)
  <2>1. sending' = [sending EXCEPT ![r] = "dead"] /\ "dead" \in Sending
    BY <1>4 DEF EmitFails, SendNext, Sending
  <2>2. sending \in [Event -> Sending]
    BY DEF BusTypes, BusTypeOK
  <2>3. \A v \in Event : sending'[v] \in {sending[v], "dead"}
    BY <2>1, <2>2
  <2> QED BY <1>4, <2>1, <2>2, <2>3, DeathTypes DEF EmitFails
<1> QED BY <1>3, <1>4 DEF Emit, type

LEMMA BusTypesStep == BusInv /\ BusTypes /\ RolesTypeOK /\ [Next]_vars => BusTypes'
<1> SUFFICES ASSUME BusInv, BusTypes, RolesTypeOK, [Next]_vars PROVE BusTypes'
  OBVIOUS
<1>1. ASSUME NEW r \in Request, (Arrival(r) /\ UNCHANGED busVars) \/ Serve(r) PROVE BusTypes'
  BY <1>1, BusTypesStutter DEF Serve
<1>2. ASSUME NEW r \in Request, RequestFault(r) PROVE BusTypes'
  <2>1. incidents' \in 0..MaxIncidents
    BY <1>2, IncidentTyped DEF BusTypes, RequestFault
  <2> QED BY <1>2, <2>1 DEF BusTypes, BusTypeOK, RequestFault
<1>3. CASE Background
  <2>1. ASSUME NEW v \in Event, TestDelivery(v) PROVE BusTypes'
    <3>1. eventLog' \subseteq Event
      BY <2>1, BusTypesRest DEF TestDelivery
    <3> QED BY <2>1, <3>1, TypeAssumption, StartTypes DEF TestDelivery
  <2> QED BY <1>3, <2>1, ManageTypes, DispatchStepTypes DEF Background
<1>4. CASE Crash
  <2>1. sending' = [v \in Event |-> IF Underway(v) THEN "dead" ELSE sending[v]]
    BY <1>4 DEF Crash, LoseDispatches
  <2>2. "dead" \in Sending /\ \A v \in Event : sending[v] \in Sending
    BY BusTypesRest DEF Sending
  <2>3. sending' \in [Event -> Sending] /\ \A v \in Event : sending'[v] \in {sending[v], "dead"}
    BY <2>1, <2>2
  <2> QED BY <1>4, <2>3, DeathTypes DEF Crash
<1>5. CASE UNCHANGED vars
  BY <1>5, BusTypesStutter DEF vars
<1> QED BY <1>1, <1>2, <1>3, <1>4, <1>5, EmitTypes DEF Next

LEMMA IsRolesStep == [Next]_vars => [RolesNext]_roleVars
<1> SUFFICES ASSUME [Next]_vars PROVE [RolesNext]_roleVars
  OBVIOUS
<1>1. ASSUME NEW r \in Request, Arrival(r) \/ Serve(r) \/ Emit(r) \/ RequestFault(r)
      PROVE  RolesNext
  BY <1>1 DEF Serve, Emit, RequestFault, RolesNext
<1>2. CASE Background
  BY <1>2 DEF Background
<1>3. CASE Crash
  BY <1>3 DEF Crash, RolesNext
<1>4. CASE UNCHANGED vars
  BY <1>4 DEF vars
<1> QED BY <1>1, <1>2, <1>3, <1>4 DEF Next

(* What the administration does of users, roles and permissions is what    *)
(* Roles says: the events it sends change nothing of them (emitEvent of    *)
(* services/events.ts never fails its caller), and a failure of theirs is  *)
(* a failure there.  So every theorem of RolesProofs holds here too.       *)
THEOREM AdministrationIsRoles == Spec => RolesSpec
<1>1. Init => RolesInit
  BY DEF Init
<1> QED BY <1>1, IsRolesStep, PTL DEF Spec, RolesSpec

(* Every variable keeps its type; a delivery is counted twice at most.     *)
THEOREM AdministrationTypeCorrect == Spec => []TypeOK
<1>1. Init => BusInv /\ BusTypes
  BY BusInitially, BusTypesInitially DEF Init
<1>2. BusInv /\ BusTypes /\ RolesTypeOK /\ [Next]_vars => (BusInv /\ BusTypes)'
  BY BusInvStep, BusTypesStep
<1>3. BusInv /\ BusTypes /\ RolesTypeOK => TypeOK
  BY DEF BusTypes, TypeOK
<1> QED BY <1>1, <1>2, <1>3, AdministrationIsRoles, RolesTypeCorrect, PTL DEF Spec
=============================================================================
