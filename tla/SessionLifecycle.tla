-------------------------- MODULE SessionLifecycle --------------------------
(***************************************************************************)
(* What the session service promises its callers, without tables, requests *)
(* or statements: a session is opened once, holds a redeemable refresh     *)
(* credential for one stretch of its life, and once it is closed or its    *)
(* credential is spent, neither ever comes back.                           *)
(*                                                                         *)
(* RefreshSessions implements this specification.                          *)
(***************************************************************************)

CONSTANT Session            \* the sessions that may ever be opened

VARIABLES
    credential,             \* [Session -> Credential]
    closed                  \* the sessions that have been revoked

vars == <<credential, closed>>

(* "absent": not opened yet; "fresh": some refresh token can be redeemed;  *)
(* "spent": none can, and none ever will.                                  *)
Credential == {"absent", "fresh", "spent"}

TypeOK ==
    /\ credential \in [Session -> Credential]
    /\ closed \subseteq Session

Init ==
    /\ credential = [s \in Session |-> "absent"]
    /\ closed = {}

Open(s) ==
    /\ credential[s] = "absent"
    /\ credential' = [credential EXCEPT ![s] = "fresh"]
    /\ UNCHANGED closed

(* The credentials of the sessions S are used up or withdrawn together.    *)
Spend(S) ==
    /\ \A s \in S : credential[s] = "fresh"
    /\ credential' = [s \in Session |->
                        IF s \in S THEN "spent" ELSE credential[s]]
    /\ UNCHANGED closed

(* The sessions S are revoked together; one that never opened cannot be.   *)
Close(S) ==
    /\ \A s \in S : credential[s] # "absent"
    /\ closed' = closed \cup S
    /\ UNCHANGED credential

Next ==
    \/ \E s \in Session : Open(s)
    \/ \E S \in SUBSET Session : Spend(S) \/ Close(S)

Spec == Init /\ [][Next]_vars
=============================================================================
