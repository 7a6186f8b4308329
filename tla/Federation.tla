----------------------------- MODULE Federation -----------------------------
(***************************************************************************)
(* The provider, its keys and the web application together: a code is      *)
(* issued to whoever holds an access token the API admits, every token is  *)
(* signed with the current key and verified with the current or the        *)
(* previous one, and the death of the process takes the keys and the calls *)
(* it was serving.                                                         *)
(***************************************************************************)
EXTENDS Provider, WebClient

CONSTANTS
    Scenarios               \* what may happen in a behaviour: the slots that
                            \* are used, and how many faults of all kinds

VARIABLE incidents          \* the faults that may still happen

vars == <<keyVars, providerVars, webVars, incidents>>

Slot == Rotation \cup Admin \cup Code \cup Exchange \cup Call
ASSUME ScenariosAssumption == Scenarios \subseteq [slots : SUBSET Slot, incidents : Nat]

(* A behaviour is one of the scenarios.                                    *)
Init ==
    /\ KeysInit /\ ProviderInit /\ WebInit
    /\ \E scenario \in Scenarios :
       LET used == scenario.slots IN
        /\ incidents = scenario.incidents
        /\ \A r \in Rotation : rotations[r] = "idle" <=> r \in used
        /\ \A a \in Admin : RegistryAt(a, "idle") <=> a \in used
        /\ \A c \in Code : codes[c] = "idle" <=> c \in used
        /\ \A x \in Exchange : ExchangeAt(x, "idle") <=> x \in used
        /\ \A c \in Call : calls[c].step = "idle" <=> c \in used

Incident == incidents > 0 /\ incidents' = incidents - 1

UnchangedProvider == UnchangedRegistry /\ UnchangedGrants

Rotate == /\ \E r \in Rotation : BeginRotation(r) \/ EndRotation(r)
          /\ UnchangedProvider
          /\ UNCHANGED <<webVars, incidents>>

(* GET /oidc/authorize with the token of the page.                         *)
Authorize(c) ==
    /\ Admits(tokens)
    /\ Validate(c)
    /\ UnchangedRegistry
    /\ UNCHANGED <<keyVars, webVars, incidents>>

Grant(c) ==
    /\ IssueAuthorizationCode(c)
    /\ UnchangedRegistry
    /\ UNCHANGED <<keyVars, webVars, incidents>>

Provide ==
    /\ (\E a \in Admin : RegistryStep(a)) \/ (\E x \in Exchange : ExchangeStep(x))
    /\ UNCHANGED <<webVars, incidents>>

Browse == WebNext /\ UnchangedProvider /\ UNCHANGED incidents

ProviderFault ==
    /\ Incident
    /\ \/ (\E a \in Admin : RegistryFails(a)) /\ UnchangedGrants
       \/ (\E c \in Code : DropCode(c)) /\ UnchangedRegistry
       \/ (\E x \in Exchange : ExchangeFails(x)) /\ UnchangedRegistry
    /\ UNCHANGED <<keyVars, webVars>>

BrowserFault == Incident /\ WebFault /\ UnchangedProvider

Crash == Incident /\ Restart /\ LoseCalls /\ UNCHANGED webVars

Next ==
    \/ Rotate
    \/ \E c \in Code : Authorize(c) \/ Grant(c)
    \/ Provide
    \/ Browse
    \/ ProviderFault
    \/ BrowserFault
    \/ Crash

Spec == Init /\ [][Next]_vars

TypeOK == KeysTypeOK /\ ProviderTypeOK /\ WebTypeOK /\ incidents \in Nat
=============================================================================
