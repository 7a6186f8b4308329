---------------------------- MODULE SigningKeys ----------------------------
(***************************************************************************)
(* The keys access tokens are signed with: apps/api/src/services/jwt.ts.   *)
(*                                                                         *)
(* A process keeps two key pairs in memory, the current and the previous.  *)
(* A rotation moves the current one to the previous place, waits for a new *)
(* pair and makes it the current one; the callers of other routes run in   *)
(* between, other rotations among them.  A restart forgets every pair and  *)
(* starts with the environment's, or else with a new one.                  *)
(***************************************************************************)
EXTENDS Naturals

CONSTANTS
    Rotation,               \* calls of POST /oidc/rotate-keys
    Configured,             \* JWT_PRIVATE_KEY and JWT_PUBLIC_KEY are set
    Bearer,                 \* what tokens are signed for
    None                    \* what is in a place where there is nothing

ASSUME ConfiguredAssumption == Configured \in BOOLEAN
ASSUME NoneAssumption == None \notin Nat

VARIABLES
    current, previous,      \* currentKeyPair, previousKeyPair
    made,                   \* how many key pairs there have been
    rotations,              \* where each rotation stands
    completed,              \* how many have made their pair the current one
    boots,                  \* how often the process has been restarted
    overlapped,             \* two rotations have waited for a pair at a time
    signed                  \* the access tokens signed so far

keyVars == <<current, previous, made, rotations, completed, boots, overlapped, signed>>

FirstKey == 1               \* the environment's key, when there is one

(* "rotation" and "boot" say when the token was signed.                    *)
AccessToken == [bearer : Bearer, key : Nat, rotation : Nat, boot : Nat]

KeysTypeOK ==
    /\ current \in 1..made
    /\ previous \in (1..made) \cup {None}
    /\ made \in Nat
    /\ rotations \in [Rotation -> {"idle", "generating", "over"}]
    /\ completed \in Nat
    /\ boots \in Nat
    /\ overlapped \in BOOLEAN
    /\ signed \subseteq AccessToken

KeysInit ==
    /\ current = FirstKey
    /\ previous = None
    /\ made = FirstKey
    /\ rotations \in [Rotation -> {"idle", "over"}]
    /\ completed = 0
    /\ boots = 0
    /\ overlapped = FALSE
    /\ signed = {}

-----------------------------------------------------------------------------
(* A rotation that does not keep the key it replaces.                      *)
BeginForgetfully(r) ==
    /\ rotations[r] = "idle"
    /\ rotations' = [rotations EXCEPT ![r] = "generating"]
    /\ overlapped' = (overlapped \/ \E q \in Rotation : rotations[q] = "generating")
    /\ UNCHANGED <<current, previous, made, completed, boots, signed>>

(* rotateSigningKeys, up to the first await.                               *)
BeginRotation(r) ==
    /\ rotations[r] = "idle"
    /\ rotations' = [rotations EXCEPT ![r] = "generating"]
    /\ previous' = current
    /\ overlapped' = (overlapped \/ \E q \in Rotation : rotations[q] = "generating")
    /\ UNCHANGED <<current, made, completed, boots, signed>>

EndRotation(r) ==
    /\ rotations[r] = "generating"
    /\ rotations' = [rotations EXCEPT ![r] = "over"]
    /\ made' = made + 1
    /\ current' = made + 1
    /\ completed' = completed + 1
    /\ UNCHANGED <<previous, boots, overlapped, signed>>

(* initializeSigningKeys in a new process.                                 *)
Restart ==
    /\ boots' = boots + 1
    /\ made' = IF Configured THEN made ELSE made + 1
    /\ current' = IF Configured THEN FirstKey ELSE made + 1
    /\ previous' = None
    /\ rotations' = [r \in Rotation |-> IF rotations[r] = "generating" THEN "over" ELSE rotations[r]]
    /\ overlapped' = FALSE
    /\ UNCHANGED <<completed, signed>>

(* issueAccessToken takes the current pair before it first waits.          *)
NewToken(b) == [bearer |-> b, key |-> current, rotation |-> completed, boot |-> boots]

Sign(t) ==
    /\ signed' = signed \cup {t}
    /\ UNCHANGED <<current, previous, made, rotations, completed, boots, overlapped>>

(* getJWKS: the keys GET /oidc/jwks publishes for whoever verifies tokens  *)
(* elsewhere.                                                              *)
JWKS == {current, previous} \ {None}

(* verifyAccessToken tries the same two, the current key first; the time   *)
(* to live of a token is its holder's business.                            *)
Verifies(t) == t.key \in JWKS

-----------------------------------------------------------------------------
Generating == \E r \in Rotation : rotations[r] = "generating"

(* A token is good until the second rotation after it was signed begins:   *)
(* it survives one in full, and one that was waiting for its pair when the *)
(* token was signed, as long as the process lives and no two rotations     *)
(* overlap (jwt.ts:76-98: two that do both keep the pair before them, and  *)
(* the pair of the first to end is forgotten at once).                     *)
GracePeriod ==
    \A t \in signed :
        /\ t.boot = boots
        /\ ~overlapped
        /\ \/ completed = t.rotation
           \/ completed = t.rotation + 1 /\ ~Generating
        => Verifies(t)
=============================================================================
