-------------------------- MODULE FederationProofs --------------------------
(***************************************************************************)
(* Proofs about Federation.  The keys, the grants of codes and the         *)
(* registry of clients share no variable: each has an inductive invariant  *)
(* of its own, and a step of Federation is a step of at most one action of *)
(* each.                                                                   *)
(***************************************************************************)
EXTENDS Federation, FiniteSetTheorems, TLAPS

-----------------------------------------------------------------------------
(* The keys.                                                               *)

(* Whoever a token is for.                                                 *)
KeyStep ==
    \/ \E r \in Rotation : BeginRotation(r) \/ EndRotation(r)
    \/ \E b : Sign(NewToken(b))
    \/ Restart

KeyTypes ==
    /\ made \in Nat
    /\ current \in Nat
    /\ completed \in Nat
    /\ boots \in Nat
    /\ rotations \in [Rotation -> {"idle", "generating", "over"}]
    /\ overlapped \in BOOLEAN

(* While one rotation waits for its pair, the previous key is the current. *)
OneWaits ==
    ~overlapped =>
        /\ \A q, r \in Rotation :
              rotations[q] = "generating" /\ rotations[r] = "generating" => q = r
        /\ Generating => previous = current

TokenKey(t) ==
    /\ t.key \in Nat
    /\ t.rotation \in Nat /\ t.rotation <= completed
    /\ t.boot \in Nat /\ t.boot <= boots
    /\ t.boot = boots /\ ~overlapped =>
          /\ t.rotation = completed => t.key = current
          /\ t.rotation + 1 = completed /\ ~Generating => t.key = previous

KeyInv == KeyTypes /\ OneWaits /\ \A t \in signed : TokenKey(t)

LEMMA KeyInitially == KeysInit => KeyInv
<1> SUFFICES ASSUME KeysInit PROVE KeyInv
  OBVIOUS
<1>1. KeyTypes
  BY DEF KeysInit, KeyTypes, FirstKey
<1>2. \A r \in Rotation : rotations[r] # "generating"
  BY DEF KeysInit
<1>3. OneWaits
  BY <1>2 DEF OneWaits, Generating
<1> QED BY <1>1, <1>3 DEF KeysInit, KeyInv

LEMMA BeginRotationKeeps ==
    ASSUME KeyInv, NEW r \in Rotation, BeginRotation(r) PROVE KeyInv'
<1> USE DEF KeyInv, BeginRotation
<1>1. KeyTypes'
  BY DEF KeyTypes
<1>2. Generating'
  BY DEF KeyTypes, Generating
<1>3. OneWaits'
  BY DEF OneWaits, KeyTypes, Generating
<1>4. \A t \in signed : TokenKey(t)'
  BY <1>2 DEF TokenKey, KeyTypes
<1> QED BY <1>1, <1>3, <1>4

LEMMA EndRotationKeeps ==
    ASSUME KeyInv, NEW r \in Rotation, EndRotation(r) PROVE KeyInv'
<1> USE DEF KeyInv, EndRotation
<1>1. KeyTypes'
  BY DEF KeyTypes
<1>2. Generating
  BY DEF Generating
<1>3. ~overlapped => ~Generating'
  BY DEF OneWaits, KeyTypes, Generating
<1>4. OneWaits'
  BY <1>3 DEF OneWaits, KeyTypes, Generating
<1>5. ASSUME NEW t \in signed PROVE TokenKey(t)'
  <2>1. TokenKey(t)
    OBVIOUS
  <2>2. ASSUME t.boot = boots, ~overlapped, t.rotation = completed
        PROVE  t.key = previous
    BY <1>2, <2>1, <2>2 DEF OneWaits, TokenKey
  <2> QED BY <2>1, <2>2 DEF TokenKey, KeyTypes
<1> QED BY <1>1, <1>4, <1>5

LEMMA SignKeeps ==
    ASSUME KeyInv, NEW b, Sign(NewToken(b)) PROVE KeyInv'
<1> DEFINE t == NewToken(b)
<1>1. /\ t.key = current /\ t.rotation = completed /\ t.boot = boots
  BY DEF NewToken
<1>2. TokenKey(t)
  BY <1>1 DEF TokenKey, KeyInv, KeyTypes
<1>3. signed' = signed \cup {t}
  BY DEF Sign
<1> HIDE DEF t
<1>4. KeyTypes' /\ OneWaits'
  BY DEF KeyInv, KeyTypes, OneWaits, Generating, Sign
<1>5. \A u \in signed' : TokenKey(u)'
  BY <1>2, <1>3 DEF KeyInv, TokenKey, Generating, Sign
<1> QED BY <1>4, <1>5 DEF KeyInv

LEMMA RestartKeeps ==
    ASSUME KeyInv, Restart PROVE KeyInv'
<1> USE DEF KeyInv, Restart
<1>1. KeyTypes'
  <2>1. current' \in Nat /\ made' \in Nat /\ boots' \in Nat
    BY ConfiguredAssumption DEF KeyTypes, FirstKey
  <2>2. rotations' \in [Rotation -> {"idle", "generating", "over"}]
    BY DEF KeyTypes
  <2> QED BY <2>1, <2>2 DEF KeyTypes
<1>2. \A r \in Rotation : rotations'[r] # "generating"
  BY DEF KeyTypes
<1>3. OneWaits'
  BY <1>2 DEF OneWaits, Generating
<1>4. \A t \in signed : TokenKey(t)'
  BY DEF TokenKey, KeyTypes
<1> QED BY <1>1, <1>3, <1>4

LEMMA KeyStepKeeps == KeyInv /\ [KeyStep]_keyVars => KeyInv'
<1> SUFFICES ASSUME KeyInv, [KeyStep]_keyVars PROVE KeyInv'
  OBVIOUS
<1>1. ASSUME NEW r \in Rotation, BeginRotation(r) PROVE KeyInv'
  BY <1>1, BeginRotationKeeps
<1>2. ASSUME NEW r \in Rotation, EndRotation(r) PROVE KeyInv'
  BY <1>2, EndRotationKeeps
<1>3. ASSUME NEW b, Sign(NewToken(b)) PROVE KeyInv'
  BY <1>3, SignKeeps
<1>4. CASE Restart
  BY <1>4, RestartKeeps
<1>5. CASE UNCHANGED keyVars
  BY <1>5 DEF keyVars, KeyInv, KeyTypes, OneWaits, TokenKey, Generating
<1> QED BY <1>1, <1>2, <1>3, <1>4, <1>5 DEF KeyStep

LEMMA KeyInvImplies == KeyInv => GracePeriod
  BY NoneAssumption DEF KeyInv, KeyTypes, TokenKey, GracePeriod, Verifies, JWKS

(* The page signs in and refreshes; its other steps leave the keys alone.  *)
LEMMA WebSteps == WebNext \/ WebFault => [KeyStep]_keyVars
<1> USE DEF UnchangedServer
<1>1. ASSUME NEW c \in Call, ServeSignIn(c) PROVE [KeyStep]_keyVars
  BY <1>1 DEF ServeSignIn, KeyStep
<1>2. CASE ServeRefresh
  BY <1>2 DEF ServeRefresh, KeyStep
<1>3. ASSUME NEW c \in Call, ServeLogout(c) PROVE UNCHANGED keyVars
  BY <1>3 DEF ServeLogout
<1>4. ASSUME NEW c \in Call, WebStep(c), ~ServeSignIn(c), ~ServeLogout(c)
      PROVE  UNCHANGED keyVars
  BY <1>4 DEF WebStep, SubmitLogin, SubmitCode, GoBack, FinishSignIn, Load, ServeLoad,
              FinishLoad, RefreshSession, SubmitLogout, FinishLogout
<1>5. CASE Hydrate \/ FinishRefresh
  BY <1>5 DEF Hydrate, FinishRefresh
<1>6. CASE WebFault
  BY <1>6 DEF WebFault, RefreshFails, Expire, Reload, CallFails
<1> QED BY <1>1, <1>2, <1>3, <1>4, <1>5, <1>6 DEF WebNext

LEMMA ProvideSteps == Provide => [KeyStep]_keyVars
<1>1. ASSUME NEW a \in Admin, RegistryStep(a) PROVE UNCHANGED keyVars
  BY <1>1 DEF RegistryStep
<1>2. ASSUME NEW x \in Exchange, ExchangeStep(x) PROVE [KeyStep]_keyVars
  BY <1>2 DEF ExchangeStep, SignExchange, SignIdToken, KeyStep
<1> QED BY <1>1, <1>2 DEF Provide

LEMMA StepsOfKeys == [Next]_vars => [KeyStep]_keyVars
<1> SUFFICES ASSUME [Next]_vars PROVE [KeyStep]_keyVars
  OBVIOUS
<1>1. CASE Rotate
  BY <1>1 DEF Rotate, KeyStep
<1>2. ASSUME NEW c \in Code, Authorize(c) \/ Grant(c) PROVE UNCHANGED keyVars
  BY <1>2 DEF Authorize, Grant
<1>3. CASE Provide
  BY <1>3, ProvideSteps
<1>4. CASE Browse \/ BrowserFault
  BY <1>4, WebSteps DEF Browse, BrowserFault
<1>5. CASE ProviderFault
  BY <1>5 DEF ProviderFault
<1>6. CASE Crash
  BY <1>6 DEF Crash, KeyStep
<1>7. CASE UNCHANGED vars
  BY <1>7 DEF vars, keyVars
<1> QED BY <1>1, <1>2, <1>3, <1>4, <1>5, <1>6, <1>7 DEF Next

(* A token is good until the second rotation after it was signed begins    *)
(* (jwt.ts:76-98), whatever the provider and the page do meanwhile.        *)
THEOREM GracePeriodHolds == Spec => []GracePeriod
<1>1. Init => KeyInv
  BY KeyInitially DEF Init
<1>2. KeyInv /\ [Next]_vars => KeyInv'
  BY KeyStepKeeps, StepsOfKeys
<1> QED BY <1>1, <1>2, KeyInvImplies, PTL DEF Spec

-----------------------------------------------------------------------------
(* The registry.                                                           *)

RegistryStepOf(a) ==
    \/ CreateApplication(a) \/ CreateOAuthClient(a)
    \/ BeginRotateSecret(a) \/ UpdateSecret(a)
    \/ UpdateApplication(a) \/ DeleteApplication(a)
    \/ RecordAudit(a) \/ Answer(a) \/ RegistryFails(a)

registryVars == <<application, clientSecret, registry, handed, disputed>>

(* As long as nothing is in dispute, a secret that is stored and not yet   *)
(* handed out is the one the client has.                                   *)
SecretInv ==
    /\ registry \in [Admin -> AdminCall]
    /\ disputed \in BOOLEAN
    /\ \A a \in Admin : registry[a].step \in {"client", "update"} => WritesSecret(a)
    /\ ~disputed => \A a \in Admin : Written(a) => clientSecret = a
    /\ LastSecretWorks

LEMMA CallType ==
    ASSUME registry \in [Admin -> AdminCall], NEW a \in Admin,
           NEW kind \in AdminKind \cup {None}, NEW s \in {"idle", "client", "update", "audit", "answer", "over"}
    PROVE  /\ RegistryNext(a, s) => registry' \in [Admin -> AdminCall]
           /\ Arrive(a, kind, s) => registry' \in [Admin -> AdminCall]
           /\ RegistryNext(a, s) =>
                 /\ registry'[a].step = s /\ registry'[a].kind = registry[a].kind
                 /\ \A b \in Admin \ {a} : registry'[b] = registry[b]
           /\ Arrive(a, kind, s) =>
                 /\ registry'[a].step = s /\ registry'[a].kind = kind
                 /\ \A b \in Admin \ {a} : registry'[b] = registry[b]
<1>1. [registry[a] EXCEPT !.step = s] \in AdminCall
  BY DEF AdminCall
<1>2. [kind |-> kind, step |-> s] \in AdminCall
  BY DEF AdminCall
<1>3. registry[a] \in AdminCall
  OBVIOUS
<1> QED BY <1>1, <1>2, <1>3 DEF RegistryNext, Arrive, AdminCall

(* What a step of one call means for the others and for itself.            *)
LEMMA WrittenByOthers ==
    ASSUME NEW a \in Admin, \A b \in Admin \ {a} : registry'[b] = registry[b]
    PROVE  \A b \in Admin \ {a} :
              (WritesSecret(b)' <=> WritesSecret(b)) /\ (Written(b)' <=> Written(b))
  BY DEF Written, WritesSecret

LEMMA StoreSecretKeeps ==
    ASSUME SecretInv, NEW a \in Admin, registry[a].step \in {"client", "update"}, StoreSecret(a)
    PROVE  SecretInv'
<1>1. /\ registry' \in [Admin -> AdminCall]
      /\ registry'[a].step = "audit" /\ registry'[a].kind = registry[a].kind
      /\ \A b \in Admin \ {a} : registry'[b] = registry[b]
  BY CallType DEF StoreSecret, SecretInv
<1>2. \A b \in Admin \ {a} : (WritesSecret(b)' <=> WritesSecret(b)) /\ (Written(b)' <=> Written(b))
  BY <1>1, WrittenByOthers
<1>3. Written(a)' /\ WritesSecret(a)'
  BY <1>1 DEF SecretInv, Written, WritesSecret
<1>4. disputed' = \E b \in Admin \ {a} : Written(b)
  BY DEF StoreSecret
<1>5. ASSUME ~disputed', NEW b \in Admin, Written(b)' PROVE clientSecret' = b
  <2>1. b = a
    BY <1>2, <1>4, <1>5
  <2> QED BY <2>1 DEF StoreSecret
<1>6. LastSecretWorks'
  BY <1>3 DEF LastSecretWorks
<1>7. \A b \in Admin : registry'[b].step \in {"client", "update"} => WritesSecret(b)'
  BY <1>1, <1>2, <1>3 DEF SecretInv
<1>8. disputed' \in BOOLEAN
  BY <1>4
<1> QED BY <1>1, <1>5, <1>6, <1>7, <1>8 DEF SecretInv

(* The steps of a call that store no secret and hand out none: what is     *)
(* written of the call itself stays so, or becomes disputed.               *)
LEMMA QuietStepKeeps ==
    ASSUME SecretInv, NEW a \in Admin, NEW kind \in AdminKind \cup {None},
           NEW s \in {"idle", "client", "update", "audit", "answer", "over"},
           RegistryNext(a, s) \/ Arrive(a, kind, s),
           UNCHANGED <<clientSecret, handed>>,
           disputed' \in BOOLEAN, disputed => disputed',
           ~disputed' => (Written(a)' <=> Written(a)),
           s \in {"client", "update"} => WritesSecret(a)'
    PROVE  SecretInv'
<1>1. /\ registry' \in [Admin -> AdminCall]
      /\ registry'[a].step = s
      /\ \A b \in Admin \ {a} : registry'[b] = registry[b]
  BY CallType DEF SecretInv
<1>2. \A b \in Admin \ {a} : (WritesSecret(b)' <=> WritesSecret(b)) /\ (Written(b)' <=> Written(b))
  BY <1>1, WrittenByOthers
<1>3. ~disputed' => \A b \in Admin : Written(b)' <=> Written(b)
  BY <1>2
<1>4. ~disputed' => \A b \in Admin : Written(b)' => clientSecret' = b
  BY <1>3 DEF SecretInv
<1>5. LastSecretWorks'
  BY <1>3 DEF SecretInv, LastSecretWorks
<1>6. \A b \in Admin : registry'[b].step \in {"client", "update"} => WritesSecret(b)'
  BY <1>1, <1>2 DEF SecretInv
<1> QED BY <1>1, <1>4, <1>5, <1>6 DEF SecretInv

LEMMA AnswerKeeps ==
    ASSUME SecretInv, NEW a \in Admin, Answer(a) PROVE SecretInv'
<1>1. /\ registry' \in [Admin -> AdminCall]
      /\ registry'[a].step = "over"
      /\ \A b \in Admin \ {a} : registry'[b] = registry[b]
  BY CallType DEF Answer, SecretInv
<1>2. \A b \in Admin \ {a} : (WritesSecret(b)' <=> WritesSecret(b)) /\ (Written(b)' <=> Written(b))
  BY <1>1, WrittenByOthers
<1>3. ~Written(a)'
  BY <1>1 DEF Written
<1>4. clientSecret' = clientSecret /\ disputed' = disputed
  BY DEF Answer
<1>5. LastSecretWorks'
  <2>1. CASE disputed
    BY <2>1, <1>4 DEF LastSecretWorks
  <2>2. CASE ~disputed /\ WritesSecret(a)
    <3>1. Written(a)
      BY <2>2 DEF Written, Answer, RegistryAt
    <3>2. clientSecret = a /\ handed' = a
      BY <2>2, <3>1 DEF SecretInv, Answer
    <3> QED BY <1>4, <3>2 DEF LastSecretWorks
  <2>3. CASE ~disputed /\ ~WritesSecret(a)
    <3>1. ~Written(a) /\ handed' = handed
      BY <2>3 DEF Written, Answer
    <3> QED BY <1>2, <1>4, <3>1 DEF SecretInv, LastSecretWorks
  <2> QED BY <2>1, <2>2, <2>3 DEF SecretInv
<1>6. \A b \in Admin : registry'[b].step \in {"client", "update"} => WritesSecret(b)'
  BY <1>1, <1>2 DEF SecretInv
<1>7. ~disputed' => \A b \in Admin : Written(b)' => clientSecret' = b
  BY <1>2, <1>3, <1>4 DEF SecretInv
<1> QED BY <1>1, <1>4, <1>5, <1>6, <1>7 DEF SecretInv

LEMMA LoseCallsKeeps == SecretInv /\ LoseCalls => SecretInv'
<1> SUFFICES ASSUME SecretInv, LoseCalls PROVE SecretInv'
  OBVIOUS
<1>1. \A a \in Admin : [registry[a] EXCEPT !.step = "over"] \in AdminCall /\ registry[a] \in AdminCall
  BY DEF SecretInv, AdminCall
<1>2. registry' \in [Admin -> AdminCall]
  BY <1>1 DEF LoseCalls
<1>3. \A a \in Admin : registry'[a].step \in {"idle", "over"}
  BY DEF LoseCalls, RegistryAt, SecretInv, AdminCall
<1>4. \A a \in Admin : ~Written(a)'
  BY <1>3 DEF Written
<1>5. /\ disputed' \in BOOLEAN /\ clientSecret' = clientSecret /\ handed' = handed
      /\ ~disputed' => ~disputed /\ \A a \in Admin : ~Written(a)
  BY DEF LoseCalls, SecretInv
<1>6. LastSecretWorks'
  BY <1>5 DEF SecretInv, LastSecretWorks
<1> QED BY <1>2, <1>3, <1>4, <1>5, <1>6 DEF SecretInv

LEMMA RegistryStepKeeps ==
    ASSUME SecretInv, NEW a \in Admin, RegistryStepOf(a) PROVE SecretInv'
<1> DEFINE S == {"idle", "client", "update", "audit", "answer", "over"}
<1>1. registry \in [Admin -> AdminCall] /\ disputed \in BOOLEAN
  BY DEF SecretInv
<1>2. ASSUME NEW kind \in AdminKind \cup {None}, NEW s \in S, RegistryAt(a, "idle"), Arrive(a, kind, s)
      PROVE  /\ ~Written(a)
             /\ Written(a)' <=> kind \in {"create", "rotate"} /\ s \in {"audit", "answer"}
             /\ WritesSecret(a)' <=> kind \in {"create", "rotate"}
  <2>1. registry'[a].step = s /\ registry'[a].kind = kind
    BY <1>1, <1>2, CallType
  <2> QED BY <2>1, <1>2 DEF RegistryAt, Written, WritesSecret
<1>3. CASE CreateApplication(a)
  <2>1. RegistryAt(a, "idle") /\ Arrive(a, "create", "client") /\ UNCHANGED <<clientSecret, handed, disputed>>
    BY <1>3 DEF CreateApplication
  <2> QED BY <1>1, <1>2, <2>1, QuietStepKeeps DEF AdminKind
<1>4. CASE CreateOAuthClient(a)
  BY <1>4, StoreSecretKeeps DEF CreateOAuthClient, RegistryAt
<1>5. CASE UpdateSecret(a)
  BY <1>5, StoreSecretKeeps DEF UpdateSecret, RegistryAt
<1>6. CASE BeginRotateSecret(a)
  <2>1. PICK s \in {"update", "over"} : Arrive(a, "rotate", s)
    BY <1>6 DEF BeginRotateSecret
  <2>2. RegistryAt(a, "idle") /\ UNCHANGED <<clientSecret, handed, disputed>>
    BY <1>6 DEF BeginRotateSecret
  <2> QED BY <1>1, <1>2, <2>1, <2>2, QuietStepKeeps DEF AdminKind
<1>7. CASE UpdateApplication(a)
  <2>1. PICK kind \in {"enable", "disable"} : Arrive(a, kind, "audit")
    BY <1>7 DEF UpdateApplication
  <2>2. RegistryAt(a, "idle") /\ UNCHANGED <<clientSecret, handed, disputed>>
    BY <1>7 DEF UpdateApplication
  <2> QED BY <1>1, <1>2, <2>1, <2>2, QuietStepKeeps DEF AdminKind
<1>8. CASE DeleteApplication(a)
  <2>1. /\ RegistryAt(a, "idle") /\ Arrive(a, "delete", "audit")
        /\ UNCHANGED <<clientSecret, handed, disputed>>
    BY <1>8 DEF DeleteApplication
  <2> QED BY <1>1, <1>2, <2>1, QuietStepKeeps DEF AdminKind
<1>9. CASE RecordAudit(a)
  <2>1. registry[a].step = "audit" /\ RegistryNext(a, "answer") /\ UNCHANGED <<clientSecret, handed, disputed>>
    BY <1>9 DEF RecordAudit, RegistryAt
  <2>2. registry'[a].step = "answer" /\ registry'[a].kind = registry[a].kind
    BY <1>1, <2>1, CallType
  <2>3. Written(a)' <=> Written(a)
    BY <2>1, <2>2 DEF Written, WritesSecret
  <2> QED BY <1>1, <2>1, <2>3, QuietStepKeeps
<1>10. CASE Answer(a)
  BY <1>10, AnswerKeeps
<1>11. CASE RegistryFails(a)
  <2>1. /\ RegistryNext(a, "over") /\ disputed' = (disputed \/ Written(a))
        /\ UNCHANGED <<clientSecret, handed>>
    BY <1>11 DEF RegistryFails
  <2>2. ~Written(a)'
    BY <1>1, <2>1, CallType DEF Written
  <2>3. disputed' \in BOOLEAN /\ (disputed => disputed') /\ (~disputed' => ~Written(a))
    BY <1>1, <2>1
  <2> QED BY <1>1, <2>1, <2>2, <2>3, QuietStepKeeps
<1> QED BY <1>3, <1>4, <1>5, <1>6, <1>7, <1>8, <1>9, <1>10, <1>11 DEF RegistryStepOf

LEMMA SecretInitially == ProviderInit => SecretInv
<1> SUFFICES ASSUME ProviderInit PROVE SecretInv
  OBVIOUS
<1>1. registry \in [Admin -> AdminCall]
  BY DEF ProviderInit, AdminCall
<1>2. \A a \in Admin : registry[a].step \in {"idle", "over"}
  BY DEF ProviderInit
<1>3. \A a \in Admin : ~Written(a)
  BY <1>2 DEF Written
<1>4. LastSecretWorks
  BY DEF ProviderInit, LastSecretWorks
<1> QED BY <1>1, <1>2, <1>3, <1>4 DEF SecretInv, ProviderInit

LEMMA SecretStutters == SecretInv /\ UNCHANGED registryVars => SecretInv'
  BY DEF registryVars, SecretInv, LastSecretWorks, Written, WritesSecret

LEMMA StepsOfRegistry ==
    [Next]_vars => \/ \E a \in Admin : RegistryStepOf(a)
                   \/ LoseCalls
                   \/ UNCHANGED registryVars
<1> SUFFICES ASSUME [Next]_vars
             PROVE  \/ \E a \in Admin : RegistryStepOf(a)
                    \/ LoseCalls
                    \/ UNCHANGED registryVars
  OBVIOUS
<1> USE DEF UnchangedRegistry, UnchangedProvider, registryVars
<1>1. CASE Rotate
  BY <1>1 DEF Rotate
<1>2. ASSUME NEW c \in Code, Authorize(c) \/ Grant(c) PROVE UNCHANGED registryVars
  BY <1>2 DEF Authorize, Grant
<1>3. CASE Provide
  <2>1. ASSUME NEW a \in Admin, RegistryStep(a) PROVE RegistryStepOf(a)
    BY <2>1 DEF RegistryStep, RegistryStepOf
  <2>2. ASSUME NEW x \in Exchange, ExchangeStep(x) PROVE UNCHANGED registryVars
    BY <2>2 DEF ExchangeStep
  <2> QED BY <1>3, <2>1, <2>2 DEF Provide
<1>4. CASE Browse \/ BrowserFault
  BY <1>4 DEF Browse, BrowserFault
<1>5. CASE ProviderFault
  BY <1>5 DEF ProviderFault, RegistryStepOf
<1>6. CASE Crash
  BY <1>6 DEF Crash
<1>7. CASE UNCHANGED vars
  BY <1>7 DEF vars, providerVars
<1> QED BY <1>1, <1>2, <1>3, <1>4, <1>5, <1>6, <1>7 DEF Next

(* The secret that was handed out last is the one the token endpoint takes *)
(* (applications.ts:194-208), however many calls change the registry.      *)
THEOREM LastSecretAlwaysWorks == Spec => []LastSecretWorks
<1>1. Init => SecretInv
  BY SecretInitially DEF Init
<1>2. SecretInv /\ [Next]_vars => SecretInv'
  BY StepsOfRegistry, RegistryStepKeeps, LoseCallsKeeps, SecretStutters
<1>3. SecretInv => LastSecretWorks
  BY DEF SecretInv
<1> QED BY <1>1, <1>2, <1>3, PTL DEF Spec

-----------------------------------------------------------------------------
(* Authorization codes.                                                    *)

ExchangeStepOf(x) ==
    \/ BeginExchange(x) \/ GetCode(x) \/ DeleteCode(x) \/ LoadUser(x)
    \/ CreateOAuthSession(x)
    \/ \E s \in {"id", "over"} : ExchangeNext(x, s) /\ UNCHANGED <<codes, opened, shared>>

CodeStepOf(c) == Validate(c) \/ IssueAuthorizationCode(c) \/ DropCode(c)

grantVars == <<codes, exchanges, opened, shared>>

(* The exchange has read the code and may open a session with it.          *)
Holds(x, c) == exchanges[x].code = c /\ exchanges[x].step \in {"del", "user", "open"}

GrantTypes ==
    /\ codes \in [Code -> {"idle", "validated", "stored", "gone"}]
    /\ exchanges \in [Exchange -> ExchangeCall]
    /\ opened \in [Code -> SUBSET Exchange]

(* Of a code that no two exchanges have read, at most one exchange is on   *)
(* its way to a session, and none once there is a session; the code is     *)
(* gone before the user is looked up.                                      *)
OnceOnly(c) ==
    /\ \A x, y \in Exchange : Holds(x, c) /\ Holds(y, c) => x = y
    /\ \A x \in Exchange : Holds(x, c) => opened[c] = {}
    /\ \A x \in Exchange : Holds(x, c) /\ exchanges[x].step # "del" => codes[c] = "gone"
    /\ opened[c] # {} => codes[c] = "gone"
    /\ opened[c] = {} \/ \E x \in Exchange : opened[c] = {x}

GrantInv == GrantTypes /\ \A c \in Code : c \notin shared => OnceOnly(c)

LEMMA GrantInitially == ProviderInit => GrantInv
<1> SUFFICES ASSUME ProviderInit PROVE GrantInv
  OBVIOUS
<1>1. exchanges \in [Exchange -> ExchangeCall]
  BY DEF ProviderInit, ExchangeCall
<1>2. \A x \in Exchange : exchanges[x].step \in {"idle", "over"}
  BY DEF ProviderInit
<1>3. codes \in [Code -> {"idle", "validated", "stored", "gone"}] /\ opened \in [Code -> SUBSET Exchange]
  BY DEF ProviderInit
<1>4. \A c \in Code : OnceOnly(c)
  BY <1>2 DEF ProviderInit, OnceOnly, Holds
<1> QED BY <1>1, <1>3, <1>4 DEF GrantInv, GrantTypes

LEMMA GrantStutters == GrantInv /\ UNCHANGED grantVars => GrantInv'
  BY DEF grantVars, GrantInv, GrantTypes, OnceOnly, Holds

(* A code changes only on its way from idle to gone.                       *)
LEMMA CodeStepKeeps ==
    ASSUME GrantInv, NEW c \in Code, CodeStepOf(c) PROVE GrantInv'
<1>1. PICK s \in {"validated", "stored", "gone"} : codes' = [codes EXCEPT ![c] = s]
  BY DEF CodeStepOf, Validate, IssueAuthorizationCode, DropCode
<1>2. codes[c] # "gone" /\ UNCHANGED <<exchanges, opened, shared>>
  BY DEF CodeStepOf, Validate, IssueAuthorizationCode, DropCode
<1>3. GrantTypes'
  BY <1>1, <1>2 DEF GrantInv, GrantTypes
<1>4. ASSUME NEW d \in Code, d \notin shared PROVE OnceOnly(d)'
  <2>1. OnceOnly(d)
    BY <1>4 DEF GrantInv
  <2>2. codes[d] = "gone" => codes'[d] = "gone"
    BY <1>1, <1>2 DEF GrantInv, GrantTypes
  <2> QED BY <1>2, <2>1, <2>2 DEF OnceOnly, Holds
<1> QED BY <1>2, <1>3, <1>4 DEF GrantInv

LEMMA ExchangeMove ==
    ASSUME GrantTypes, NEW x \in Exchange,
           NEW s \in {"del", "user", "open", "id", "sign", "over"},
           s \in {"del", "user"} => exchanges[x].code \in Code,
           ExchangeNext(x, s)
    PROVE  /\ exchanges' \in [Exchange -> ExchangeCall]
           /\ exchanges'[x].step = s /\ exchanges'[x].code = exchanges[x].code
           /\ \A y \in Exchange \ {x} : exchanges'[y] = exchanges[y]
<1>1. exchanges[x] \in ExchangeCall
  BY DEF GrantTypes
<1>2. exchanges[x].code \in Code \cup {None}
  BY <1>1 DEF ExchangeCall
<1> DEFINE e == [exchanges[x] EXCEPT !.step = s]
<1>3. e.step = s /\ e.code = exchanges[x].code /\ e = [step |-> s, code |-> exchanges[x].code]
  BY <1>1 DEF ExchangeCall
<1>4. e \in ExchangeCall
  BY <1>2, <1>3 DEF ExchangeCall
<1> HIDE DEF e
<1>5. exchanges' = [exchanges EXCEPT ![x] = e]
  BY DEF ExchangeNext, e
<1> QED BY <1>3, <1>4, <1>5 DEF GrantTypes

LEMMA HoldsOfOthers ==
    ASSUME NEW x \in Exchange, \A y \in Exchange \ {x} : exchanges'[y] = exchanges[y]
    PROVE  \A y \in Exchange \ {x}, c \in Code :
              (Holds(y, c)' <=> Holds(y, c)) /\ exchanges'[y].step = exchanges[y].step
  BY DEF Holds

(* A step that begins to hold no code, and passes the deletion only when   *)
(* the code is gone.                                                       *)
LEMMA MoveKeeps ==
    ASSUME GrantInv, NEW x \in Exchange,
           exchanges' \in [Exchange -> ExchangeCall],
           \A y \in Exchange \ {x} : exchanges'[y] = exchanges[y],
           codes' \in [Code -> {"idle", "validated", "stored", "gone"}],
           \A c \in Code : codes[c] = "gone" => codes'[c] = "gone",
           opened' = opened, shared' = shared,
           \A c \in Code : c \notin shared /\ Holds(x, c)' =>
               Holds(x, c) /\ (exchanges'[x].step # "del" => codes'[c] = "gone")
    PROVE  GrantInv'
<1>1. GrantTypes'
  BY DEF GrantInv, GrantTypes
<1>2. ASSUME NEW c \in Code, c \notin shared PROVE OnceOnly(c)'
  <2>1. OnceOnly(c)
    BY <1>2 DEF GrantInv
  <2>2. \A y \in Exchange : Holds(y, c)' => Holds(y, c)
    BY <1>2, HoldsOfOthers
  <2>3. \A y \in Exchange : Holds(y, c)' /\ exchanges'[y].step # "del" => codes'[c] = "gone"
    BY <1>2, <2>1, HoldsOfOthers DEF OnceOnly
  <2> QED BY <2>1, <2>2, <2>3 DEF OnceOnly
<1> QED BY <1>1, <1>2 DEF GrantInv

LEMMA BeginExchangeKeeps ==
    ASSUME GrantInv, NEW x \in Exchange, BeginExchange(x) PROVE GrantInv'
<1>1. PICK e \in ExchangeCall :
          /\ exchanges' = [exchanges EXCEPT ![x] = e]
          /\ e.step \in {"get", "over"} \/ (e.step = "open" /\ e.code = None)
  <2>1. PICK secret \in Secret, code \in Code \cup {None} :
            exchanges' = [exchanges EXCEPT ![x] =
                IF VerifiesClient(secret)
                THEN [step |-> IF code = None THEN "open" ELSE "get", code |-> code]
                ELSE [step |-> "over", code |-> None]]
    BY DEF BeginExchange
  <2>2. CASE ~VerifiesClient(secret)
    <3>1. [step |-> "over", code |-> None] \in ExchangeCall
      BY DEF ExchangeCall
    <3> QED BY <2>1, <2>2, <3>1
  <2>3. CASE VerifiesClient(secret) /\ code = None
    <3>1. [step |-> "open", code |-> None] \in ExchangeCall
      BY DEF ExchangeCall
    <3> QED BY <2>1, <2>3, <3>1
  <2>4. CASE VerifiesClient(secret) /\ code # None
    <3>1. [step |-> "get", code |-> code] \in ExchangeCall
      BY <2>4 DEF ExchangeCall
    <3> QED BY <2>1, <2>4, <3>1
  <2> QED BY <2>2, <2>3, <2>4
<1>2. /\ exchanges' \in [Exchange -> ExchangeCall] /\ exchanges'[x] = e
      /\ \A y \in Exchange \ {x} : exchanges'[y] = exchanges[y]
  BY <1>1 DEF GrantInv, GrantTypes
<1>3. \A c \in Code : ~Holds(x, c)'
  BY <1>1, <1>2, SecretAssumption DEF Holds
<1>4. UNCHANGED <<codes, opened, shared>>
  BY DEF BeginExchange
<1> QED BY <1>2, <1>3, <1>4, MoveKeeps DEF GrantInv, GrantTypes

LEMMA LeaveKeeps ==
    ASSUME GrantInv, NEW x \in Exchange, NEW s \in {"id", "sign", "over"},
           ExchangeNext(x, s), UNCHANGED <<codes, opened, shared>>
    PROVE  GrantInv'
<1>1. /\ exchanges' \in [Exchange -> ExchangeCall] /\ exchanges'[x].step = s
      /\ \A y \in Exchange \ {x} : exchanges'[y] = exchanges[y]
  BY ExchangeMove DEF GrantInv
<1>2. \A c \in Code : ~Holds(x, c)'
  BY <1>1 DEF Holds
<1> QED BY <1>1, <1>2, MoveKeeps DEF GrantInv, GrantTypes

LEMMA GetCodeKeeps ==
    ASSUME GrantInv, NEW x \in Exchange, GetCode(x) PROVE GrantInv'
<1>1. CASE ExchangeNext(x, "over") /\ UNCHANGED <<codes, opened, shared>>
  BY <1>1, LeaveKeeps
<1>2. CASE ~(ExchangeNext(x, "over") /\ UNCHANGED <<codes, opened, shared>>)
  <2> DEFINE c == exchanges[x].code
             another == \E y \in Exchange : ExchangeAt(y, "del") /\ exchanges[y].code = c
  <2>1. /\ exchanges[x].step = "get" /\ codes[c] = "stored" /\ ExchangeNext(x, "del")
        /\ shared' = IF another THEN shared \cup {c} ELSE shared
        /\ UNCHANGED <<codes, opened>>
    BY <1>2 DEF GetCode, ExchangeAt
  <2>2. c \in Code
    <3>1. exchanges[x] \in ExchangeCall
      BY DEF GrantInv, GrantTypes
    <3> QED BY <2>1, <3>1 DEF ExchangeCall
  <2>3. /\ exchanges' \in [Exchange -> ExchangeCall]
        /\ exchanges'[x].step = "del" /\ exchanges'[x].code = c
        /\ \A y \in Exchange \ {x} : exchanges'[y] = exchanges[y]
    BY <2>1, <2>2, ExchangeMove DEF GrantInv
  <2>4. GrantTypes'
    BY <2>1, <2>3 DEF GrantInv, GrantTypes
  <2>5. ASSUME NEW d \in Code, d \notin shared' PROVE OnceOnly(d)'
    <3>1. OnceOnly(d)
      BY <2>1, <2>5 DEF GrantInv
    <3>2. CASE d # c
      <4>1. \A y \in Exchange :
              (Holds(y, d)' => Holds(y, d)) /\ (Holds(y, d) => exchanges'[y].step = exchanges[y].step)
        BY <2>1, <2>3, <3>2, HoldsOfOthers DEF Holds
      <4>2. codes' = codes /\ opened' = opened
        BY <2>1
      <4>3. \A y \in Exchange : Holds(y, d)' /\ exchanges'[y].step # "del" => codes'[d] = "gone"
        BY <3>1, <4>1, <4>2 DEF OnceOnly
      <4>4. \A y, z \in Exchange : Holds(y, d)' /\ Holds(z, d)' => y = z /\ opened'[d] = {}
        BY <3>1, <4>1, <4>2 DEF OnceOnly
      <4> QED BY <3>1, <4>2, <4>3, <4>4 DEF OnceOnly
    <3>3. CASE d = c
      <4>1. ~another
        BY <2>1, <2>5, <3>3
      <4>2. \A y \in Exchange : ~Holds(y, c)
        BY <2>1, <3>1, <3>3, <4>1 DEF OnceOnly, Holds, ExchangeAt
      <4>3. opened[c] = {}
        BY <2>1, <3>1, <3>3 DEF OnceOnly
      <4>4. \A y \in Exchange : Holds(y, d)' => y = x
        BY <2>3, <3>3, <4>2, HoldsOfOthers
      <4>5. opened'[d] = {} /\ exchanges'[x].step = "del"
        BY <2>1, <2>3, <3>3, <4>3
      <4> QED BY <4>4, <4>5 DEF OnceOnly
    <3> QED BY <3>2, <3>3
  <2> QED BY <2>4, <2>5 DEF GrantInv
<1> QED BY <1>1, <1>2

LEMMA DeleteCodeKeeps ==
    ASSUME GrantInv, NEW x \in Exchange, DeleteCode(x) PROVE GrantInv'
<1>1. /\ exchanges[x].step = "del" /\ ExchangeNext(x, "user")
      /\ codes' = [codes EXCEPT ![exchanges[x].code] = "gone"]
      /\ UNCHANGED <<opened, shared>>
  BY DEF DeleteCode, ExchangeAt
<1>2. exchanges[x].code \in Code
  <2>1. exchanges[x] \in ExchangeCall
    BY DEF GrantInv, GrantTypes
  <2> QED BY <1>1, <2>1 DEF ExchangeCall
<1>3. /\ exchanges' \in [Exchange -> ExchangeCall]
      /\ exchanges'[x].step = "user" /\ exchanges'[x].code = exchanges[x].code
      /\ \A y \in Exchange \ {x} : exchanges'[y] = exchanges[y]
  BY <1>1, <1>2, ExchangeMove DEF GrantInv
<1>4. /\ codes' \in [Code -> {"idle", "validated", "stored", "gone"}]
      /\ \A c \in Code : codes[c] = "gone" => codes'[c] = "gone"
      /\ codes'[exchanges[x].code] = "gone"
  BY <1>1, <1>2 DEF GrantInv, GrantTypes
<1>5. \A c \in Code : Holds(x, c)' => Holds(x, c) /\ codes'[c] = "gone"
  BY <1>1, <1>3, <1>4 DEF Holds
<1> QED BY <1>1, <1>3, <1>4, <1>5, MoveKeeps

LEMMA LoadUserKeeps ==
    ASSUME GrantInv, NEW x \in Exchange, LoadUser(x) PROVE GrantInv'
<1>1. CASE ExchangeNext(x, "over")
  BY <1>1, LeaveKeeps DEF LoadUser
<1>2. CASE ExchangeNext(x, "open")
  <2>1. /\ exchanges' \in [Exchange -> ExchangeCall]
        /\ exchanges'[x].step = "open" /\ exchanges'[x].code = exchanges[x].code
        /\ \A y \in Exchange \ {x} : exchanges'[y] = exchanges[y]
    BY <1>2, ExchangeMove DEF GrantInv
  <2>2. exchanges[x].step = "user" /\ UNCHANGED <<codes, opened, shared>>
    BY DEF LoadUser, ExchangeAt
  <2>3. ASSUME NEW c \in Code, c \notin shared, Holds(x, c)'
        PROVE  Holds(x, c) /\ codes'[c] = "gone"
    <3>1. Holds(x, c)
      BY <2>1, <2>2, <2>3 DEF Holds
    <3> QED BY <2>2, <2>3, <3>1 DEF GrantInv, OnceOnly
  <2> QED BY <2>1, <2>2, <2>3, MoveKeeps DEF GrantInv, GrantTypes
<1> QED BY <1>1, <1>2 DEF LoadUser

LEMMA CreateOAuthSessionKeeps ==
    ASSUME GrantInv, NEW x \in Exchange, CreateOAuthSession(x) PROVE GrantInv'
<1> DEFINE c == exchanges[x].code
<1>1. exchanges[x].step = "open" /\ UNCHANGED <<codes, shared>>
  BY DEF CreateOAuthSession, ExchangeAt
<1>2. PICK s \in {"sign", "over"} : ExchangeNext(x, s)
  BY DEF CreateOAuthSession
<1>3. /\ exchanges' \in [Exchange -> ExchangeCall] /\ exchanges'[x].step = s
      /\ \A y \in Exchange \ {x} : exchanges'[y] = exchanges[y]
  BY <1>2, ExchangeMove DEF GrantInv
<1>4. opened' \in [Code -> SUBSET Exchange]
  BY DEF CreateOAuthSession, GrantInv, GrantTypes
<1>5. \A d \in Code : opened'[d] = IF UserRow(x) /\ d = c THEN opened[d] \cup {x} ELSE opened[d]
  BY DEF CreateOAuthSession
<1>6. ASSUME NEW d \in Code, d \notin shared' PROVE OnceOnly(d)'
  <2>1. OnceOnly(d)
    BY <1>1, <1>6 DEF GrantInv
  <2>2. ~Holds(x, d)'
    BY <1>3 DEF Holds
  <2>3. \A y \in Exchange : Holds(y, d)' => y # x /\ Holds(y, d) /\ exchanges'[y].step = exchanges[y].step
    BY <1>3, <2>2, HoldsOfOthers
  <2>4. CASE UserRow(x) /\ d = c
    <3>1. Holds(x, d) /\ exchanges[x].step # "del"
      BY <1>1, <2>4 DEF Holds
    <3>2. opened'[d] = {x} /\ codes'[d] = "gone"
      BY <1>1, <1>5, <2>1, <2>4, <3>1 DEF OnceOnly
    <3>3. \A y \in Exchange : ~Holds(y, d)'
      BY <2>1, <2>3, <3>1 DEF OnceOnly
    <3> QED BY <3>2, <3>3 DEF OnceOnly
  <2>5. CASE ~(UserRow(x) /\ d = c)
    <3>1. opened'[d] = opened[d] /\ codes' = codes
      BY <1>1, <1>5, <2>5
    <3> QED BY <2>1, <2>3, <3>1 DEF OnceOnly
  <2> QED BY <2>4, <2>5
<1> QED BY <1>1, <1>3, <1>4, <1>6 DEF GrantInv, GrantTypes

LEMMA LoseCallsKeepsGrants == GrantInv /\ LoseCalls => GrantInv'
<1> SUFFICES ASSUME GrantInv, LoseCalls PROVE GrantInv'
  OBVIOUS
<1>1. ASSUME NEW x \in Exchange
      PROVE  /\ exchanges[x] \in ExchangeCall
             /\ [exchanges[x] EXCEPT !.step = "over"] \in ExchangeCall
             /\ [exchanges[x] EXCEPT !.step = "over"].step = "over"
  <2>1. exchanges[x] \in ExchangeCall
    BY DEF GrantInv, GrantTypes
  <2>2. exchanges[x].code \in Code \cup {None}
    BY <2>1 DEF ExchangeCall
  <2>3. [exchanges[x] EXCEPT !.step = "over"] = [step |-> "over", code |-> exchanges[x].code]
    BY <2>1 DEF ExchangeCall
  <2> QED BY <2>1, <2>2, <2>3 DEF ExchangeCall
<1>2. exchanges' \in [Exchange -> ExchangeCall]
  BY <1>1 DEF LoseCalls
<1>3. \A x \in Exchange : exchanges'[x].step \in {"idle", "over"}
  BY <1>1 DEF LoseCalls, ExchangeAt
<1>4. /\ codes' \in [Code -> {"idle", "validated", "stored", "gone"}]
      /\ \A c \in Code : codes[c] = "gone" => codes'[c] = "gone"
      /\ opened' = opened /\ shared' = shared
  BY DEF LoseCalls, GrantInv, GrantTypes
<1>5. \A c \in Code : c \notin shared => OnceOnly(c)'
  BY <1>3, <1>4 DEF GrantInv, OnceOnly, Holds
<1> QED BY <1>2, <1>4, <1>5 DEF GrantInv, GrantTypes

LEMMA StepsOfGrants ==
    [Next]_vars => \/ \E c \in Code : CodeStepOf(c)
                   \/ \E x \in Exchange : ExchangeStepOf(x)
                   \/ LoseCalls
                   \/ UNCHANGED grantVars
<1> SUFFICES ASSUME [Next]_vars
             PROVE  \/ \E c \in Code : CodeStepOf(c)
                    \/ \E x \in Exchange : ExchangeStepOf(x)
                    \/ LoseCalls
                    \/ UNCHANGED grantVars
  OBVIOUS
<1> USE DEF UnchangedGrants, UnchangedProvider, grantVars
<1>1. CASE Rotate
  BY <1>1 DEF Rotate
<1>2. ASSUME NEW c \in Code, Authorize(c) \/ Grant(c) PROVE CodeStepOf(c)
  BY <1>2 DEF Authorize, Grant, CodeStepOf
<1>3. CASE Provide
  <2>1. ASSUME NEW a \in Admin, RegistryStep(a) PROVE UNCHANGED grantVars
    BY <2>1 DEF RegistryStep
  <2>2. ASSUME NEW x \in Exchange, ExchangeStep(x) PROVE ExchangeStepOf(x)
    <3>1. CASE BeginExchange(x) \/ GetCode(x) \/ DeleteCode(x) \/ LoadUser(x) \/ CreateOAuthSession(x)
      BY <3>1 DEF ExchangeStepOf
    <3>2. CASE SignExchange(x) \/ SignIdToken(x)
      BY <3>2 DEF SignExchange, SignIdToken, ExchangeStepOf
    <3> QED BY <2>2, <3>1, <3>2 DEF ExchangeStep
  <2> QED BY <1>3, <2>1, <2>2 DEF Provide
<1>4. CASE Browse \/ BrowserFault
  BY <1>4 DEF Browse, BrowserFault
<1>5. CASE ProviderFault
  <2>1. ASSUME NEW x \in Exchange, ExchangeFails(x) PROVE ExchangeStepOf(x)
    BY <2>1 DEF ExchangeFails, ExchangeStepOf
  <2>2. ASSUME NEW c \in Code, DropCode(c) PROVE CodeStepOf(c)
    BY <2>2 DEF CodeStepOf
  <2> QED BY <1>5, <2>1, <2>2 DEF ProviderFault
<1>6. CASE Crash
  BY <1>6 DEF Crash
<1>7. CASE UNCHANGED vars
  BY <1>7 DEF vars, providerVars
<1> QED BY <1>1, <1>2, <1>3, <1>4, <1>5, <1>6, <1>7 DEF Next

LEMMA ExchangeStepKeeps ==
    ASSUME GrantInv, NEW x \in Exchange, ExchangeStepOf(x) PROVE GrantInv'
BY BeginExchangeKeeps, GetCodeKeeps, DeleteCodeKeeps, LoadUserKeeps, CreateOAuthSessionKeeps,
   LeaveKeeps DEF ExchangeStepOf

LEMMA GrantInvImplies == GrantInv => OneSessionPerCode
<1> SUFFICES ASSUME GrantInv, NEW c \in Code, c \notin shared PROVE Cardinality(opened[c]) <= 1
  BY DEF OneSessionPerCode
<1>1. opened[c] = {} \/ \E x \in Exchange : opened[c] = {x}
  BY DEF GrantInv, OnceOnly
<1>2. CASE opened[c] = {}
  BY <1>2, FS_EmptySet
<1>3. ASSUME NEW x \in Exchange, opened[c] = {x} PROVE Cardinality(opened[c]) <= 1
  BY <1>3, FS_Singleton
<1> QED BY <1>1, <1>2, <1>3

(* A code opens at most one session, unless two exchanges read it before   *)
(* one of them deletes it (oauth.ts:114-124).                              *)
THEOREM OneSessionPerCodeHolds == Spec => []OneSessionPerCode
<1>1. Init => GrantInv
  BY GrantInitially DEF Init
<1>2. GrantInv /\ [Next]_vars => GrantInv'
  BY StepsOfGrants, CodeStepKeeps, ExchangeStepKeeps, LoseCallsKeepsGrants, GrantStutters
<1> QED BY <1>1, <1>2, GrantInvImplies, PTL DEF Spec
=============================================================================
