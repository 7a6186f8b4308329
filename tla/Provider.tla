------------------------------ MODULE Provider ------------------------------
(***************************************************************************)
(* The OAuth2 and OpenID Connect provider and its registry of clients:     *)
(* apps/api/src/services/oauth.ts, routes/oidc.ts, routes/applications.ts. *)
(*                                                                         *)
(* One application and its client.  Administrators register it, change it, *)
(* and rotate its secret; a user's browser asks for authorization codes;   *)
(* the application exchanges them, or asks for a token of its own.  Every  *)
(* statement, every call of Redis and every wait for a signature is an     *)
(* action.                                                                 *)
(***************************************************************************)
EXTENDS SigningKeys, FiniteSets

CONSTANTS
    Code,                   \* calls of /oidc/authorize, and the codes they give
    Exchange,               \* calls of /oidc/token
    Admin,                  \* calls that change the registry
    Original                \* the secret of an application registered before

(* A secret bears the name of the call that draws it.                      *)
Secret == Admin \cup {Original}

ASSUME SecretAssumption == Original \notin Admin /\ None \notin Secret \cup Code
ASSUME ExchangeAssumption == Exchange \subseteq Bearer

VARIABLES
    application,            \* the row of applications
    clientSecret,           \* the hash in oauth_clients; None: no row
    registry,               \* where each administrator's call stands
    handed,                 \* the secret handed out last
    disputed,               \* two calls had written a secret and not answered,
                            \* or one that had written its secret failed
    codes,                  \* oauth:code:* in Redis, and the calls that set them
    exchanges,              \* where each exchange stands
    opened,                 \* the exchanges that opened a session for a code
    shared                  \* codes two exchanges had read before a deletion

providerVars == <<application, clientSecret, registry, handed, disputed, codes,
                  exchanges, opened, shared>>

AdminKind == {"create", "rotate", "enable", "disable", "delete"}
AdminCall == [kind : AdminKind \cup {None},
              step : {"idle", "client", "update", "audit", "answer", "over"}]
(* Only an exchange that was given a code looks for one.                   *)
ExchangeCall == [step : {"get", "del", "user"}, code : Code]
                \cup [step : {"idle", "open", "sign", "id", "over"}, code : Code \cup {None}]

ProviderTypeOK ==
    /\ application \in {"none", "active", "disabled", "deleted"}
    /\ clientSecret \in Secret \cup {None}
    /\ registry \in [Admin -> AdminCall]
    /\ handed \in Secret \cup {None}
    /\ disputed \in BOOLEAN
    /\ codes \in [Code -> {"idle", "validated", "stored", "gone"}]
    /\ exchanges \in [Exchange -> ExchangeCall]
    /\ opened \in [Code -> SUBSET Exchange]
    /\ shared \subseteq Code

(* A call that is over before it began is one nobody makes.                *)
ProviderInit ==
    /\ \/ application = "none" /\ clientSecret = None /\ handed = None
       \/ application = "active" /\ clientSecret = Original /\ handed = Original
    /\ registry \in [Admin -> [kind : {None}, step : {"idle", "over"}]]
    /\ disputed = FALSE
    /\ codes \in [Code -> {"idle", "gone"}]
    /\ exchanges \in [Exchange -> [step : {"idle", "over"}, code : {None}]]
    /\ opened = [c \in Code |-> {}]
    /\ shared = {}

-----------------------------------------------------------------------------
(* routes/applications.ts.                                                 *)
RegistryAt(a, s) == registry[a].step = s
RegistryNext(a, s) == registry' = [registry EXCEPT ![a].step = s]
Arrive(a, kind, s) == registry' = [registry EXCEPT ![a] = [kind |-> kind, step |-> s]]

WritesSecret(a) == registry[a].kind \in {"create", "rotate"}
Written(a) == WritesSecret(a) /\ registry[a].step \in {"audit", "answer"}

(* getClientByClientId and verifyClientSecret.                             *)
ClientExists == clientSecret # None
VerifiesClient(secret) == ClientExists /\ secret = clientSecret

UnchangedRegistry == UNCHANGED <<application, clientSecret, registry, handed, disputed>>
UnchangedGrants == UNCHANGED <<codes, exchanges, opened, shared>>

(* POST /applications: the application's row ...                           *)
CreateApplication(a) ==
    /\ RegistryAt(a, "idle")
    /\ application = "none"
    /\ application' = "active"
    /\ Arrive(a, "create", "client")
    /\ UNCHANGED <<clientSecret, handed, disputed>>

StoreSecret(a) ==
    /\ clientSecret' = a
    /\ disputed' = \E b \in Admin \ {a} : Written(b)
    /\ RegistryNext(a, "audit")
    /\ UNCHANGED <<application, handed>>

(* ... and the client's.                                                   *)
CreateOAuthClient(a) == RegistryAt(a, "client") /\ StoreSecret(a)

(* POST /oauth/clients/:clientId/rotate-secret.                            *)
BeginRotateSecret(a) ==
    /\ RegistryAt(a, "idle")
    /\ Arrive(a, "rotate", IF ClientExists THEN "update" ELSE "over")
    /\ UNCHANGED <<application, clientSecret, handed, disputed>>

(* The handler does not wait for the statement that stores the secret.     *)
AnswerEarly(a) ==
    /\ RegistryAt(a, "update")
    /\ RegistryNext(a, "audit")
    /\ UNCHANGED <<application, clientSecret, handed, disputed>>

UpdateSecret(a) == RegistryAt(a, "update") /\ StoreSecret(a)

(* PATCH and DELETE /applications/:id.                                     *)
UpdateApplication(a) ==
    /\ RegistryAt(a, "idle")
    /\ application \in {"active", "disabled"}
    /\ \E kind \in {"enable", "disable"} :
        /\ application' = IF kind = "enable" THEN "active" ELSE "disabled"
        /\ Arrive(a, kind, "audit")
    /\ UNCHANGED <<clientSecret, handed, disputed>>

DeleteApplication(a) ==
    /\ RegistryAt(a, "idle")
    /\ application # "none"
    /\ application' = "deleted"
    /\ Arrive(a, "delete", "audit")
    /\ UNCHANGED <<clientSecret, handed, disputed>>

RecordAudit(a) ==
    /\ RegistryAt(a, "audit")
    /\ RegistryNext(a, "answer")
    /\ UNCHANGED <<application, clientSecret, handed, disputed>>

(* emitEvent never fails its caller, who returns the secret it drew.       *)
Answer(a) ==
    /\ RegistryAt(a, "answer")
    /\ RegistryNext(a, "over")
    /\ handed' = IF WritesSecret(a) THEN a ELSE handed
    /\ UNCHANGED <<application, clientSecret, disputed>>

(* A statement of the handler fails: the caller gets no secret.            *)
RegistryFails(a) ==
    /\ registry[a].step \in {"client", "update", "audit"}
    /\ RegistryNext(a, "over")
    /\ disputed' = (disputed \/ Written(a))
    /\ UNCHANGED <<application, clientSecret, handed>>

RegistryStep(a) ==
    /\ \/ CreateApplication(a) \/ CreateOAuthClient(a)
       \/ BeginRotateSecret(a) \/ UpdateSecret(a)
       \/ UpdateApplication(a) \/ DeleteApplication(a)
       \/ RecordAudit(a) \/ Answer(a)
    /\ UnchangedGrants
    /\ UNCHANGED keyVars

-----------------------------------------------------------------------------
(* validateRedirectUri finds the URIs of active applications only.         *)
MayRedirect == application = "active"

(* GET /oidc/authorize: the client, its scopes and its redirect URI; the   *)
(* code is stored afterwards.                                              *)
Validate(c) ==
    /\ codes[c] = "idle"
    /\ codes' = [codes EXCEPT ![c] = IF ClientExists /\ MayRedirect THEN "validated" ELSE "gone"]
    /\ UNCHANGED <<exchanges, opened, shared>>

IssueAuthorizationCode(c) ==
    /\ codes[c] = "validated"
    /\ codes' = [codes EXCEPT ![c] = "stored"]
    /\ UNCHANGED <<exchanges, opened, shared>>

(* The code's time to live, or a request that was refused or failed.       *)
DropCode(c) ==
    /\ codes[c] \in {"validated", "stored"}
    /\ codes' = [codes EXCEPT ![c] = "gone"]
    /\ UNCHANGED <<exchanges, opened, shared>>

-----------------------------------------------------------------------------
(* POST /oidc/token.                                                       *)
ExchangeAt(x, s) == exchanges[x].step = s
ExchangeNext(x, s) == exchanges' = [exchanges EXCEPT ![x].step = s]

(* A request for a code's session is taken without its code.               *)
BeginUnchecked(x) ==
    /\ ExchangeAt(x, "idle")
    /\ \E secret \in Secret, code \in Code \cup {None} :
        exchanges' = [exchanges EXCEPT ![x] =
            IF VerifiesClient(secret)
            THEN [step |-> "get", code |-> code]
            ELSE [step |-> "over", code |-> None]]
    /\ UNCHANGED <<codes, opened, shared>>

(* The client's row and secret.  Neither the state of the application nor  *)
(* the client's grant types are looked at.                                 *)
BeginExchange(x) ==
    /\ ExchangeAt(x, "idle")
    /\ \E secret \in Secret, code \in Code \cup {None} :
        exchanges' = [exchanges EXCEPT ![x] =
            IF VerifiesClient(secret)
            THEN [step |-> IF code = None THEN "open" ELSE "get", code |-> code]
            ELSE [step |-> "over", code |-> None]]
    /\ UNCHANGED <<codes, opened, shared>>

(* consumeAuthorizationCode reads the code and compares client, redirect   *)
(* URI and verifier with what it was issued for ...                        *)
GetCode(x) ==
    /\ ExchangeAt(x, "get")
    /\ LET c == exchanges[x].code IN
       \E matches \in BOOLEAN :
        IF codes[c] = "stored" /\ matches
        THEN /\ ExchangeNext(x, "del")
             /\ shared' = IF \E y \in Exchange : ExchangeAt(y, "del") /\ exchanges[y].code = c
                          THEN shared \cup {c} ELSE shared
        ELSE ExchangeNext(x, "over") /\ UNCHANGED shared
    /\ UNCHANGED <<codes, opened>>

(* ... and deletes it.                                                     *)
KeepCode(x) ==
    /\ ExchangeAt(x, "del")
    /\ ExchangeNext(x, "user")
    /\ UNCHANGED <<codes, opened, shared>>

DeleteCode(x) ==
    /\ ExchangeAt(x, "del")
    /\ codes' = [codes EXCEPT ![exchanges[x].code] = "gone"]
    /\ ExchangeNext(x, "user")
    /\ UNCHANGED <<opened, shared>>

(* buildUserPayload finds no user that has been deleted; it does not look  *)
(* at the state of the account.                                            *)
LoadUser(x) ==
    /\ ExchangeAt(x, "user")
    /\ \E found \in BOOLEAN : ExchangeNext(x, IF found THEN "open" ELSE "over")
    /\ UNCHANGED <<codes, opened, shared>>

(* createSession.  The service account of the client-credentials grant has *)
(* no row in users, to which the rows of devices and sessions refer: the   *)
(* statement fails.                                                        *)
UserRow(x) == exchanges[x].code # None

CreateOAuthSession(x) ==
    /\ ExchangeAt(x, "open")
    /\ ExchangeNext(x, IF UserRow(x) THEN "sign" ELSE "over")
    /\ opened' = [c \in Code |->
            IF UserRow(x) /\ c = exchanges[x].code THEN opened[c] \cup {x} ELSE opened[c]]
    /\ UNCHANGED <<codes, shared>>

(* The access token, and for the scope "openid" an ID token, which may be  *)
(* signed with the next key by then.                                       *)
SignExchange(x) ==
    /\ ExchangeAt(x, "sign")
    /\ Sign(NewToken(x))
    /\ \E openid \in BOOLEAN : ExchangeNext(x, IF openid THEN "id" ELSE "over")
    /\ UNCHANGED <<codes, opened, shared>>

SignIdToken(x) ==
    /\ ExchangeAt(x, "id")
    /\ Sign(NewToken(x))
    /\ ExchangeNext(x, "over")
    /\ UNCHANGED <<codes, opened, shared>>

(* A statement or a call of Redis fails.                                   *)
ExchangeFails(x) ==
    /\ exchanges[x].step \notin {"idle", "over"}
    /\ ExchangeNext(x, "over")
    /\ UNCHANGED <<codes, opened, shared>>

ExchangeStep(x) ==
    /\ \/ /\ \/ BeginExchange(x) \/ GetCode(x) \/ DeleteCode(x)
             \/ LoadUser(x) \/ CreateOAuthSession(x)
          /\ UNCHANGED keyVars
       \/ SignExchange(x) \/ SignIdToken(x)
    /\ UnchangedRegistry

(* The process dies with the calls it was serving; the codes are in Redis. *)
LoseCalls ==
    /\ registry' = [a \in Admin |-> IF RegistryAt(a, "idle") THEN registry[a]
                                    ELSE [registry[a] EXCEPT !.step = "over"]]
    /\ disputed' = (disputed \/ \E a \in Admin : Written(a))
    /\ codes' = [c \in Code |-> IF codes[c] = "validated" THEN "gone" ELSE codes[c]]
    /\ exchanges' = [x \in Exchange |-> IF ExchangeAt(x, "idle") THEN exchanges[x]
                                        ELSE [exchanges[x] EXCEPT !.step = "over"]]
    /\ UNCHANGED <<application, clientSecret, handed, opened, shared>>

-----------------------------------------------------------------------------
(* A code opens at most one session, however many exchanges present it and *)
(* however they fail, unless one of them reads it before another that has  *)
(* read it deletes it (oauth.ts:114-124 reads and deletes in two calls).   *)
OneSessionPerCode ==
    \A c \in Code : Cardinality(opened[c]) <= 1 \/ c \in shared

(* The secret an administrator was handed last is the one the token        *)
(* endpoint takes, once nobody is changing it, unless two calls had both   *)
(* stored theirs before they answered, or one failed after it had          *)
(* (applications.ts:194-208: the audit row comes between).                 *)
LastSecretWorks ==
    \/ \E a \in Admin : Written(a)
    \/ disputed
    \/ clientSecret = handed
=============================================================================
