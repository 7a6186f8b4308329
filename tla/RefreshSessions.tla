--------------------------- MODULE RefreshSessions ---------------------------
(***************************************************************************)
(* Sessions and rotating refresh tokens: apps/api/src/services/session.ts, *)
(* refresh in services/auth.ts and the session check of plugins/auth.ts.   *)
(*                                                                         *)
(* Each request is a small program: every statement that runs in its own   *)
(* transaction is one action, and other requests run in between.  The      *)
(* statements of the rotation transaction after its SELECT are one action, *)
(* its COMMIT: PostgreSQL keeps them invisible until then, and the row     *)
(* locks it holds make other writers of the same rows wait for it.         *)
(***************************************************************************)

CONSTANTS
    User,
    Device,
    Session,                \* rows the sessions table may ever hold
    Token,                  \* rows the refresh_tokens table may ever hold
    Request,                \* handlers that may be running at the same time
    Owner,                  \* devices.user_id: [Device -> User]
    MayStop,                \* requests that may die between two statements
    MayExpire,              \* sessions and tokens whose time may run out
    None                    \* SQL's NULL

ASSUME OwnerAssumption == Owner \in [Device -> User]
ASSUME StopAssumption == MayStop \subseteq Request
ASSUME ExpireAssumption == MayExpire \subseteq Session \cup Token
ASSUME NoneAssumption == None \notin User \cup Device \cup Session \cup Token

VARIABLES
    sessions,               \* the sessions table
    tokens,                 \* the refresh_tokens table
    revokedDevices,         \* devices with revoked_at set
    locked,                 \* users BLOCKED, TERMINATED or DISABLED
    access,                 \* sessions an unexpired access token names
    requests                \* where each request stands

vars == <<sessions, tokens, revokedDevices, locked, access, requests>>
tables == <<sessions, tokens, revokedDevices>>

-----------------------------------------------------------------------------
(* Rows.  A row whose user or session is None has not been inserted.       *)

(* "idle": idle_expires_at has passed; "over": expires_at has passed.      *)
Expiry == {"fresh", "idle", "over"}

SessionRow == [user : User \cup {None}, device : Device \cup {None},
               revoked : BOOLEAN, expiry : Expiry]

(* token_family is one per session, so "session" stands for both columns.  *)
(* "by" is not a column: it records which request minted the token.        *)
TokenRow == [session : Session \cup {None}, rotatedFrom : Token \cup {None},
             revoked : BOOLEAN, expired : BOOLEAN,
             by : Request \cup {None}]

(* The statement a request is about to run.                                *)
Step == {"idle",            \* no statement: the request slot is free
         "mint",            \* rotateRefreshToken: INSERT, UPDATEs, COMMIT
         "familyTokens",    \* revokeTokenFamily: UPDATE refresh_tokens
         "familySession",   \* revokeTokenFamily: UPDATE sessions
         "account",         \* refresh: getSessionById, getUserById
         "issue",           \* issueAccessToken
         "refused",         \* refresh: logoutSession of a locked account
         "endTokens",       \* UPDATE refresh_tokens of the sessions ended
         "deviceSessions",  \* revokeDevice: UPDATE sessions
         "deviceTokens"}    \* revokeDevice: UPDATE refresh_tokens

RequestState == [step : Step, stopped : BOOLEAN,
                 token : Token \cup {None}, targets : SUBSET Session,
                 device : Device \cup {None}]

NoSession == [user |-> None, device |-> None,
              revoked |-> FALSE, expiry |-> "fresh"]
NoToken == [session |-> None, rotatedFrom |-> None, revoked |-> FALSE,
            expired |-> FALSE, by |-> None]
Idle == [step |-> "idle", stopped |-> FALSE, token |-> None, targets |-> {},
         device |-> None]

TypeOK ==
    /\ sessions \in [Session -> SessionRow]
    /\ tokens \in [Token -> TokenRow]
    /\ revokedDevices \subseteq Device
    /\ locked \subseteq User
    /\ access \subseteq Session
    /\ requests \in [Request -> RequestState]

Init ==
    /\ sessions = [s \in Session |-> NoSession]
    /\ tokens = [t \in Token |-> NoToken]
    /\ revokedDevices = {}
    /\ locked = {}
    /\ access = {}
    /\ requests = [r \in Request |-> Idle]

SessionExists(s) == sessions[s].user # None
TokenExists(t) == tokens[t].session # None
TokensOf(S) == {t \in Token : tokens[t].session \in S}
At(r, step) == requests[r].step = step /\ ~requests[r].stopped

-----------------------------------------------------------------------------
(* What the code decides from a row.                                       *)

SpentIfRevoked(t) == tokens[t].revoked                     \* mutant
SpentIfRotated(t) == tokens[t].rotatedFrom # None          \* mutant
(* The reuse test of rotateRefreshToken: a token that was revoked, and     *)
(* also every token that was itself obtained by a rotation.                *)
Spent(t) == tokens[t].revoked \/ tokens[t].rotatedFrom # None

(* A token rotateRefreshToken would accept now, were it not expired.       *)
Redeemable(t) == TokenExists(t) /\ ~Spent(t)

UsableIfNotRevoked(s) == ~sessions[s].revoked              \* mutant
(* sessionUsable.                                                          *)
Usable(s) == ~sessions[s].revoked /\ sessions[s].expiry = "fresh"

(* authenticate lets a bearer of an access token for session s in.         *)
Admits(s) ==
    /\ s \in access
    /\ sessions[s].user \notin locked
    /\ Usable(s)

-----------------------------------------------------------------------------
(* UPDATE statements.                                                      *)

RevokeSessionRows(S) ==
    sessions' = [s \in Session |->
                   IF s \in S THEN [sessions[s] EXCEPT !.revoked = TRUE]
                   ELSE sessions[s]]

RevokeTokenRows(S) ==
    tokens' = [t \in Token |->
                 IF t \in TokensOf(S) THEN [tokens[t] EXCEPT !.revoked = TRUE]
                 ELSE tokens[t]]

LiveSessionsOf(u) == {s \in Session : /\ sessions[s].user = u
                                      /\ ~sessions[s].revoked}

SessionsOn(d) == {s \in Session : sessions[s].device = d}

Goto(r, step) == requests' = [requests EXCEPT ![r].step = step]
Finish(r) == requests' = [requests EXCEPT ![r] = Idle]

GotoWith(r, step, token, targets, device) ==
    requests' = [requests EXCEPT
                   ![r] = [step |-> step, stopped |-> FALSE, token |-> token,
                           targets |-> targets, device |-> device]]

NewToken(s, from, r) ==
    [session |-> s, rotatedFrom |-> from, revoked |-> FALSE,
     expired |-> FALSE, by |-> r]

-----------------------------------------------------------------------------
(* Signing in.                                                             *)

(* createSession: session and first token in one transaction; the device   *)
(* row is upserted, which leaves its revoked_at as it was.  finalizeLogin  *)
(* then issues the access token.                                           *)
CreateSession(r, s, t, u, d) ==
    /\ At(r, "idle")
    /\ ~SessionExists(s)
    /\ ~TokenExists(t)
    /\ d # None => Owner[d] = u
    /\ sessions' = [sessions EXCEPT
                      ![s] = [user |-> u, device |-> d,
                              revoked |-> FALSE, expiry |-> "fresh"]]
    /\ tokens' = [tokens EXCEPT ![t] = NewToken(s, None, r)]
    /\ GotoWith(r, "issue", None, {s}, None)
    /\ UNCHANGED <<revokedDevices, locked, access>>

(* issueAccessToken, the last statement of finalizeLogin and of refresh.   *)
IssueAccess(r) ==
    /\ At(r, "issue")
    /\ access' = access \cup requests[r].targets
    /\ Finish(r)
    /\ UNCHANGED <<tables, locked>>

-----------------------------------------------------------------------------
(* Refreshing: auth.ts refresh around session.ts rotateRefreshToken.       *)

(* BEGIN and SELECT of the presented token, which any holder may present   *)
(* at any time, then the branch taken.  The row is not locked.  An unknown *)
(* token is turned away; for an expired one the UPDATE that marks it is    *)
(* rolled back by the throw that follows, so nothing changes either.       *)
PresentToken(r, t) ==
    /\ At(r, "idle")
    /\ TokenExists(t)
    /\ \/ /\ Spent(t)
          /\ GotoWith(r, "familyTokens", t, {tokens[t].session}, None)
       \/ /\ ~Spent(t)
          /\ ~tokens[t].expired
          /\ GotoWith(r, "mint", t, {tokens[t].session}, None)
    /\ UNCHANGED <<tables, locked, access>>

(* Mutants: the row read earlier is written back; the TTL is NULL.         *)
TouchedFromStaleRow(s) == [sessions[s] EXCEPT !.expiry = "fresh",
                                              !.revoked = FALSE]
TouchedWithNullTtl(s) == [sessions[s] EXCEPT !.expiry = None]
(* last_active_at and idle_expires_at move on, expires_at does not.        *)
Touched(s) ==
    IF sessions[s].revoked \/ sessions[s].expiry = "over" THEN sessions[s]
    ELSE [sessions[s] EXCEPT !.expiry = "fresh"]

(* Mutant: the presented token is not marked as rotated.                   *)
MintAndKeepPresented(r, n) ==
    LET p == requests[r].token IN
    tokens' = [tokens EXCEPT ![n] = NewToken(tokens[p].session, p, r)]

(* INSERT of the new token n and UPDATE of the presented one.              *)
Mint(r, n) ==
    LET p == requests[r].token IN
    tokens' = [t \in Token |->
                 IF t = n THEN NewToken(tokens[p].session, p, r)
                 ELSE IF t = p THEN [tokens[t] EXCEPT !.revoked = TRUE]
                 ELSE tokens[t]]

(* The rest of the transaction.  It goes by the row its SELECT returned,   *)
(* whatever has happened to the token or to its session since.             *)
CommitRotation(r, n) ==
    /\ At(r, "mint")
    /\ ~TokenExists(n)
    /\ Mint(r, n)
    /\ sessions' = [s \in Session |-> IF s \in requests[r].targets
                                      THEN Touched(s) ELSE sessions[s]]
    /\ Goto(r, "account")
    /\ UNCHANGED <<revokedDevices, locked, access>>

(* revokeTokenFamily runs on a connection of its own: both statements stay *)
(* although the rotation's transaction is rolled back by the throw.        *)
RevokeFamilyTokens(r) ==
    /\ At(r, "familyTokens")
    /\ RevokeTokenRows(requests[r].targets)
    /\ Goto(r, "familySession")
    /\ UNCHANGED <<sessions, revokedDevices, locked, access>>

RevokeFamilySession(r) ==
    /\ At(r, "familySession")
    /\ RevokeSessionRows(requests[r].targets)
    /\ Finish(r)
    /\ UNCHANGED <<tokens, revokedDevices, locked, access>>

(* After the rotation has committed, refresh looks at the account.  It     *)
(* does not look at whether the session is still usable.                   *)
CheckAccount(r) ==
    /\ At(r, "account")
    /\ \E s \in requests[r].targets :
         IF sessions[s].user \in locked THEN Goto(r, "refused")
         ELSE Goto(r, "issue")
    /\ UNCHANGED <<tables, locked, access>>

(* logoutSession, its first UPDATE.                                        *)
EndRefusedSession(r) ==
    /\ At(r, "refused")
    /\ RevokeSessionRows(requests[r].targets)
    /\ Goto(r, "endTokens")
    /\ UNCHANGED <<tokens, revokedDevices, locked, access>>

-----------------------------------------------------------------------------
(* Ending sessions.                                                        *)

(* Mutant: the refresh tokens are forgotten.                               *)
RevokeSessionOnly(r, s) ==
    /\ At(r, "idle")
    /\ SessionExists(s)
    /\ RevokeSessionRows({s})
    /\ UNCHANGED <<tokens, revokedDevices, locked, access, requests>>

(* revokeSession and logoutSession: UPDATE sessions, then UPDATE tokens.   *)
RevokeSession(r, s) ==
    /\ At(r, "idle")
    /\ SessionExists(s)
    /\ RevokeSessionRows({s})
    /\ GotoWith(r, "endTokens", None, {s}, None)
    /\ UNCHANGED <<tokens, revokedDevices, locked, access>>

(* Mutant: the tokens are revoked by user, the kept session's included.    *)
RevokeAllButKeepNoToken(r, u, keep) ==
    /\ At(r, "idle")
    /\ LiveSessionsOf(u) # {}
    /\ RevokeSessionRows(LiveSessionsOf(u) \ {keep})
    /\ GotoWith(r, "endTokens", None, LiveSessionsOf(u), None)
    /\ UNCHANGED <<tokens, revokedDevices, locked, access>>

(* revokeAllUserSessions: the ids RETURNING gives are the ones whose       *)
(* tokens the second statement revokes; with no id there is no second one. *)
RevokeAllUserSessions(r, u, keep) ==
    LET ended == LiveSessionsOf(u) \ {keep} IN
    /\ At(r, "idle")
    /\ ended # {}
    /\ RevokeSessionRows(ended)
    /\ GotoWith(r, "endTokens", None, ended, None)
    /\ UNCHANGED <<tokens, revokedDevices, locked, access>>

RevokeTokensOfEnded(r) ==
    /\ At(r, "endTokens")
    /\ RevokeTokenRows(requests[r].targets)
    /\ Finish(r)
    /\ UNCHANGED <<sessions, revokedDevices, locked, access>>

(* revokeDevice: the device row is matched with the user the caller names, *)
(* the sessions and tokens by the device alone.                            *)
RevokeDevice(r, d, u) ==
    /\ At(r, "idle")
    /\ revokedDevices' = revokedDevices \cup {x \in {d} : Owner[x] = u}
    /\ GotoWith(r, "deviceSessions", None, {}, d)
    /\ UNCHANGED <<sessions, tokens, locked, access>>

RevokeDeviceSessions(r) ==
    /\ At(r, "deviceSessions")
    /\ RevokeSessionRows(SessionsOn(requests[r].device))
    /\ Goto(r, "deviceTokens")
    /\ UNCHANGED <<tokens, revokedDevices, locked, access>>

(* The subselect runs again: sessions created since are included.          *)
RevokeDeviceTokens(r) ==
    /\ At(r, "deviceTokens")
    /\ RevokeTokenRows(SessionsOn(requests[r].device))
    /\ Finish(r)
    /\ UNCHANGED <<sessions, revokedDevices, locked, access>>

-----------------------------------------------------------------------------
(* The surroundings.                                                       *)

(* A statement fails, or the process or its connection is lost.  In these  *)
(* steps nothing half-done remains: a rotation is rolled back, a committed *)
(* one merely goes unanswered.                                             *)
Drop(r) ==
    /\ r \in MayStop
    /\ \E step \in {"mint", "account", "issue", "refused"} : At(r, step)
    /\ Finish(r)
    /\ UNCHANGED <<tables, locked, access>>

(* In these a revocation is left half-done, and nobody takes it up again.  *)
(* The slot stays taken, as the record of what was left undone.            *)
Stop(r) ==
    /\ r \in MayStop
    /\ \E step \in {"familyTokens", "familySession", "endTokens",
                    "deviceSessions", "deviceTokens"} : At(r, step)
    /\ requests' = [requests EXCEPT ![r].stopped = TRUE]
    /\ UNCHANGED <<tables, locked, access>>

(* changeAccountState, in and out of the states that lock an account.      *)
ChangeAccountState(u) ==
    /\ locked' = (IF u \in locked THEN locked \ {u} ELSE locked \cup {u})
    /\ UNCHANGED <<tables, access, requests>>

(* Time passes.                                                            *)
SessionExpires(s) ==
    /\ s \in MayExpire
    /\ SessionExists(s)
    /\ \/ /\ sessions[s].expiry = "fresh"
          /\ sessions' = [sessions EXCEPT ![s].expiry = "idle"]
       \/ /\ sessions[s].expiry # "over"
          /\ sessions' = [sessions EXCEPT ![s].expiry = "over"]
    /\ UNCHANGED <<tokens, revokedDevices, locked, access, requests>>

TokenExpires(t) ==
    /\ t \in MayExpire
    /\ TokenExists(t)
    /\ ~tokens[t].expired
    /\ tokens' = [tokens EXCEPT ![t].expired = TRUE]
    /\ UNCHANGED <<sessions, revokedDevices, locked, access, requests>>

AccessExpires(s) ==
    /\ s \in access
    /\ access' = access \ {s}
    /\ UNCHANGED <<tables, locked, requests>>

Advance(r) ==
    \/ IssueAccess(r)
    \/ \E n \in Token : CommitRotation(r, n)
    \/ RevokeFamilyTokens(r)
    \/ RevokeFamilySession(r)
    \/ CheckAccount(r)
    \/ EndRefusedSession(r)
    \/ RevokeTokensOfEnded(r)
    \/ RevokeDeviceSessions(r)
    \/ RevokeDeviceTokens(r)

Begin(r) ==
    \/ \E s \in Session, t \in Token, u \in User, d \in Device \cup {None} :
         CreateSession(r, s, t, u, d)
    \/ \E t \in Token : PresentToken(r, t)
    \/ \E s \in Session : RevokeSession(r, s)
    \/ \E u \in User, keep \in Session \cup {None} :
         RevokeAllUserSessions(r, u, keep)
    \/ \E d \in Device, u \in User : RevokeDevice(r, d, u)

Next ==
    \/ \E r \in Request : Begin(r) \/ Advance(r) \/ Drop(r) \/ Stop(r)
    \/ \E u \in User : ChangeAccountState(u)
    \/ \E s \in Session : SessionExpires(s) \/ AccessExpires(s)
    \/ \E t \in Token : TokenExpires(t)

Spec == Init /\ [][Next]_vars

-----------------------------------------------------------------------------
(* The inductive invariant behind the properties below.                    *)

(* A row that has not been inserted carries no data.                       *)
BlankRows ==
    /\ \A s \in Session : ~SessionExists(s) =>
         sessions[s].device = None /\ ~sessions[s].revoked
    /\ \A t \in Token : ~TokenExists(t) =>
         tokens[t].rotatedFrom = None /\ ~tokens[t].revoked
    /\ \A t \in Token : TokenExists(t) => SessionExists(tokens[t].session)

(* What a request has established by the time it reaches a step.           *)
RequestReady(r) ==
    LET q == requests[r] IN
    /\ \A s \in q.targets : SessionExists(s)
    /\ q.step = "mint" =>
         /\ q.token \in Token
         /\ TokenExists(q.token)
         /\ tokens[q.token].rotatedFrom = None
         /\ q.targets = {tokens[q.token].session}
    /\ q.step \in {"deviceSessions", "deviceTokens"} => q.device \in Device
    /\ q.step = "endTokens" => \A s \in q.targets : sessions[s].revoked
    /\ q.step = "familySession" =>
         \A t \in TokensOf(q.targets) : ~Redeemable(t)

(* A request about to mint from a token has not minted from it before.     *)
MintsOnce ==
    \A r \in Request, t \in Token :
        /\ requests[r].step = "mint"
        /\ tokens[t].rotatedFrom = requests[r].token
        => tokens[t].by # r

(* A session has one token that no rotation produced.                      *)
OneFirstToken ==
    \A t1, t2 \in Token :
        /\ TokenExists(t1)
        /\ tokens[t1].session = tokens[t2].session
        /\ tokens[t1].rotatedFrom = None
        /\ tokens[t2].rotatedFrom = None
        => t1 = t2

-----------------------------------------------------------------------------
(* Properties.                                                             *)

(* Whether a request has revoked session s and still has to revoke its     *)
(* tokens, or stopped before it did.                                       *)
RevocationUnfinished(s) ==
    \E r \in Request :
        \/ requests[r].step = "endTokens" /\ s \in requests[r].targets
        \/ /\ requests[r].step = "deviceTokens"
           /\ sessions[s].device = requests[r].device

(* A token obtained by a rotation descends from the first token of its own *)
(* session, and that one is dead: rotateRefreshToken leaves no moment, on  *)
(* any interleaving, at which both the old and the new token are live.     *)
RotationChain ==
    \A t \in Token : tokens[t].rotatedFrom # None =>
        LET p == tokens[t].rotatedFrom IN
        /\ TokenExists(p)
        /\ tokens[p].session = tokens[t].session
        /\ tokens[p].rotatedFrom = None
        /\ tokens[p].revoked

(* rotateRefreshToken does not lock the row it reads, so one token can be  *)
(* redeemed several times, but never twice by handlers that ran one after  *)
(* the other: all its descendants come from requests that overlapped, and  *)
(* with a single request at a time a token is redeemed at most once.       *)
OneMintPerRequest ==
    \A t1, t2 \in Token :
        /\ t1 # t2
        /\ tokens[t1].rotatedFrom # None
        /\ tokens[t1].rotatedFrom = tokens[t2].rotatedFrom
        => tokens[t1].by # tokens[t2].by

(* Logout, revokeSession, revokeAllUserSessions, revokeDevice and reuse    *)
(* detection each take two or three statements that other requests and     *)
(* process deaths can separate.  A revoked session still holds a token     *)
(* that can be redeemed only while the request that revoked it has not     *)
(* run its second statement.                                               *)
NoOrphanCredential ==
    \A t \in Token :
        Redeemable(t) /\ sessions[tokens[t].session].revoked
            => RevocationUnfinished(tokens[t].session)

(* A session without a device row never loses its first token behind its   *)
(* user's back: that token is dead only after it was rotated, once the     *)
(* session is revoked too, or while reuse detection is about to revoke it. *)
FirstTokenDiesForACause ==
    \A t \in Token :
        LET s == tokens[t].session IN
        /\ TokenExists(t)
        /\ tokens[t].rotatedFrom = None
        /\ tokens[t].revoked
        /\ sessions[s].device = None
        => \/ sessions[s].revoked
           \/ \E c \in Token : tokens[c].rotatedFrom = t
           \/ \E r \in Request : /\ requests[r].step = "familySession"
                                 /\ s \in requests[r].targets

IInv ==
    /\ TypeOK
    /\ BlankRows
    /\ \A r \in Request : RequestReady(r)
    /\ RotationChain
    /\ MintsOnce
    /\ OneMintPerRequest
    /\ NoOrphanCredential
    /\ FirstTokenDiesForACause

Ended(s) ==
    /\ SessionExists(s)
    /\ sessions[s].revoked \/ sessions[s].expiry = "over"

(* Once a session is revoked or past its absolute expiry, no later state   *)
(* admits a bearer of its access tokens: not a refresh that was in flight, *)
(* whose commit touches the session and whose access token is issued after *)
(* the revocation, nor an unlocked account, nor another sign-in.           *)
NoAccessAfterEnd ==
    [][\A s \in Session : Ended(s) => Ended(s)' /\ ~Admits(s)']_vars

(* What callers are promised: see SessionLifecycle.                        *)
CredentialOf(s) ==
    IF ~SessionExists(s) THEN "absent"
    ELSE IF \E t \in TokensOf({s}) : Redeemable(t) THEN "fresh" ELSE "spent"

Lifecycle == INSTANCE SessionLifecycle WITH
    credential <- [s \in Session |-> CredentialOf(s)],
    closed <- {s \in Session : sessions[s].revoked}

(* Whatever statements of whatever requests interleave, a session's        *)
(* redeemable credential is handed out once, is used up or withdrawn once, *)
(* and a revoked session is never restored.                                *)
ImplementsLifecycle == Lifecycle!Spec

(* Node runs every handler that has not been lost to completion.           *)
FairSpec == Spec /\ \A r \in Request : WF_vars(Advance(r))

(* Every revocation of a session, however it was started, ends with no     *)
(* redeemable token left in it, unless a request has died half-way.        *)
RevocationCompletes ==
    \A s \in Session :
        SessionExists(s) /\ sessions[s].revoked
            ~> \/ \A t \in TokensOf({s}) : ~Redeemable(t)
               \/ \E r \in Request : requests[r].stopped

(* session.ts:125, "Reuse detection: a token that was already rotated away *)
(* was presented again": reuse is declared of no other token.              *)
ReuseMeansReuse ==
    \A r \in Request :
        requests[r].step = "familyTokens" => tokens[requests[r].token].revoked
=============================================================================
