----------------------------- MODULE WebClient -----------------------------
(***************************************************************************)
(* A page of the web application and the API behind it, as far as signing  *)
(* in goes: apps/web/src/lib/api.ts, lib/auth.tsx and features/auth, with  *)
(* the handlers of routes/auth.ts they call.                               *)
(*                                                                         *)
(* Tokens are two variables of a module of the page, and the user a state  *)
(* of a component: neither outlives the page.  A call that is refused is   *)
(* repeated once, after the one refresh that may be in flight at a time.   *)
(* Calls are served in any order, and either way of one may be lost.       *)
(***************************************************************************)
EXTENDS SigningKeys

CONSTANTS
    Call,                   \* the calls the page may have out at a time
    Account,                \* who may sign in on it
    MfaAccount,             \* those who are asked for a second factor
    Session,                \* the sessions their signing in opens
    OtpCells,               \* cells of the screen that asks for the code
    CodeLengths             \* lengths of code the API takes

(* The refresh token of a session, and the one it is exchanged for.        *)
RefreshToken == Session \X {0, 1}

ASSUME RefreshTokenAssumption ==
    RefreshToken \subseteq Bearer /\ None \notin AccessToken
ASSUME MfaAssumption == MfaAccount \subseteq Account /\ None \notin Account

VARIABLES
    tokens,                 \* accessToken and refreshToken; the access token
                            \* names the refresh token that came with it
    user, hydrating,        \* the state of AuthProvider
    flight,                 \* refreshPromise
    calls,                  \* the calls of request()
    sessions,               \* the rows of sessions in the database
    expired,                \* the access tokens whose time is over
    presented,              \* how often a refresh token has been sent
    crossed                 \* an answer has crossed another that sets the
                            \* tokens or the user
webVars == <<tokens, user, hydrating, flight, calls, sessions, expired, presented, crossed>>

Kind == {"login", "code", "load", "logout"}
Reply == {"none", "ok", "refused", "challenge"}
CallRow == [kind : Kind \cup {None}, account : Account \cup {None},
            step : {"idle", "sent", "answered", "screen", "waiting", "over"},
            sent : AccessToken \cup {None}, retried : BOOLEAN,
            reply : Reply, grant : AccessToken \cup {None}]
Idle == [kind |-> None, account |-> None, step |-> "idle", sent |-> None,
         retried |-> FALSE, reply |-> "none", grant |-> None]
NoFlight == [step |-> "none", token |-> None, grant |-> None]

WebTypeOK ==
    /\ tokens \in AccessToken \cup {None}
    /\ user \in Account \cup {None}
    /\ hydrating \in BOOLEAN
    /\ flight \in [step : {"none", "sent", "answered"},
                   token : RefreshToken \cup {None}, grant : AccessToken \cup {None}]
    /\ calls \in [Call -> CallRow]
    /\ sessions \in [Session -> [state : {"none", "fresh", "rotated", "ended"},
                                 account : Account \cup {None}]]
    /\ expired \subseteq signed
    /\ presented \in [RefreshToken -> Nat]
    /\ crossed \in BOOLEAN

Opened == \E c \in Call : calls[c].step # "over"

(* A call that is over before it began is one the page never makes; a page *)
(* that makes none is never opened.                                        *)
WebInit ==
    /\ tokens = None
    /\ user = None
    /\ flight = NoFlight
    /\ calls \in [Call -> {Idle, [Idle EXCEPT !.step = "over"]}]
    /\ hydrating = Opened
    /\ sessions = [s \in Session |-> [state |-> "none", account |-> None]]
    /\ expired = {}
    /\ presented = [t \in RefreshToken |-> 0]
    /\ crossed = FALSE

-----------------------------------------------------------------------------
(* What a call of the page becomes; a page that is done with it may make   *)
(* another in its place.                                                   *)
CallAt(c, kinds, s) == calls[c].kind \in kinds /\ calls[c].step = s
Becomes(c, row) == calls' = [calls EXCEPT ![c] = row]
Done(c) == Becomes(c, Idle)
Send(c, kind, who) ==
    Becomes(c, [Idle EXCEPT !.kind = kind, !.account = who, !.step = "sent", !.sent = tokens])
Answers(c, reply, grant) ==
    Becomes(c, [calls[c] EXCEPT !.step = "answered", !.reply = reply, !.grant = grant])

UnchangedServer == UNCHANGED <<sessions, expired>> /\ UNCHANGED keyVars
UnchangedPage == UNCHANGED <<tokens, user, hydrating, flight, presented, crossed>>

(* An access token is good while its signature verifies, its time is not   *)
(* over and its session lasts.                                             *)
Admits(t) ==
    /\ t # None
    /\ Verifies(t)
    /\ t \notin expired
    /\ sessions[t.bearer[1]].state \in {"fresh", "rotated"}

-----------------------------------------------------------------------------
(* The page asks who is signed in as soon as it is there, when it has no   *)
(* token yet: the answer is always a refusal, whenever it comes.           *)
Hydrate ==
    /\ hydrating
    /\ hydrating' = FALSE
    /\ user' = None
    /\ crossed' = (crossed \/ user # None)
    /\ UNCHANGED <<tokens, flight, calls, presented>>
    /\ UnchangedServer

(* The sign-in form, which is disabled while it waits for an answer.       *)
SubmitLogin(c) ==
    /\ calls[c].step = "idle"
    /\ user = None
    /\ \A d \in Call : calls[d].kind = "login" => calls[d].step \notin {"sent", "answered"}
    /\ \E a \in Account : Send(c, "login", a)
    /\ UnchangedPage
    /\ UnchangedServer

(* The screen for the code: once its cells are full its animation runs to  *)
(* its end and sends the code, even when the user has gone back; before    *)
(* that, going back gives the sign-in up.                                  *)
SubmitCode(c) ==
    /\ CallAt(c, {"login"}, "screen")
    /\ Send(c, "code", calls[c].account)
    /\ UnchangedPage
    /\ UnchangedServer

GoBack(c) ==
    /\ CallAt(c, {"login"}, "screen")
    /\ Done(c)
    /\ UnchangedPage
    /\ UnchangedServer

(* login and verifyMfaAndLogin: a session and its tokens, a challenge, or  *)
(* a refusal, as when the code has not the length the API takes.           *)
Fits == OtpCells \in CodeLengths
NewSession == CHOOSE s \in Session : sessions[s].state = "none"

ServeSignIn(c) ==
    /\ CallAt(c, {"login", "code"}, "sent")
    /\ \E s \in Session : sessions[s].state = "none"
    /\ LET who == calls[c].account
           t == NewToken(<<NewSession, 0>>) IN
       \E valid \in BOOLEAN :
        LET takes == valid /\ (calls[c].kind = "code" => Fits)
            challenge == takes /\ calls[c].kind = "login" /\ who \in MfaAccount
            opens == takes /\ ~challenge IN
        /\ Answers(c, CASE challenge -> "challenge" [] opens -> "ok" [] OTHER -> "refused",
                   IF opens THEN t ELSE None)
        /\ sessions' = IF opens THEN [sessions EXCEPT ![NewSession] =
                                        [state |-> "fresh", account |-> who]]
                       ELSE sessions
        /\ IF opens THEN Sign(t) ELSE UNCHANGED keyVars
    /\ UNCHANGED expired
    /\ UnchangedPage

(* The form shows the screen for the code, or is done.                     *)
FormAfter(c) ==
    IF calls[c].reply = "challenge" THEN Becomes(c, [calls[c] EXCEPT !.step = "screen"])
    ELSE Done(c)

(* setTokens and setUser with the answer.                                  *)
FinishSignIn(c) ==
    /\ CallAt(c, {"login", "code"}, "answered")
    /\ IF calls[c].reply = "ok"
       THEN /\ tokens' = calls[c].grant
            /\ user' = calls[c].account
            /\ crossed' = (flight.step # "none")
       ELSE UNCHANGED <<tokens, user, crossed>>
    /\ FormAfter(c)
    /\ UNCHANGED <<hydrating, flight, presented>>
    /\ UnchangedServer

-----------------------------------------------------------------------------
(* A page of the console loads its data.                                   *)
Load(c) ==
    /\ calls[c].step = "idle"
    /\ user # None
    /\ Send(c, "load", None)
    /\ UnchangedPage
    /\ UnchangedServer

ServeLoad(c) ==
    /\ CallAt(c, {"load"}, "sent")
    /\ Answers(c, IF Admits(calls[c].sent) THEN "ok" ELSE "refused", None)
    /\ UnchangedPage
    /\ UnchangedServer

(* A first refusal is taken to refreshSession when there is a refresh      *)
(* token; anything else is the caller's.                                   *)
Refreshable(c) == calls[c].reply = "refused" /\ ~calls[c].retried /\ tokens # None

Present == /\ flight' = [NoFlight EXCEPT !.step = "sent", !.token = tokens.bearer]
           /\ presented' = [presented EXCEPT ![tokens.bearer] = @ + 1]

FinishLoad(c) ==
    /\ CallAt(c, {"load"}, "answered")
    /\ ~Refreshable(c)
    /\ Done(c)
    /\ UnchangedPage
    /\ UnchangedServer

(* Every refused call refreshes by itself.                                 *)
RefreshAlone(c) ==
    /\ CallAt(c, {"load"}, "answered")
    /\ Refreshable(c)
    /\ Becomes(c, [calls[c] EXCEPT !.step = "waiting"])
    /\ Present
    /\ UNCHANGED <<tokens, user, hydrating, crossed>>
    /\ UnchangedServer

(* refreshSession: the refused call waits for the one refresh.             *)
RefreshSession(c) ==
    /\ CallAt(c, {"load"}, "answered")
    /\ Refreshable(c)
    /\ Becomes(c, [calls[c] EXCEPT !.step = "waiting"])
    /\ IF flight.step = "none" THEN Present ELSE UNCHANGED <<flight, presented>>
    /\ UNCHANGED <<tokens, user, hydrating, crossed>>
    /\ UnchangedServer

(* refresh: the first token of a session is exchanged for the second; any  *)
(* other one ends the session.                                             *)
ServeRefresh ==
    /\ flight.step = "sent"
    /\ LET s == flight.token[1]
           t == NewToken(<<s, 1>>)
           rotates == sessions[s].state = "fresh" /\ flight.token[2] = 0 IN
        /\ flight' = [flight EXCEPT !.step = "answered", !.grant = IF rotates THEN t ELSE None]
        /\ sessions' = [sessions EXCEPT ![s].state = IF rotates THEN "rotated" ELSE "ended"]
        /\ IF rotates THEN Sign(t) ELSE UNCHANGED keyVars
    /\ UNCHANGED <<tokens, user, hydrating, calls, expired, presented, crossed>>

(* The answer sets or clears the tokens, and every waiting call goes on in *)
(* the same turn of the event loop: repeated, or failed.  The user stays.  *)
Waiting(c) == calls[c].step = "waiting"

LandWith(grant) ==
    /\ tokens' = grant
    /\ flight' = NoFlight
    /\ calls' = [c \in Call |->
            IF ~Waiting(c) THEN calls[c]
            ELSE IF grant = None THEN Idle
            ELSE [Idle EXCEPT !.kind = "load", !.step = "sent", !.sent = grant, !.retried = TRUE]]
    /\ UNCHANGED <<user, hydrating, presented, crossed>>

FinishRefresh ==
    /\ flight.step = "answered"
    /\ LandWith(flight.grant)
    /\ UnchangedServer

-----------------------------------------------------------------------------
(* logout in the page, which ignores how the call ends.                    *)
SubmitLogout(c) ==
    /\ calls[c].step = "idle"
    /\ user # None
    /\ Send(c, "logout", None)
    /\ UnchangedPage
    /\ UnchangedServer

ServeLogout(c) ==
    /\ CallAt(c, {"logout"}, "sent")
    /\ LET t == calls[c].sent IN
        /\ Answers(c, IF Admits(t) THEN "ok" ELSE "refused", None)
        /\ sessions' = IF Admits(t) THEN [sessions EXCEPT ![t.bearer[1]].state = "ended"]
                       ELSE sessions
    /\ UNCHANGED expired
    /\ UNCHANGED keyVars
    /\ UnchangedPage

(* The page forgets the user, and keeps the tokens.                        *)
FinishLogoutKeepingTokens(c) ==
    /\ CallAt(c, {"logout"}, "answered")
    /\ Done(c)
    /\ user' = None
    /\ crossed' = (flight.step # "none")
    /\ UNCHANGED <<tokens, hydrating, flight, presented>>
    /\ UnchangedServer

FinishLogout(c) ==
    /\ CallAt(c, {"logout"}, "answered")
    /\ Done(c)
    /\ tokens' = None
    /\ user' = None
    /\ crossed' = (flight.step # "none")
    /\ UNCHANGED <<hydrating, flight, presented>>
    /\ UnchangedServer

-----------------------------------------------------------------------------
(* What may go wrong: a call is lost on its way or on its way back, an     *)
(* access token's time is over, the page is loaded anew.                   *)
CallFails(c) ==
    /\ calls[c].step \in {"sent", "answered"}
    /\ Becomes(c, [calls[c] EXCEPT !.step = "answered", !.reply = "none", !.grant = None])
    /\ calls' # calls
    /\ UnchangedPage
    /\ UnchangedServer

RefreshFails ==
    /\ flight.step \in {"sent", "answered"}
    /\ LandWith(None)
    /\ UnchangedServer

Expire ==
    /\ \E t \in signed \ expired : t.bearer \in RefreshToken /\ expired' = expired \cup {t}
    /\ UNCHANGED <<calls, sessions>>
    /\ UnchangedPage
    /\ UNCHANGED keyVars

Reload ==
    /\ Opened
    /\ tokens' = None
    /\ user' = None
    /\ hydrating' = TRUE
    /\ flight' = NoFlight
    /\ calls' = [c \in Call |-> IF calls[c].step = "over" THEN calls[c] ELSE Idle]
    /\ crossed' = FALSE
    /\ UNCHANGED presented
    /\ UnchangedServer

WebStep(c) ==
    \/ SubmitLogin(c) \/ SubmitCode(c) \/ GoBack(c) \/ ServeSignIn(c) \/ FinishSignIn(c)
    \/ Load(c) \/ ServeLoad(c) \/ FinishLoad(c) \/ RefreshSession(c)
    \/ SubmitLogout(c) \/ ServeLogout(c) \/ FinishLogout(c)

WebNext == Hydrate \/ ServeRefresh \/ FinishRefresh \/ (\E c \in Call : WebStep(c))
WebFault == RefreshFails \/ Expire \/ Reload \/ (\E c \in Call : CallFails(c))

-----------------------------------------------------------------------------
(* No refresh token is sent twice, however many calls are refused while    *)
(* one is in flight and however answers are lost (api.ts:71-95): the API   *)
(* takes the second time for theft and ends the session.                   *)
TokenPresentedOnce == \A t \in RefreshToken : presented[t] <= 1

(* The tokens the page sends are those of the user it shows, unless an     *)
(* answer that sets one of them crossed another: a sign-in or a logout a   *)
(* refresh in flight, or the first "who am I" a sign-in (auth.tsx:45,      *)
(* api.ts:85: nothing relates an answer to the state it was asked in).     *)
UserMatchesTokens ==
    ~crossed /\ tokens # None => user = sessions[tokens.bearer[1]].account
=============================================================================
