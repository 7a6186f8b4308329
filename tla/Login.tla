-------------------------------- MODULE Login --------------------------------
(***************************************************************************)
(* Signing in to one account: apps/api/src/services/auth.ts (login,        *)
(* verifyMfaAndLogin, finalizeLogin), the Redis counters and locks of      *)
(* redis.ts they use, and the account's row, which services/user.ts,       *)
(* services/wfm.ts and services/mfa.ts change.                             *)
(*                                                                         *)
(* Accounts share no state but the per-IP counter, which only delays, so   *)
(* one account stands for all.  Each awaited statement is one action.      *)
(***************************************************************************)
EXTENDS Naturals

CONSTANTS
    Password,
    Login,                  \* sign-in handlers that may run at a time
    Session,                \* sessions that may ever be opened
    Challenge,              \* MFA challenges that may ever be issued
    Guess,                  \* whether passwords submitted may be right, wrong
    MaxAttempts,            \* LOGIN_MAX_ATTEMPTS
    Initial,                \* passwords the account may be created with
    Target,                 \* the states administrators put the account in
    MayStop,                \* handlers that may die between two statements
    None                    \* SQL's NULL, a missing Redis key

(* changeAccountState and markAbsconded set no other state.                *)
Targets == {"ACTIVE", "SUSPENDED", "BLOCKED", "DISABLED", "TERMINATED"}

ASSUME AttemptsAssumption == MaxAttempts \in Nat \ {0}
ASSUME GuessAssumption == Guess \subseteq BOOLEAN
ASSUME InitialAssumption == Initial \subseteq Password \cup {None}
ASSUME TargetAssumption == Target \subseteq Targets
ASSUME NullAssumption == None \notin Password \cup Challenge \cup Login

VARIABLES
    account,                \* the row of users, and its active MFA factor
    attempts,               \* auth:attempts, 0 when the key is missing
    window,                 \* whether auth:attempts has a TTL
    lock,                   \* whether auth:lock exists
    challenge,              \* what auth:mfa holds
    issued,                 \* the password behind each challenge handed out
    sessions,               \* the sessions opened, and how
    logins                  \* where each sign-in stands

keys == <<attempts, window, lock>>
loginVars == <<account, keys, challenge, issued, sessions, logins>>

-----------------------------------------------------------------------------
State == Targets \cup {"PENDING", "LOCKED", "PASSWORD_RESET_REQUIRED"}

(* login turns these states away, authenticate and refresh only those.     *)
Barred == {"BLOCKED", "TERMINATED", "DISABLED", "SUSPENDED"}
Refused == {"BLOCKED", "TERMINATED", "DISABLED"}

(* "audited" is the state the audit log says the account was created in or *)
(* last put in by an administrator.                                        *)
Account == [state : State, audited : State, password : Password \cup {None},
            deleted : BOOLEAN, factor : BOOLEAN]

(* Of a session only "live" is a column (revoked_at).  The rest records    *)
(* how it came about: the password its user proved, the challenge if there *)
(* was one, the handler, whether the password had been changed by then,    *)
(* and whether a change of password has spared it.                         *)
SessionRow == [live : BOOLEAN, password : Password \cup {None},
               challenge : Challenge \cup {None}, by : Login \cup {None},
               late : BOOLEAN, kept : BOOLEAN]

(* The statement a sign-in is about to run.                                *)
Step == {"idle", "lock", "count", "window", "lockKey", "lockState", "clear",
         "factor", "challenge", "code", "spend", "open"}

(* The row findUserByIdentifier returned is used to the end: whether its   *)
(* state is barred, its password, and whether the one submitted is "right".*)
(* A handler that "stopped" never runs the statement it stands at.         *)
LoginState == [step : Step, barred : BOOLEAN, password : Password \cup {None},
               right : BOOLEAN, limit : BOOLEAN, stopped : BOOLEAN,
               challenge : Challenge \cup {None}]

NoSession == [live |-> FALSE, password |-> None, challenge |-> None,
              by |-> None, late |-> FALSE, kept |-> FALSE]
Idle == [step |-> "idle", barred |-> FALSE, password |-> None,
         right |-> FALSE, limit |-> FALSE, stopped |-> FALSE,
         challenge |-> None]

LoginTypeOK ==
    /\ account \in Account
    /\ attempts \in 0..MaxAttempts
    /\ window \in BOOLEAN
    /\ lock \in BOOLEAN
    /\ challenge \in Challenge \cup {None}
    /\ issued \in [Challenge -> Password \cup {None}]
    /\ sessions \in [Session -> SessionRow]
    /\ logins \in [Login -> LoginState]

(* createUser: with or without a password, active or to be activated;       *)
(* onboardEmployee gives no password and leaves the account PENDING.        *)
LoginInit ==
    /\ account \in [state : {"PENDING", "ACTIVE"},
                    audited : {"PENDING", "ACTIVE"},
                    password : Initial,
                    deleted : {FALSE}, factor : {FALSE}]
    /\ account.audited = account.state
    /\ attempts = 0
    /\ window = FALSE
    /\ lock = FALSE
    /\ challenge = None
    /\ issued = [c \in Challenge |-> None]
    /\ sessions = [s \in Session |-> NoSession]
    /\ logins = [r \in Login |-> Idle]

SessionExists(s) == sessions[s].password # None
At(r, step) == logins[r].step = step /\ ~logins[r].stopped
Goto(r, step) == logins' = [logins EXCEPT ![r].step = step]
Finish(r) == logins' = [logins EXCEPT ![r] = Idle]

(* authenticate lets a bearer of an access token for session s in.         *)
Admits(s) ==
    /\ sessions[s].live
    /\ account.state \notin Refused
    /\ ~account.deleted

-----------------------------------------------------------------------------
(* login.                                                                  *)

FindUser(r, right) ==
    /\ At(r, "idle")
    /\ ~account.deleted
    /\ right => account.password # None
    /\ logins' = [logins EXCEPT
                    ![r] = [Idle EXCEPT !.step = "lock",
                                        !.barred = account.state \in Barred,
                                        !.password = account.password,
                                        !.right = right]]
    /\ UNCHANGED <<account, keys, challenge, issued, sessions>>

(* checkAccountLock, then verifyPassword against the row read before.      *)
CheckLock(r) ==
    /\ At(r, "lock")
    /\ IF lock THEN Finish(r)
       ELSE Goto(r, IF logins[r].right THEN "clear" ELSE "count")
    /\ UNCHANGED <<account, keys, challenge, issued, sessions>>

(* Mutant: the window is set by the attempt that reaches the limit.        *)
CountAndForgetWindow(r) ==
    LET limit == attempts + 1 >= MaxAttempts IN
    /\ At(r, "count")
    /\ attempts' = (IF attempts = MaxAttempts THEN attempts ELSE attempts + 1)
    /\ IF limit
         THEN logins' = [logins EXCEPT ![r] = [@ EXCEPT !.step = "window",
                                                        !.limit = limit]]
         ELSE Finish(r)
    /\ UNCHANGED <<account, window, lock, challenge, issued, sessions>>

(* Mutant: reaching the limit does not stop the count.                     *)
CountOn(r) ==
    /\ At(r, "count")
    /\ attempts' = attempts + 1
    /\ Goto(r, "lockKey")
    /\ UNCHANGED <<account, window, lock, challenge, issued, sessions>>

(* INCR.  The counter stops at MaxAttempts here: beyond, nothing differs.  *)
Count(r) ==
    LET limit == attempts + 1 >= MaxAttempts IN
    /\ At(r, "count")
    /\ attempts' = (IF attempts = MaxAttempts THEN attempts ELSE attempts + 1)
    /\ IF attempts = 0
         THEN logins' = [logins EXCEPT ![r] = [@ EXCEPT !.step = "window",
                                                        !.limit = limit]]
         ELSE IF limit THEN Goto(r, "lockKey") ELSE Finish(r)
    /\ UNCHANGED <<account, window, lock, challenge, issued, sessions>>

(* EXPIRE, by the request whose INCR created the key; the key may be gone. *)
SetWindow(r) ==
    /\ At(r, "window")
    /\ window' = (attempts > 0)
    /\ IF logins[r].limit THEN Goto(r, "lockKey") ELSE Finish(r)
    /\ UNCHANGED <<account, attempts, lock, challenge, issued, sessions>>

SetLock(r) ==
    /\ At(r, "lockKey")
    /\ lock' = TRUE
    /\ Goto(r, "lockState")
    /\ UNCHANGED <<account, attempts, window, challenge, issued, sessions>>

(* setAccountState, whatever the state is by now.                          *)
SetLocked(r) ==
    /\ At(r, "lockState")
    /\ account' = [account EXCEPT !.state = "LOCKED"]
    /\ Finish(r)
    /\ UNCHANGED <<keys, challenge, issued, sessions>>

(* DEL of counter and lock, then the gate on the state read at the start.  *)
Clear(r) ==
    /\ At(r, "clear")
    /\ attempts' = 0
    /\ window' = FALSE
    /\ lock' = FALSE
    /\ IF logins[r].barred THEN Finish(r) ELSE Goto(r, "factor")
    /\ UNCHANGED <<account, challenge, issued, sessions>>

ReadFactor(r) ==
    /\ At(r, "factor")
    /\ Goto(r, IF account.factor THEN "challenge" ELSE "open")
    /\ UNCHANGED <<account, keys, challenge, issued, sessions>>

IssueChallenge(r, c) ==
    /\ At(r, "challenge")
    /\ issued[c] = None
    /\ issued' = [issued EXCEPT ![c] = logins[r].password]
    /\ challenge' = c
    /\ Finish(r)
    /\ UNCHANGED <<account, keys, sessions>>

-----------------------------------------------------------------------------
(* verifyMfaAndLogin.                                                      *)

PresentChallenge(r, c) ==
    /\ At(r, "idle")
    /\ ~account.deleted
    /\ challenge = c
    /\ logins' = [logins EXCEPT ![r] = [Idle EXCEPT !.step = "code",
                                                    !.password = issued[c],
                                                    !.challenge = c]]
    /\ UNCHANGED <<account, keys, challenge, issued, sessions>>

(* verifyMfaCode: no active factor, a wrong code, or the right one.        *)
CheckCode(r) ==
    /\ At(r, "code")
    /\ \/ Finish(r)
       \/ account.factor /\ Goto(r, "spend")
    /\ UNCHANGED <<account, keys, challenge, issued, sessions>>

(* Mutant: the challenge is left to expire.                                *)
SpendNothing(r) ==
    /\ At(r, "spend")
    /\ Goto(r, "open")
    /\ UNCHANGED <<account, keys, challenge, issued, sessions>>

(* DEL of whatever challenge is stored by now.                             *)
SpendChallenge(r) ==
    /\ At(r, "spend")
    /\ challenge' = None
    /\ Goto(r, "open")
    /\ UNCHANGED <<account, keys, issued, sessions>>

-----------------------------------------------------------------------------
(* finalizeLogin: the user must still be there; its state, its password    *)
(* and its factor are not looked at again.                                 *)
OpenSession(r, s) ==
    /\ At(r, "open")
    /\ ~account.deleted
    /\ ~SessionExists(s)
    /\ sessions' = [sessions EXCEPT
                      ![s] = [live |-> TRUE, password |-> logins[r].password,
                              challenge |-> logins[r].challenge, by |-> r,
                              late |-> logins[r].password # account.password,
                              kept |-> FALSE]]
    /\ Finish(r)
    /\ UNCHANGED <<account, keys, challenge, issued>>

UserIsGone(r) ==
    /\ At(r, "open")
    /\ account.deleted
    /\ Finish(r)
    /\ UNCHANGED <<account, keys, challenge, issued, sessions>>

(* A statement fails or the process dies: no later one of the handler runs.*)
StopLogin(r) ==
    /\ r \in MayStop
    /\ logins[r].step # "idle"
    /\ ~logins[r].stopped
    /\ logins' = [logins EXCEPT ![r].stopped = TRUE]
    /\ UNCHANGED <<account, keys, challenge, issued, sessions>>

-----------------------------------------------------------------------------
(* Redis drops keys whose time is up.                                      *)
AttemptsExpire ==
    /\ window
    /\ attempts' = 0
    /\ window' = FALSE
    /\ UNCHANGED <<account, lock, challenge, issued, sessions, logins>>

LockExpires ==
    /\ lock
    /\ lock' = FALSE
    /\ UNCHANGED <<account, attempts, window, challenge, issued, sessions,
                   logins>>

ChallengeExpires ==
    /\ challenge # None
    /\ challenge' = None
    /\ UNCHANGED <<account, keys, issued, sessions, logins>>

(* changeAccountState; markAbsconded for DISABLED.                         *)
ChangeState(target) ==
    /\ ~account.deleted
    /\ <<account.state, account.audited>> # <<target, target>>
    /\ account' = [account EXCEPT !.state = target, !.audited = target]
    /\ UNCHANGED <<keys, challenge, issued, sessions, logins>>

(* unlockAccount: the state stays what it is, LOCKED included.             *)
UnlockAccount ==
    /\ ~account.deleted
    /\ attempts > 0 \/ lock
    /\ attempts' = 0
    /\ window' = FALSE
    /\ lock' = FALSE
    /\ UNCHANGED <<account, challenge, issued, sessions, logins>>

DeleteUser ==
    /\ ~account.deleted
    /\ account' = [account EXCEPT !.deleted = TRUE]
    /\ UNCHANGED <<keys, challenge, issued, sessions, logins>>

(* enrollTotp by a signed-in user, and resetMfa.                           *)
EnrollTotp ==
    /\ \E s \in Session : Admits(s)
    /\ ~account.factor
    /\ account' = [account EXCEPT !.factor = TRUE]
    /\ UNCHANGED <<keys, challenge, issued, sessions, logins>>

ResetMfa ==
    /\ account.factor
    /\ account' = [account EXCEPT !.factor = FALSE]
    /\ UNCHANGED <<keys, challenge, issued, sessions, logins>>

(* A session is revoked by logout or by any other path of RefreshSessions. *)
EndSession(s) ==
    /\ sessions[s].live
    /\ sessions' = [sessions EXCEPT ![s].live = FALSE]
    /\ UNCHANGED <<account, keys, challenge, issued, logins>>

AdvanceLogin(r) ==
    \/ CheckLock(r)
    \/ Count(r)
    \/ SetWindow(r)
    \/ SetLock(r)
    \/ SetLocked(r)
    \/ Clear(r)
    \/ ReadFactor(r)
    \/ \E c \in Challenge : IssueChallenge(r, c)
    \/ CheckCode(r)
    \/ SpendChallenge(r)
    \/ \E s \in Session : OpenSession(r, s)
    \/ UserIsGone(r)

BeginLogin(r) ==
    \/ \E right \in Guess : FindUser(r, right)
    \/ \E c \in Challenge : PresentChallenge(r, c)

LoginNext ==
    \/ \E r \in Login : BeginLogin(r) \/ AdvanceLogin(r) \/ StopLogin(r)
    \/ AttemptsExpire \/ LockExpires \/ ChallengeExpires
    \/ \E target \in Target : ChangeState(target)
    \/ UnlockAccount \/ DeleteUser \/ EnrollTotp \/ ResetMfa
    \/ \E s \in Session : EndSession(s)

LoginSpec == LoginInit /\ [][LoginNext]_loginVars

-----------------------------------------------------------------------------
(* Properties.                                                             *)

(* redisIncrEx sets the window in a statement of its own, only when its    *)
(* INCR created the counter, and successes, unlocks and expiry delete the  *)
(* counter in between: still no counter is left without a window, which    *)
(* would lock the account after failures however far apart, unless the     *)
(* request that created it died between the two statements.                *)
CounterHasWindow ==
    attempts > 0 /\ ~window => \E r \in Login : logins[r].step = "window"

(* An MFA challenge is read in one statement and deleted in another, by    *)
(* sign-ins that overlap.  The sessions opened from one challenge come     *)
(* from verifications that ran at the same time, never one after another,  *)
(* and an open session's challenge is not redeemable any more.             *)
ChallengeIsSpent ==
    \A s1, s2 \in Session :
        sessions[s1].challenge # None =>
            /\ challenge # sessions[s1].challenge
            /\ s1 # s2 /\ sessions[s1].challenge = sessions[s2].challenge
                 => sessions[s1].by # sessions[s2].by
=============================================================================
