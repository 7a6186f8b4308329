---------------------------- MODULE PasswordChange ----------------------------
(***************************************************************************)
(* The ways an account's password changes while its user, or somebody      *)
(* else, signs in: the reset link of apps/api/src/services/auth.ts         *)
(* (forgotPassword, resetPassword), the change by its user                 *)
(* (changeOwnPassword) and the reset by an administrator (routes/users.ts).*)
(* All go through updatePassword of services/user.ts and then revoke the   *)
(* sessions, in statements of their own that the sign-ins of Login may     *)
(* come between.                                                           *)
(***************************************************************************)
EXTENDS Login

CONSTANTS
    Change,                 \* handlers changing the password at a time
    ResetToken,             \* reset links that may ever be mailed
    Way                     \* how passwords are changed

ASSUME WayAssumption == Way \subseteq {"link", "own", "admin"}
ASSUME LinkAssumption == None \notin ResetToken \cup Session

VARIABLES
    resets,                 \* the rows of password_resets
    history,                \* the rows of password_history
    changes                 \* where each change of password stands

vars == <<loginVars, resets, history, changes>>

-----------------------------------------------------------------------------
(* "changed": the link has set a password.                                 *)
ResetRow == [state : {"absent", "live", "used", "expired"}, changed : BOOLEAN]

(* What is left to do: the password to write, the link to mark used, the  *)
(* session to keep.                                                        *)
ChangeRequest == [step : {"idle", "reuse", "write", "use", "force", "revoke"},
                 password : Password \cup {None},
                 token : ResetToken \cup {None},
                 keep : Session \cup {None}, stopped : BOOLEAN]

NoChange == [step |-> "idle", password |-> None, token |-> None,
             keep |-> None, stopped |-> FALSE]

TypeOK ==
    /\ LoginTypeOK
    /\ resets \in [ResetToken -> ResetRow]
    /\ history \subseteq Password
    /\ changes \in [Change -> ChangeRequest]

(* createUser stores the first password without a row of history.          *)
Init ==
    /\ LoginInit
    /\ resets = [t \in ResetToken |-> [state |-> "absent", changed |-> FALSE]]
    /\ history = {}
    /\ changes = [c \in Change |-> NoChange]

AtStep(c, step) == changes[c].step = step /\ ~changes[c].stopped
Proceed(c, step) == changes' = [changes EXCEPT ![c].step = step]
Leave(c) == changes' = [changes EXCEPT ![c] = NoChange]
Start(c, request) ==
    /\ AtStep(c, "idle")
    /\ changes' = [changes EXCEPT ![c] = [request EXCEPT !.step = "reuse"]]
    /\ UNCHANGED <<loginVars, resets, history>>

-----------------------------------------------------------------------------
(* forgotPassword.  The 60 seconds between two mails pass at any time.     *)
RequestReset(t) ==
    /\ ~account.deleted
    /\ resets[t].state = "absent"
    /\ resets' = [resets EXCEPT ![t].state = "live"]
    /\ UNCHANGED <<loginVars, history, changes>>

(* resetPassword reads the link's row; no state of the account is refused. *)
PresentLink(c, t, p) ==
    /\ resets[t].state = "live"
    /\ ~account.deleted
    /\ Start(c, [NoChange EXCEPT !.password = p, !.token = t])

(* changeOwnPassword, with the password of now, from session s.            *)
ChangeOwn(c, s, p) ==
    /\ Admits(s)
    /\ account.password # None
    /\ Start(c, [NoChange EXCEPT !.password = p, !.keep = s])

(* POST /users/:id/reset-password: no link, and no session to keep.        *)
AdminReset(c, p) ==
    /\ ~account.deleted
    /\ Start(c, [NoChange EXCEPT !.password = p])

(* isPasswordReused, then the read updatePassword starts with.             *)
CheckReuse(c) ==
    /\ AtStep(c, "reuse")
    /\ IF changes[c].password \in history \/ account.deleted
         THEN Leave(c) ELSE Proceed(c, "write")
    /\ UNCHANGED <<loginVars, resets, history>>

(* Mutant: the sessions are thought to be gone already.                    *)
AfterWriteNothing(c) == IF changes[c].token # None THEN "use" ELSE "idle"

(* What a change does once the password is written.                        *)
AfterWrite(c) ==
    IF changes[c].token # None THEN "use"
    ELSE IF changes[c].keep # None THEN "revoke" ELSE "force"

(* The transaction of updatePassword: whatever the state was, it is ACTIVE.*)
(* More passwords than the ten rows the history keeps are never tried.     *)
WritePassword(c) ==
    LET t == changes[c].token
        p == changes[c].password IN
    /\ AtStep(c, "write")
    /\ account' = [account EXCEPT !.password = p, !.state = "ACTIVE"]
    /\ history' = history \cup {p}
    /\ resets' = (IF t = None THEN resets
                  ELSE [resets EXCEPT ![t].changed = TRUE])
    /\ changes' = [changes EXCEPT ![c].step = AfterWrite(c),
                                  ![c].password = None]
    /\ UNCHANGED <<keys, challenge, issued, sessions, logins>>

(* Mutant: the link is left to expire.                                     *)
MarkNothing(c) ==
    /\ AtStep(c, "use")
    /\ Proceed(c, "revoke")
    /\ UNCHANGED <<loginVars, resets, history>>

MarkUsed(c) ==
    /\ AtStep(c, "use")
    /\ resets' = [resets EXCEPT ![changes[c].token].state = "used"]
    /\ Proceed(c, "revoke")
    /\ UNCHANGED <<loginVars, history>>

(* Mutant: a state the users table does not know.                          *)
ForceUnknownState(c) ==
    /\ AtStep(c, "force")
    /\ account' = [account EXCEPT !.state = "PASSWORD_RESET"]
    /\ Proceed(c, "revoke")
    /\ UNCHANGED <<keys, challenge, issued, sessions, logins, resets, history>>

(* forceChange of the request's body says whether the user must change it. *)
ForceChange(c) ==
    /\ AtStep(c, "force")
    /\ \/ account' = [account EXCEPT !.state = "PASSWORD_RESET_REQUIRED"]
       \/ UNCHANGED account
    /\ Proceed(c, "revoke")
    /\ UNCHANGED <<keys, challenge, issued, sessions, logins, resets, history>>

(* revokeAllUserSessions; RefreshSessions has what it does to the tokens.  *)
RevokeOthers(c) ==
    /\ AtStep(c, "revoke")
    /\ sessions' = [s \in Session |->
                      IF s = changes[c].keep
                        THEN [sessions[s] EXCEPT !.kept = TRUE]
                        ELSE [sessions[s] EXCEPT !.live = FALSE]]
    /\ Leave(c)
    /\ UNCHANGED <<account, keys, challenge, issued, logins, resets, history>>

(* A statement fails or the process dies.  Before the password is written  *)
(* a change has left nothing, and one that never goes on stands for it.    *)
StopChange(c) ==
    /\ c \in MayStop
    /\ changes[c].step \in {"use", "force", "revoke"}
    /\ ~changes[c].stopped
    /\ changes' = [changes EXCEPT ![c].stopped = TRUE]
    /\ UNCHANGED <<loginVars, resets, history>>

LinkExpires(t) ==
    /\ resets[t].state = "live"
    /\ resets' = [resets EXCEPT ![t].state = "expired"]
    /\ UNCHANGED <<loginVars, history, changes>>

-----------------------------------------------------------------------------
AdvanceChange(c) ==
    \/ CheckReuse(c)
    \/ WritePassword(c)
    \/ MarkUsed(c)
    \/ ForceChange(c)
    \/ RevokeOthers(c)

BeginChange(c) ==
    \E p \in Password :
        \/ "link" \in Way /\ \E t \in ResetToken : PresentLink(c, t, p)
        \/ "own" \in Way /\ \E s \in Session : ChangeOwn(c, s, p)
        \/ "admin" \in Way /\ AdminReset(c, p)

Next ==
    \/ LoginNext /\ UNCHANGED <<resets, history, changes>>
    \/ \E t \in ResetToken : RequestReset(t) \/ LinkExpires(t)
    \/ \E c \in Change : BeginChange(c) \/ AdvanceChange(c) \/ StopChange(c)

Spec == Init /\ [][Next]_vars

-----------------------------------------------------------------------------
(* Properties.                                                             *)

(* Every change of the password ends the sessions opened with an earlier   *)
(* one, though the sessions are revoked in a statement of their own that   *)
(* sign-ins and other changes come before: a session of an earlier         *)
(* password is live only while a change has not finished, if its sign-in   *)
(* was overtaken by the change, or if it is the one the change was made    *)
(* from.                                                                   *)
PasswordChangeEndsSessions ==
    \A s \in Session :
        sessions[s].live /\ sessions[s].password # account.password =>
            \/ sessions[s].late
            \/ sessions[s].kept
            \/ \E c \in Change : changes[c].step \in {"use", "force", "revoke"}

(* A reset link is marked used in a statement after the one that writes    *)
(* the password.  Once it has changed the password, it can be redeemed     *)
(* again only while a request that redeemed it stands between the two.     *)
ResetLinkIsSpent ==
    \A t \in ResetToken :
        resets[t].changed /\ resets[t].state = "live" =>
            \E c \in Change : changes[c].token = t /\ changes[c].step = "use"

(* The drill of DEPLOYMENT.md: block the user, revoke the sessions, force  *)
(* a password reset.  An account an administrator blocked stays blocked    *)
(* until an administrator says otherwise.                                  *)
BlockedStaysBlocked ==
    account.audited = "BLOCKED" => account.state = "BLOCKED"
=============================================================================
