------------------------- MODULE PasswordChangeProofs -------------------------
(***************************************************************************)
(* Proofs about PasswordChange and, through it, Login.  The invariant is   *)
(* the conjunction of the properties with the types and with what is known *)
(* of reset links; it is inductive as it stands.  The challenges of Login  *)
(* have an invariant of their own, which says who holds them.              *)
(***************************************************************************)
EXTENDS PasswordChange, TLAPS

(* A link that was never mailed has changed nothing, and no change uses it.*)
LinksAreMailed ==
    \A t \in ResetToken :
        resets[t].state = "absent" =>
            /\ ~resets[t].changed
            /\ \A c \in Change : changes[c].token # t

(* Until it is written, the new password is at hand.                       *)
ChangesReady ==
    \A c \in Change :
        changes[c].step \in {"reuse", "write"} => changes[c].password \in Password

IInv ==
    /\ TypeOK
    /\ ChangesReady
    /\ CounterHasWindow
    /\ PasswordChangeEndsSessions
    /\ LinksAreMailed
    /\ ResetLinkIsSpent

(* The invariant of Login on its own, which is about its challenges.       *)

(* A sign-in that was right has a password, and only one that was right    *)
(* goes on past the lock.                                                  *)
RightHasPassword ==
    \A r \in Login :
        /\ logins[r].right => logins[r].password # None
        /\ logins[r].step \in {"clear", "factor", "challenge"} => logins[r].right

(* A verification holds a challenge that was handed out, and the challenge *)
(* is not stored any more when it opens its session.                       *)
VerificationsHold ==
    \A r \in Login :
        logins[r].challenge # None =>
            /\ issued[logins[r].challenge] # None
            /\ logins[r].step \in {"code", "spend", "open"}
            /\ logins[r].step = "open" => challenge # logins[r].challenge

(* So was the challenge of a session, and the handler that opened it does  *)
(* not hold it again.                                                      *)
SessionsHold ==
    \A s \in Session :
        sessions[s].challenge # None =>
            /\ issued[sessions[s].challenge] # None
            /\ sessions[s].by \in Login
            /\ logins[sessions[s].by].challenge # sessions[s].challenge

(* What is said of the challenges by those who hold them.                  *)
Holders ==
    /\ challenge # None => issued[challenge] # None
    /\ VerificationsHold
    /\ SessionsHold
    /\ ChallengeIsSpent

ChallengeInv == LoginTypeOK /\ RightHasPassword /\ Holders

-----------------------------------------------------------------------------
(* Types.                                                                  *)

(* The steps that move one sign-in, or end it, keep the types.             *)
LEMMA GotoType ==
    ASSUME LoginTypeOK, NEW r \in Login, NEW step \in Step, Goto(r, step)
    PROVE  logins' \in [Login -> LoginState]
BY DEF LoginTypeOK, Goto, LoginState

(* An idle sign-in is of the type.                                         *)
LEMMA FinishType ==
    ASSUME LoginTypeOK, NEW r \in Login, Finish(r)
    PROVE  logins' \in [Login -> LoginState]
BY DEF LoginTypeOK, Finish, LoginState, Idle, Step

(* The steps of a sign-in keep the types.                                  *)
LEMMA AdvanceLoginType ==
    ASSUME LoginTypeOK, NEW r \in Login, AdvanceLogin(r)
    PROVE  LoginTypeOK'
<1>1. CASE CheckLock(r)
  <2>1. logins' \in [Login -> LoginState]
    BY <1>1, GotoType, FinishType DEF CheckLock, Step
  <2>. QED  BY <1>1, <2>1 DEF CheckLock, LoginTypeOK, keys
<1>2. CASE Count(r)
  <2>1. attempts' \in 0..MaxAttempts
    BY <1>2, AttemptsAssumption DEF Count, LoginTypeOK
  <2>3. CASE attempts = 0
    <3>. DEFINE b == attempts + 1 >= MaxAttempts
                x == [logins[r] EXCEPT !.step = "window", !.limit = b]
    <3>1. logins' = [logins EXCEPT ![r] = x]
      BY <1>2, <2>3 DEF Count
    <3>2. b \in BOOLEAN /\ logins[r] \in LoginState
      BY DEF LoginTypeOK
    <3>3. x \in LoginState
      <4>. HIDE DEF b
      <4>. QED  BY <3>2 DEF LoginState, Step
    <3>4. logins' \in [Login -> LoginState]
      <4>. HIDE DEF x
      <4>. QED  BY <3>1, <3>3 DEF LoginTypeOK
    <3>. QED  BY <1>2, <2>1, <3>4 DEF Count, LoginTypeOK
  <2>4. CASE attempts # 0
    <3>1. logins' \in [Login -> LoginState]
      BY <1>2, <2>4, GotoType, FinishType DEF Count, Step
    <3>. QED  BY <1>2, <2>1, <3>1 DEF Count, LoginTypeOK
  <2>. QED  BY <2>3, <2>4
<1>3. CASE SetWindow(r)
  <2>1. logins' \in [Login -> LoginState]
    BY <1>3, GotoType, FinishType DEF SetWindow, Step
  <2>. QED  BY <1>3, <2>1 DEF SetWindow, LoginTypeOK
<1>4. CASE SetLock(r)
  <2>1. logins' \in [Login -> LoginState]
    BY <1>4, GotoType DEF SetLock, Step
  <2>. QED  BY <1>4, <2>1 DEF SetLock, LoginTypeOK
<1>5. CASE SetLocked(r)
  <2>1. logins' \in [Login -> LoginState]
    BY <1>5, FinishType DEF SetLocked
  <2>2. account' = [account EXCEPT !.state = "LOCKED"]
    BY <1>5 DEF SetLocked
  <2>3. account' \in Account
    BY <2>2 DEF LoginTypeOK, Account, State
  <2>. QED  BY <1>5, <2>1, <2>3 DEF SetLocked, LoginTypeOK, keys
<1>6. CASE Clear(r)
  <2>1. logins' \in [Login -> LoginState]
    BY <1>6, GotoType, FinishType DEF Clear, Step
  <2>2. /\ attempts' = 0 /\ window' = FALSE /\ lock' = FALSE
        /\ UNCHANGED <<account, challenge, issued, sessions>>
    BY <1>6 DEF Clear
  <2>3. attempts' \in 0..MaxAttempts
    BY <2>2, AttemptsAssumption
  <2>4. window' \in BOOLEAN /\ lock' \in BOOLEAN
    BY <2>2, Zenon
  <2>. QED  BY <2>1, <2>2, <2>3, <2>4 DEF LoginTypeOK
<1>7. CASE ReadFactor(r)
  <2>1. logins' \in [Login -> LoginState]
    BY <1>7, GotoType DEF ReadFactor, Step
  <2>. QED  BY <1>7, <2>1 DEF ReadFactor, LoginTypeOK, keys
<1>8. ASSUME NEW c \in Challenge, IssueChallenge(r, c) PROVE LoginTypeOK'
  <2>1. logins' \in [Login -> LoginState]
    BY <1>8, FinishType DEF IssueChallenge
  <2>2. logins[r].password \in Password \cup {None}
    BY DEF LoginTypeOK, LoginState
  <2>3. issued' \in [Challenge -> Password \cup {None}]
    BY <1>8, <2>2 DEF IssueChallenge, LoginTypeOK
  <2>. QED  BY <1>8, <2>1, <2>3 DEF IssueChallenge, LoginTypeOK, keys
<1>9. CASE CheckCode(r)
  <2>1. logins' \in [Login -> LoginState]
    BY <1>9, GotoType, FinishType DEF CheckCode, Step
  <2>. QED  BY <1>9, <2>1 DEF CheckCode, LoginTypeOK, keys
<1>10. CASE SpendChallenge(r)
  <2>1. logins' \in [Login -> LoginState]
    BY <1>10, GotoType DEF SpendChallenge, Step
  <2>. QED  BY <1>10, <2>1 DEF SpendChallenge, LoginTypeOK, keys
<1>11. ASSUME NEW s \in Session, OpenSession(r, s) PROVE LoginTypeOK'
  <2>1. logins' \in [Login -> LoginState]
    BY <1>11, FinishType DEF OpenSession
  <2>2. /\ logins[r].password \in Password \cup {None}
        /\ logins[r].challenge \in Challenge \cup {None}
    BY DEF LoginTypeOK, LoginState
  <2>3. sessions' \in [Session -> SessionRow]
    BY <1>11, <2>2 DEF OpenSession, LoginTypeOK, SessionRow
  <2>. QED  BY <1>11, <2>1, <2>3 DEF OpenSession, LoginTypeOK, keys
<1>12. CASE UserIsGone(r)
  <2>1. logins' \in [Login -> LoginState]
    BY <1>12, FinishType DEF UserIsGone
  <2>. QED  BY <1>12, <2>1 DEF UserIsGone, LoginTypeOK, keys
<1>. QED
  BY <1>1, <1>2, <1>3, <1>4, <1>5, <1>6, <1>7, <1>8, <1>9, <1>10, <1>11,
     <1>12 DEF AdvanceLogin

(* The first statement of a sign-in keeps the types.                       *)
LEMMA BeginLoginType ==
    ASSUME LoginTypeOK, NEW r \in Login, BeginLogin(r)
    PROVE  LoginTypeOK'
<1>1. ASSUME NEW right \in Guess, FindUser(r, right) PROVE LoginTypeOK'
  <2>. DEFINE barred == account.state \in Barred
              x == [Idle EXCEPT !.step = "lock", !.barred = barred,
                                !.password = account.password,
                                !.right = right]
  <2>1. logins' = [logins EXCEPT ![r] = x]
    BY <1>1 DEF FindUser
  <2>2. /\ barred \in BOOLEAN
        /\ right \in BOOLEAN
        /\ account.password \in Password \cup {None}
    BY GuessAssumption DEF LoginTypeOK, Account
  <2>3. x \in LoginState
    <3>. HIDE DEF barred
    <3>. QED  BY <2>2 DEF LoginState, Idle, Step
  <2>4. logins' \in [Login -> LoginState]
    <3>. HIDE DEF x
    <3>. QED  BY <2>1, <2>3 DEF LoginTypeOK
  <2>. QED  BY <1>1, <2>4 DEF FindUser, LoginTypeOK, keys
<1>2. ASSUME NEW c \in Challenge, PresentChallenge(r, c) PROVE LoginTypeOK'
  <2>1. issued[c] \in Password \cup {None}
    BY DEF LoginTypeOK
  <2>2. logins' \in [Login -> LoginState]
    BY <1>2, <2>1 DEF PresentChallenge, LoginTypeOK, LoginState, Idle, Step
  <2>. QED  BY <1>2, <2>2 DEF PresentChallenge, LoginTypeOK, keys
<1>. QED  BY <1>1, <1>2 DEF BeginLogin

(* So do the steps of everybody else that Login knows.                     *)
LEMMA LoginType ==
    ASSUME LoginTypeOK, LoginNext
    PROVE  LoginTypeOK'
<1>1. CASE \E r \in Login : BeginLogin(r) \/ AdvanceLogin(r)
  BY <1>1, BeginLoginType, AdvanceLoginType
<1>2. ASSUME NEW r \in Login, StopLogin(r) PROVE LoginTypeOK'
  <2>1. logins' \in [Login -> LoginState]
    BY <1>2 DEF StopLogin, LoginTypeOK, LoginState
  <2>. QED  BY <1>2, <2>1 DEF StopLogin, LoginTypeOK, keys
<1>3. CASE AttemptsExpire \/ UnlockAccount \/ LockExpires
  <2>1. attempts' \in 0..MaxAttempts
    BY <1>3, AttemptsAssumption
       DEF AttemptsExpire, UnlockAccount, LockExpires, LoginTypeOK
  <2>2. window' \in BOOLEAN /\ lock' \in BOOLEAN
    BY <1>3, Zenon DEF AttemptsExpire, UnlockAccount, LockExpires, LoginTypeOK
  <2>3. UNCHANGED <<account, challenge, issued, sessions, logins>>
    BY <1>3 DEF AttemptsExpire, UnlockAccount, LockExpires
  <2>. QED  BY <2>1, <2>2, <2>3 DEF LoginTypeOK
<1>4. CASE ChallengeExpires
  BY <1>4 DEF ChallengeExpires, LoginTypeOK, keys
<1>5. CASE (\E target \in Target : ChangeState(target))
             \/ DeleteUser \/ EnrollTotp \/ ResetMfa
  <2>1. UNCHANGED <<keys, challenge, issued, sessions, logins>>
    BY <1>5 DEF ChangeState, DeleteUser, EnrollTotp, ResetMfa
  <2>2. account' \in Account
    <3>1. CASE \E target \in Target : ChangeState(target)
      BY <3>1, TargetAssumption DEF ChangeState, LoginTypeOK, Account, State
    <3>2. CASE DeleteUser
      BY <3>2 DEF DeleteUser, LoginTypeOK, Account
    <3>3. CASE EnrollTotp \/ ResetMfa
      BY <3>3 DEF EnrollTotp, ResetMfa, LoginTypeOK, Account
    <3>. QED  BY <1>5, <3>1, <3>2, <3>3
  <2>. QED  BY <2>1, <2>2 DEF LoginTypeOK, keys
<1>6. ASSUME NEW s \in Session, EndSession(s) PROVE LoginTypeOK'
  <2>1. sessions' \in [Session -> SessionRow]
    BY <1>6 DEF EndSession, LoginTypeOK, SessionRow
  <2>. QED  BY <1>6, <2>1 DEF EndSession, LoginTypeOK, keys
<1>. QED  BY <1>1, <1>2, <1>3, <1>4, <1>5, <1>6 DEF LoginNext

(* Moving a change of password on, or ending it, keeps its type.           *)
LEMMA ChangesType ==
    ASSUME TypeOK, NEW c \in Change
    PROVE  /\ \A step \in {"reuse", "write", "use", "force", "revoke"} :
                Proceed(c, step) => changes' \in [Change -> ChangeRequest]
           /\ Leave(c) => changes' \in [Change -> ChangeRequest]
<1>1. ASSUME NEW step \in {"reuse", "write", "use", "force", "revoke"},
             Proceed(c, step)
      PROVE  changes' \in [Change -> ChangeRequest]
  BY <1>1 DEF TypeOK, Proceed, ChangeRequest
<1>2. ASSUME Leave(c) PROVE changes' \in [Change -> ChangeRequest]
  BY <1>2 DEF TypeOK, Leave, NoChange, ChangeRequest
<1>. QED  BY <1>1, <1>2

(* The start of a change keeps the types.                                  *)
LEMMA BeginChangeType ==
    ASSUME TypeOK, NEW c \in Change, BeginChange(c)
    PROVE  TypeOK' /\ UNCHANGED <<loginVars, resets, history>>
<1>1. PICK x \in ChangeRequest : Start(c, x)
  <2>1. PICK p \in Password :
          \/ \E t \in ResetToken : PresentLink(c, t, p)
          \/ \E s \in Session : ChangeOwn(c, s, p)
          \/ AdminReset(c, p)
    BY DEF BeginChange
  <2>2. NoChange \in ChangeRequest
    BY DEF NoChange, ChangeRequest
  <2>3. /\ \A t \in ResetToken :
             [NoChange EXCEPT !.password = p, !.token = t] \in ChangeRequest
        /\ \A s \in Session :
             [NoChange EXCEPT !.password = p, !.keep = s] \in ChangeRequest
        /\ [NoChange EXCEPT !.password = p] \in ChangeRequest
    BY DEF NoChange, ChangeRequest
  <2>. QED  BY <2>1, <2>3 DEF PresentLink, ChangeOwn, AdminReset
<1>2. changes' \in [Change -> ChangeRequest]
  BY <1>1 DEF Start, TypeOK, ChangeRequest
<1>. QED
  BY <1>1, <1>2 DEF Start, TypeOK, loginVars, keys, LoginTypeOK

(* The transaction of updatePassword and the statements after it keep the  *)
(* types.                                                                  *)
LEMMA AdvanceChangeType ==
    ASSUME TypeOK, ChangesReady, NEW c \in Change, AdvanceChange(c)
    PROVE  TypeOK'
<1>. LoginTypeOK /\ changes \in [Change -> ChangeRequest]
  BY DEF TypeOK
<1>1. CASE CheckReuse(c)
  <2>1. changes' \in [Change -> ChangeRequest]
    BY <1>1, ChangesType DEF CheckReuse
  <2>. QED  BY <1>1, <2>1 DEF CheckReuse, TypeOK, loginVars, keys, LoginTypeOK
<1>2. CASE WritePassword(c)
  <2>. DEFINE p == changes[c].password
              t == changes[c].token
  <2>1. p \in Password \cup {None} /\ t \in ResetToken \cup {None}
    BY DEF ChangeRequest
  <2>2. account' \in Account
    <3>1. account' = [account EXCEPT !.password = p, !.state = "ACTIVE"]
      BY <1>2 DEF WritePassword
    <3>. HIDE DEF p
    <3>. QED  BY <2>1, <3>1 DEF LoginTypeOK, Account, State, Targets
  <2>3. AfterWrite(c) \in {"use", "force", "revoke"}
    BY DEF AfterWrite
  <2>4. changes' \in [Change -> ChangeRequest]
    <3>1. changes' = [changes EXCEPT ![c].step = AfterWrite(c),
                                     ![c].password = None]
      BY <1>2 DEF WritePassword
    <3>. QED  BY <2>3, <3>1 DEF ChangeRequest
  <2>5. resets' \in [ResetToken -> ResetRow]
    BY <1>2, <2>1 DEF WritePassword, TypeOK, ResetRow
  <2>6. history' \subseteq Password
    <3>1. p \in Password
      BY <1>2 DEF WritePassword, AtStep, ChangesReady
    <3>2. history' = history \cup {p}
      BY <1>2 DEF WritePassword
    <3>. QED  BY <3>1, <3>2 DEF TypeOK
  <2>. QED
    BY <1>2, <2>2, <2>4, <2>5, <2>6 DEF WritePassword, TypeOK, LoginTypeOK, keys
<1>3. CASE MarkUsed(c)
  <2>1. changes' \in [Change -> ChangeRequest]
    BY <1>3, ChangesType DEF MarkUsed
  <2>2. resets' \in [ResetToken -> ResetRow]
    BY <1>3 DEF MarkUsed, TypeOK, ResetRow
  <2>. QED
    BY <1>3, <2>1, <2>2 DEF MarkUsed, TypeOK, loginVars, keys, LoginTypeOK
<1>4. CASE ForceChange(c)
  <2>1. changes' \in [Change -> ChangeRequest]
    BY <1>4, ChangesType DEF ForceChange
  <2>2. account' \in Account
    BY <1>4 DEF ForceChange, LoginTypeOK, Account, State
  <2>. QED  BY <1>4, <2>1, <2>2 DEF ForceChange, TypeOK, LoginTypeOK, keys
<1>5. CASE RevokeOthers(c)
  <2>1. changes' \in [Change -> ChangeRequest]
    BY <1>5, ChangesType DEF RevokeOthers
  <2>2. sessions' \in [Session -> SessionRow]
    BY <1>5 DEF RevokeOthers, LoginTypeOK, SessionRow
  <2>. QED  BY <1>5, <2>1, <2>2 DEF RevokeOthers, TypeOK, LoginTypeOK, keys
<1>. QED  BY <1>1, <1>2, <1>3, <1>4, <1>5 DEF AdvanceChange

(* Every step keeps the types.                                             *)
LEMMA StepType ==
    ASSUME TypeOK, ChangesReady, Next
    PROVE  TypeOK'
<1>. LoginTypeOK
  BY DEF TypeOK
<1>1. CASE LoginNext /\ UNCHANGED <<resets, history, changes>>
  BY <1>1, LoginType DEF TypeOK
<1>2. ASSUME NEW t \in ResetToken, RequestReset(t) \/ LinkExpires(t)
      PROVE  TypeOK'
  <2>1. resets' \in [ResetToken -> ResetRow]
    BY <1>2 DEF RequestReset, LinkExpires, TypeOK, ResetRow
  <2>2. UNCHANGED <<loginVars, history, changes>>
    BY <1>2 DEF RequestReset, LinkExpires
  <2>. QED  BY <2>1, <2>2 DEF TypeOK, loginVars, keys, LoginTypeOK
<1>3. ASSUME NEW c \in Change, BeginChange(c) \/ AdvanceChange(c)
      PROVE  TypeOK'
  BY <1>3, BeginChangeType, AdvanceChangeType
<1>4. ASSUME NEW c \in Change, StopChange(c) PROVE TypeOK'
  <2>1. changes' \in [Change -> ChangeRequest]
    BY <1>4 DEF StopChange, TypeOK, ChangeRequest
  <2>. QED  BY <1>4, <2>1 DEF StopChange, TypeOK, loginVars, keys, LoginTypeOK
<1>. QED  BY <1>1, <1>2, <1>3, <1>4 DEF Next

-----------------------------------------------------------------------------
(* Kinds of steps.                                                         *)

(* A handler that changes a password starts, moves on, answers or stops,   *)
(* and the others stay where they are.                                     *)
OtherChangesStay(c) == \A d \in Change : d # c => changes'[d] = changes[d]

(* What each statement of a change does to its own request.                *)
LEMMA ChangeMoves ==
    ASSUME TypeOK, NEW c \in Change
    PROVE  /\ \A step \in {"reuse", "write", "use", "force", "revoke"} :
                Proceed(c, step) =>
                  /\ OtherChangesStay(c)
                  /\ changes'[c].step = step
                  /\ changes'[c].token = changes[c].token
                  /\ changes'[c].password = changes[c].password
           /\ Leave(c) =>
                  /\ OtherChangesStay(c)
                  /\ changes'[c].step = "idle"
                  /\ changes'[c].token = None
<1>1. ASSUME NEW step \in {"reuse", "write", "use", "force", "revoke"},
             Proceed(c, step)
      PROVE  /\ OtherChangesStay(c)
             /\ changes'[c].step = step
             /\ changes'[c].token = changes[c].token
             /\ changes'[c].password = changes[c].password
  BY <1>1 DEF TypeOK, Proceed, ChangeRequest, OtherChangesStay
<1>2. ASSUME Leave(c)
      PROVE  /\ OtherChangesStay(c)
             /\ changes'[c].step = "idle"
             /\ changes'[c].token = None
  BY <1>2 DEF TypeOK, Leave, NoChange, OtherChangesStay
<1>. QED  BY <1>1, <1>2

(* A request that starts has its password and a link that was mailed.      *)
LEMMA StartMoves ==
    ASSUME TypeOK, NEW c \in Change, BeginChange(c)
    PROVE  /\ OtherChangesStay(c)
           /\ AtStep(c, "idle")
           /\ changes'[c].step = "reuse"
           /\ changes'[c].password \in Password
           /\ changes'[c].token # None => resets[changes'[c].token].state = "live"
<1>1. PICK p \in Password :
        \/ \E t \in ResetToken : PresentLink(c, t, p)
        \/ \E s \in Session : ChangeOwn(c, s, p)
        \/ AdminReset(c, p)
  BY DEF BeginChange
<1>2. ASSUME NEW t \in ResetToken, PresentLink(c, t, p)
      PROVE  /\ OtherChangesStay(c)
             /\ AtStep(c, "idle")
             /\ changes'[c].step = "reuse"
             /\ changes'[c].password = p
             /\ changes'[c].token = t
             /\ resets[t].state = "live"
  BY <1>2 DEF PresentLink, Start, NoChange, OtherChangesStay, TypeOK
<1>3. ASSUME NEW s \in Session, ChangeOwn(c, s, p)
      PROVE  /\ OtherChangesStay(c)
             /\ AtStep(c, "idle")
             /\ changes'[c].step = "reuse"
             /\ changes'[c].password = p
             /\ changes'[c].token = None
  BY <1>3 DEF ChangeOwn, Start, NoChange, OtherChangesStay, TypeOK
<1>4. ASSUME AdminReset(c, p)
      PROVE  /\ OtherChangesStay(c)
             /\ AtStep(c, "idle")
             /\ changes'[c].step = "reuse"
             /\ changes'[c].password = p
             /\ changes'[c].token = None
  BY <1>4 DEF AdminReset, Start, NoChange, OtherChangesStay, TypeOK
<1>. QED  BY <1>1, <1>2, <1>3, <1>4

(* Writing the password leaves the link's, the force's or the sessions'    *)
(* statement to be run.                                                    *)
LEMMA WriteMoves ==
    ASSUME TypeOK, NEW c \in Change, WritePassword(c)
    PROVE  /\ OtherChangesStay(c)
           /\ changes'[c].token = changes[c].token
           /\ changes'[c].step \in {"use", "force", "revoke"}
           /\ changes[c].token # None => changes'[c].step = "use"
<1>1. changes' = [changes EXCEPT ![c].step = AfterWrite(c),
                                 ![c].password = None]
  BY DEF WritePassword
<1>2. AfterWrite(c) \in {"use", "force", "revoke"}
  BY DEF AfterWrite
<1>3. changes[c].token # None => AfterWrite(c) = "use"
  BY DEF AfterWrite
<1>. HIDE DEF AfterWrite
<1>. QED  BY <1>1, <1>2, <1>3 DEF TypeOK, ChangeRequest, OtherChangesStay

(* A handler that stops stays at its statement.                            *)
LEMMA StopMoves ==
    ASSUME TypeOK, NEW c \in Change, StopChange(c)
    PROVE  \A d \in Change : /\ changes'[d].step = changes[d].step
                             /\ changes'[d].token = changes[d].token
                             /\ changes'[d].password = changes[d].password
BY DEF StopChange, TypeOK, ChangeRequest

-----------------------------------------------------------------------------
(* The parts of the invariant.                                             *)

(* The new password is at hand until it is written.                        *)
LEMMA ReadyInv ==
    ASSUME TypeOK, ChangesReady, Next
    PROVE  ChangesReady'
<1>1. CASE UNCHANGED changes
  BY <1>1 DEF ChangesReady
<1>2. ASSUME NEW c \in Change, BeginChange(c) PROVE ChangesReady'
  BY <1>2, StartMoves DEF ChangesReady, OtherChangesStay
<1>3. ASSUME NEW c \in Change, CheckReuse(c) PROVE ChangesReady'
  BY <1>3, ChangeMoves DEF CheckReuse, AtStep, ChangesReady, OtherChangesStay
<1>4. ASSUME NEW c \in Change, WritePassword(c) PROVE ChangesReady'
  BY <1>4, WriteMoves DEF ChangesReady, OtherChangesStay
<1>5. ASSUME NEW c \in Change, MarkUsed(c) \/ ForceChange(c) \/ RevokeOthers(c)
      PROVE  ChangesReady'
  BY <1>5, ChangeMoves
     DEF MarkUsed, ForceChange, RevokeOthers, ChangesReady, OtherChangesStay
<1>6. ASSUME NEW c \in Change, StopChange(c) PROVE ChangesReady'
  BY <1>6, StopMoves DEF ChangesReady
<1>7. ASSUME NEW t \in ResetToken, RequestReset(t) \/ LinkExpires(t)
      PROVE  UNCHANGED changes
  BY <1>7 DEF RequestReset, LinkExpires
<1>. QED
  BY <1>1, <1>2, <1>3, <1>4, <1>5, <1>6, <1>7 DEF Next, AdvanceChange

(* A sign-in leaves "window" only by setting the counter's window.         *)
LEMMA CounterInv ==
    ASSUME LoginTypeOK, CounterHasWindow, LoginNext
    PROVE  CounterHasWindow'
<1>. DEFINE InWindow(q) == logins[q].step = "window"
<1>1. ASSUME NEW r \in Login, Count(r) PROVE CounterHasWindow'
  <2>1. CASE attempts = 0
    <3>1. logins' = [logins EXCEPT ![r] =
                       [@ EXCEPT !.step = "window",
                                 !.limit = (attempts + 1 >= MaxAttempts)]]
      BY <1>1, <2>1 DEF Count
    <3>2. logins'[r].step = "window"
      BY <3>1 DEF LoginTypeOK, LoginState
    <3>. QED  BY <3>2 DEF CounterHasWindow
  <2>2. CASE attempts # 0
    <3>1. /\ attempts > 0
          /\ window' = window
          /\ logins[r].step = "count"
      BY <1>1, <2>2, AttemptsAssumption DEF Count, At, LoginTypeOK
    <3>2. \A q \in Login : q # r => logins'[q] = logins[q]
      BY <1>1, <2>2 DEF Count, Goto, Finish, LoginTypeOK
    <3>. QED  BY <3>1, <3>2 DEF CounterHasWindow
  <2>. QED  BY <2>1, <2>2
<1>2. ASSUME NEW r \in Login, SetWindow(r) PROVE CounterHasWindow'
  BY <1>2 DEF SetWindow, CounterHasWindow
<1>3. CASE attempts' = 0
  BY <1>3 DEF CounterHasWindow
<1>4. ASSUME UNCHANGED <<attempts, window>>,
             \A q \in Login : InWindow(q) => logins'[q].step = "window"
      PROVE  CounterHasWindow'
  BY <1>4 DEF CounterHasWindow
<1>5. ASSUME NEW r \in Login, AdvanceLogin(r), ~Count(r), ~SetWindow(r),
             ~Clear(r)
      PROVE  CounterHasWindow'
  <2>1. /\ UNCHANGED <<attempts, window>>
        /\ logins[r].step # "window"
        /\ \A q \in Login : q # r => logins'[q] = logins[q]
    <3>1. CASE CheckLock(r) \/ SetLock(r) \/ SetLocked(r) \/ ReadFactor(r)
      BY <3>1 DEF CheckLock, SetLock, SetLocked, ReadFactor, At, Goto, Finish,
                  keys, LoginTypeOK
    <3>2. CASE \E c \in Challenge : IssueChallenge(r, c)
      BY <3>2 DEF IssueChallenge, At, Finish, keys, LoginTypeOK
    <3>3. CASE CheckCode(r) \/ SpendChallenge(r) \/ UserIsGone(r)
      BY <3>3 DEF CheckCode, SpendChallenge, UserIsGone, At, Goto, Finish, keys,
                  LoginTypeOK
    <3>4. CASE \E s \in Session : OpenSession(r, s)
      BY <3>4 DEF OpenSession, At, Finish, keys, LoginTypeOK
    <3>. QED  BY <1>5, <3>1, <3>2, <3>3, <3>4 DEF AdvanceLogin
  <2>. QED  BY <1>4, <2>1
<1>6. ASSUME NEW r \in Login, BeginLogin(r) PROVE CounterHasWindow'
  <2>1. /\ UNCHANGED <<attempts, window>>
        /\ logins[r].step # "window"
        /\ \A q \in Login : q # r => logins'[q] = logins[q]
    BY <1>6 DEF BeginLogin, FindUser, PresentChallenge, At, keys, LoginTypeOK
  <2>. QED  BY <1>4, <2>1
<1>7. ASSUME NEW r \in Login, StopLogin(r) PROVE CounterHasWindow'
  BY <1>4, <1>7 DEF StopLogin, keys, LoginTypeOK, LoginState
<1>8. CASE LockExpires \/ ChallengeExpires \/ DeleteUser \/ EnrollTotp \/ ResetMfa
  BY <1>4, <1>8 DEF LockExpires, ChallengeExpires, DeleteUser, EnrollTotp,
                    ResetMfa, keys
<1>9. CASE (\E target \in Target : ChangeState(target))
             \/ (\E s \in Session : EndSession(s))
  BY <1>4, <1>9 DEF ChangeState, EndSession, keys
<1>10. CASE AttemptsExpire \/ UnlockAccount
  BY <1>3, <1>10 DEF AttemptsExpire, UnlockAccount
<1>11. ASSUME NEW r \in Login, Clear(r) PROVE CounterHasWindow'
  BY <1>3, <1>11 DEF Clear
<1>. QED
  BY <1>1, <1>2, <1>5, <1>6, <1>7, <1>8, <1>9, <1>10, <1>11 DEF LoginNext

(* A sign-in that opens a session of another password is late; whatever    *)
(* else Login does, it opens none and does not touch the password.         *)
LEMMA LoginSessionsInv ==
    ASSUME TypeOK, PasswordChangeEndsSessions, LoginNext, UNCHANGED changes
    PROVE  PasswordChangeEndsSessions'
<1>. LoginTypeOK
  BY DEF TypeOK
<1>1. ASSUME NEW r \in Login, NEW s \in Session, OpenSession(r, s)
      PROVE  PasswordChangeEndsSessions'
  <2>1. /\ sessions'[s].password = logins[r].password
        /\ sessions'[s].late = (logins[r].password # account.password)
    BY <1>1 DEF OpenSession, LoginTypeOK
  <2>2. \A x \in Session : x # s => sessions'[x] = sessions[x]
    BY <1>1 DEF OpenSession, LoginTypeOK
  <2>3. account' = account
    BY <1>1 DEF OpenSession
  <2>. QED  BY <2>1, <2>2, <2>3 DEF PasswordChangeEndsSessions
<1>2. ASSUME NEW s \in Session, EndSession(s)
      PROVE  PasswordChangeEndsSessions'
  <2>1. /\ ~sessions'[s].live
        /\ \A x \in Session : x # s => sessions'[x] = sessions[x]
        /\ account' = account
    BY <1>2 DEF EndSession, LoginTypeOK, SessionRow
  <2>. QED  BY <2>1 DEF PasswordChangeEndsSessions
<1>3. ASSUME UNCHANGED sessions, account'.password = account.password
      PROVE  PasswordChangeEndsSessions'
  BY <1>3 DEF PasswordChangeEndsSessions
<1>4. ASSUME NEW r \in Login,
             AdvanceLogin(r), ~\E s \in Session : OpenSession(r, s)
      PROVE  UNCHANGED sessions /\ account'.password = account.password
  BY <1>4 DEF AdvanceLogin, CheckLock, Count, SetWindow, SetLock, SetLocked,
              Clear, ReadFactor, IssueChallenge, CheckCode, SpendChallenge,
              UserIsGone, LoginTypeOK, Account
<1>5. CASE \E r \in Login : BeginLogin(r) \/ StopLogin(r)
  BY <1>3, <1>5 DEF BeginLogin, FindUser, PresentChallenge, StopLogin
<1>6. CASE AttemptsExpire \/ LockExpires \/ ChallengeExpires \/ UnlockAccount
  BY <1>3, <1>6 DEF AttemptsExpire, LockExpires, ChallengeExpires, UnlockAccount
<1>7. CASE (\E target \in Target : ChangeState(target))
             \/ DeleteUser \/ EnrollTotp \/ ResetMfa
  BY <1>3, <1>7 DEF ChangeState, DeleteUser, EnrollTotp, ResetMfa, LoginTypeOK,
                    Account
<1>. QED  BY <1>1, <1>2, <1>3, <1>4, <1>5, <1>6, <1>7 DEF LoginNext

(* A change that has written the password excuses the sessions of earlier  *)
(* ones until it has ended them.                                           *)
LEMMA SessionsInv ==
    ASSUME TypeOK, PasswordChangeEndsSessions, Next
    PROVE  PasswordChangeEndsSessions'
<1>. DEFINE Pending == {"use", "force", "revoke"}
<1>1. ASSUME UNCHANGED sessions, account'.password = account.password,
             \A c \in Change :
                changes[c].step \in Pending => changes'[c].step \in Pending
      PROVE  PasswordChangeEndsSessions'
  BY <1>1 DEF PasswordChangeEndsSessions
<1>2. CASE LoginNext /\ UNCHANGED <<resets, history, changes>>
  BY <1>2, LoginSessionsInv
<1>3. ASSUME NEW t \in ResetToken, RequestReset(t) \/ LinkExpires(t)
      PROVE  PasswordChangeEndsSessions'
  BY <1>1, <1>3 DEF RequestReset, LinkExpires, loginVars
<1>4. ASSUME NEW c \in Change, BeginChange(c) PROVE PasswordChangeEndsSessions'
  BY <1>1, <1>4, StartMoves, BeginChangeType
     DEF OtherChangesStay, AtStep, loginVars
<1>5. ASSUME NEW c \in Change, CheckReuse(c) PROVE PasswordChangeEndsSessions'
  BY <1>1, <1>5, ChangeMoves DEF CheckReuse, OtherChangesStay, AtStep, loginVars
<1>6. ASSUME NEW c \in Change, WritePassword(c)
      PROVE  PasswordChangeEndsSessions'
  BY <1>6, WriteMoves DEF PasswordChangeEndsSessions
<1>7. ASSUME NEW c \in Change, MarkUsed(c) PROVE PasswordChangeEndsSessions'
  BY <1>1, <1>7, ChangeMoves DEF MarkUsed, OtherChangesStay, loginVars
<1>8. ASSUME NEW c \in Change, ForceChange(c) PROVE PasswordChangeEndsSessions'
  <2>1. account'.password = account.password
    BY <1>8 DEF ForceChange, TypeOK, LoginTypeOK, Account
  <2>. QED  BY <1>1, <1>8, <2>1, ChangeMoves DEF ForceChange, OtherChangesStay
<1>9. ASSUME NEW c \in Change, RevokeOthers(c) PROVE PasswordChangeEndsSessions'
  <2>1. \A s \in Session : sessions'[s].kept \/ ~sessions'[s].live
    BY <1>9 DEF RevokeOthers, TypeOK, LoginTypeOK, SessionRow
  <2>. QED  BY <2>1 DEF PasswordChangeEndsSessions
<1>10. ASSUME NEW c \in Change, StopChange(c) PROVE PasswordChangeEndsSessions'
  BY <1>1, <1>10, StopMoves DEF StopChange, loginVars
<1>. QED
  BY <1>2, <1>3, <1>4, <1>5, <1>6, <1>7, <1>8, <1>9, <1>10
     DEF Next, AdvanceChange

(* Only a link in the mail is presented, and only a presented link is used.*)
LEMMA LinksInv ==
    ASSUME TypeOK, LinksAreMailed, Next
    PROVE  LinksAreMailed'
<1>. /\ resets \in [ResetToken -> ResetRow]
     /\ changes \in [Change -> ChangeRequest]
  BY DEF TypeOK
<1>1. ASSUME \A t \in ResetToken : resets'[t].state = "absent" =>
                 resets[t].state = "absent" /\ resets'[t].changed = resets[t].changed,
             \A c \in Change, t \in ResetToken :
                 changes'[c].token = t =>
                   changes[c].token = t \/ resets[t].state # "absent"
      PROVE  LinksAreMailed'
  BY <1>1 DEF LinksAreMailed
<1>2. CASE UNCHANGED <<resets, changes>>
  BY <1>1, <1>2
<1>3. ASSUME NEW t \in ResetToken, RequestReset(t) \/ LinkExpires(t)
      PROVE  LinksAreMailed'
  <2>1. /\ resets'[t].state # "absent"
        /\ \A x \in ResetToken : x # t => resets'[x] = resets[x]
        /\ UNCHANGED changes
    BY <1>3 DEF RequestReset, LinkExpires, ResetRow
  <2>. QED  BY <1>1, <2>1
<1>4. ASSUME NEW c \in Change, BeginChange(c) PROVE LinksAreMailed'
  <2>1. \A t \in ResetToken : changes'[c].token = t => resets[t].state # "absent"
    <3>1. changes'[c].token # None => resets[changes'[c].token].state = "live"
      BY <1>4, StartMoves
    <3>2. \A t \in ResetToken : t # None
      BY LinkAssumption
    <3>. QED  BY <3>1, <3>2
  <2>2. OtherChangesStay(c) /\ UNCHANGED resets
    BY <1>4, StartMoves, BeginChangeType
  <2>. QED  BY <1>1, <2>1, <2>2 DEF OtherChangesStay
<1>5. ASSUME NEW c \in Change,
             CheckReuse(c) \/ ForceChange(c) \/ RevokeOthers(c)
      PROVE  LinksAreMailed'
  <2>1. /\ OtherChangesStay(c) /\ UNCHANGED resets
        /\ changes'[c].token \in {changes[c].token, None}
    BY <1>5, ChangeMoves DEF CheckReuse, ForceChange, RevokeOthers
  <2>. QED  BY <1>1, <2>1, LinkAssumption DEF OtherChangesStay
<1>6. ASSUME NEW c \in Change, WritePassword(c) \/ MarkUsed(c)
      PROVE  LinksAreMailed'
  <2>1. OtherChangesStay(c) /\ changes'[c].token = changes[c].token
    BY <1>6, WriteMoves, ChangeMoves DEF MarkUsed
  <2>2. \A t \in ResetToken :
          /\ t # changes[c].token => resets'[t] = resets[t]
          /\ resets'[t].state \in {resets[t].state, "used"}
    BY <1>6 DEF WritePassword, MarkUsed, ResetRow
  <2>3. \A t \in ResetToken :
          t = changes[c].token => resets[t].state # "absent"
    BY DEF LinksAreMailed
  <2>. QED  BY <1>1, <2>1, <2>2, <2>3 DEF OtherChangesStay
<1>7. ASSUME NEW c \in Change, StopChange(c) PROVE LinksAreMailed'
  BY <1>1, <1>7, StopMoves DEF StopChange
<1>. QED
  BY <1>2, <1>3, <1>4, <1>5, <1>6, <1>7 DEF Next, AdvanceChange

(* A link that has changed the password waits to be marked used.           *)
LEMMA SpentInv ==
    ASSUME TypeOK, LinksAreMailed, ResetLinkIsSpent, Next
    PROVE  ResetLinkIsSpent'
<1>. /\ resets \in [ResetToken -> ResetRow]
     /\ changes \in [Change -> ChangeRequest]
  BY DEF TypeOK
<1>1. ASSUME UNCHANGED resets,
             \A c \in Change :
                changes[c].step = "use" =>
                  /\ changes'[c].step = "use"
                  /\ changes'[c].token = changes[c].token
      PROVE  ResetLinkIsSpent'
  BY <1>1 DEF ResetLinkIsSpent
<1>2. CASE UNCHANGED <<resets, changes>>
  BY <1>1, <1>2
<1>3. ASSUME NEW t \in ResetToken, RequestReset(t) PROVE ResetLinkIsSpent'
  <2>1. /\ ~resets'[t].changed
        /\ \A x \in ResetToken : x # t => resets'[x] = resets[x]
        /\ UNCHANGED changes
    BY <1>3 DEF RequestReset, LinksAreMailed, ResetRow
  <2>. QED  BY <2>1 DEF ResetLinkIsSpent
<1>4. ASSUME NEW t \in ResetToken, LinkExpires(t) PROVE ResetLinkIsSpent'
  <2>1. /\ resets'[t].state # "live"
        /\ \A x \in ResetToken : x # t => resets'[x] = resets[x]
        /\ UNCHANGED changes
    BY <1>4 DEF LinkExpires, ResetRow
  <2>. QED  BY <2>1 DEF ResetLinkIsSpent
<1>5. ASSUME NEW c \in Change, BeginChange(c) PROVE ResetLinkIsSpent'
  BY <1>1, <1>5, StartMoves, BeginChangeType DEF AtStep, OtherChangesStay
<1>6. ASSUME NEW c \in Change,
             CheckReuse(c) \/ ForceChange(c) \/ RevokeOthers(c)
      PROVE  ResetLinkIsSpent'
  <2>1. /\ OtherChangesStay(c) /\ UNCHANGED resets
        /\ changes[c].step # "use"
    BY <1>6, ChangeMoves DEF CheckReuse, ForceChange, RevokeOthers, AtStep
  <2>. QED  BY <1>1, <2>1 DEF OtherChangesStay
<1>7. ASSUME NEW c \in Change, WritePassword(c) PROVE ResetLinkIsSpent'
  <2>1. /\ OtherChangesStay(c)
        /\ changes'[c].token = changes[c].token
        /\ changes[c].token # None => changes'[c].step = "use"
        /\ changes[c].step # "use"
    BY <1>7, WriteMoves DEF WritePassword, AtStep
  <2>2. \A t \in ResetToken : t # changes[c].token => resets'[t] = resets[t]
    BY <1>7 DEF WritePassword
  <2>3. SUFFICES ASSUME NEW t \in ResetToken,
                        resets'[t].changed, resets'[t].state = "live"
                 PROVE  \E d \in Change :
                           changes'[d].token = t /\ changes'[d].step = "use"
    BY DEF ResetLinkIsSpent
  <2>4. CASE t = changes[c].token
    BY <2>1, <2>4, LinkAssumption
  <2>5. CASE t # changes[c].token
    <3>1. PICK d \in Change : changes[d].token = t /\ changes[d].step = "use"
      BY <2>2, <2>3, <2>5 DEF ResetLinkIsSpent
    <3>. QED  BY <2>1, <3>1 DEF OtherChangesStay
  <2>. QED  BY <2>4, <2>5
<1>8. ASSUME NEW c \in Change, MarkUsed(c) PROVE ResetLinkIsSpent'
  <2>1. OtherChangesStay(c)
    BY <1>8, ChangeMoves DEF MarkUsed
  <2>2. \A t \in ResetToken :
          /\ t # changes[c].token => resets'[t] = resets[t]
          /\ t = changes[c].token => resets'[t].state = "used"
    BY <1>8 DEF MarkUsed, ResetRow
  <2>3. SUFFICES ASSUME NEW t \in ResetToken,
                        resets'[t].changed, resets'[t].state = "live"
                 PROVE  \E d \in Change :
                           changes'[d].token = t /\ changes'[d].step = "use"
    BY DEF ResetLinkIsSpent
  <2>4. t # changes[c].token /\ resets'[t] = resets[t]
    BY <2>2, <2>3
  <2>5. PICK d \in Change : changes[d].token = t /\ changes[d].step = "use"
    BY <2>3, <2>4 DEF ResetLinkIsSpent
  <2>. QED  BY <2>1, <2>4, <2>5 DEF OtherChangesStay
<1>9. ASSUME NEW c \in Change, StopChange(c) PROVE ResetLinkIsSpent'
  BY <1>1, <1>9, StopMoves DEF StopChange
<1>. QED
  BY <1>2, <1>3, <1>4, <1>5, <1>6, <1>7, <1>8, <1>9 DEF Next, AdvanceChange

-----------------------------------------------------------------------------
(* Challenges.                                                             *)

(* Login's variables are of their types at the start.                      *)
LEMMA LoginInitType == LoginInit => LoginTypeOK
<1>. SUFFICES ASSUME LoginInit PROVE LoginTypeOK
  OBVIOUS
<1>1. account \in Account
  BY InitialAssumption DEF LoginInit, Account, State, Targets
<1>2. attempts \in 0..MaxAttempts
  BY AttemptsAssumption DEF LoginInit
<1>3. window \in BOOLEAN /\ lock \in BOOLEAN
  BY Zenon DEF LoginInit
<1>4. /\ challenge \in Challenge \cup {None}
      /\ issued \in [Challenge -> Password \cup {None}]
  BY DEF LoginInit
<1>5. sessions \in [Session -> SessionRow]
  BY DEF LoginInit, NoSession, SessionRow
<1>6. logins \in [Login -> LoginState]
  BY DEF LoginInit, Idle, LoginState, Step
<1>. QED  BY <1>1, <1>2, <1>3, <1>4, <1>5, <1>6 DEF LoginTypeOK

(* What a sign-in that moves on, or ends, does to its own state.           *)
LEMMA LoginMoves ==
    ASSUME LoginTypeOK, NEW r \in Login
    PROVE  /\ \A step \in Step :
                Goto(r, step) =>
                  /\ \A q \in Login : q # r => logins'[q] = logins[q]
                  /\ logins'[r].step = step
                  /\ logins'[r].right = logins[r].right
                  /\ logins'[r].password = logins[r].password
                  /\ logins'[r].challenge = logins[r].challenge
           /\ Finish(r) =>
                  /\ \A q \in Login : q # r => logins'[q] = logins[q]
                  /\ logins'[r] = Idle
<1>1. ASSUME NEW step \in Step, Goto(r, step)
      PROVE  /\ \A q \in Login : q # r => logins'[q] = logins[q]
             /\ logins'[r].step = step
             /\ logins'[r].right = logins[r].right
             /\ logins'[r].password = logins[r].password
             /\ logins'[r].challenge = logins[r].challenge
  BY <1>1 DEF LoginTypeOK, Goto, LoginState
<1>2. ASSUME Finish(r)
      PROVE  /\ \A q \in Login : q # r => logins'[q] = logins[q]
             /\ logins'[r] = Idle
  BY <1>2 DEF LoginTypeOK, Finish
<1>. QED  BY <1>1, <1>2

(* The attempt that creates the counter keeps what it was given.           *)
LEMMA CountMoves ==
    ASSUME LoginTypeOK, NEW r \in Login, Count(r)
    PROVE  /\ \A q \in Login : q # r => logins'[q] = logins[q]
           /\ \/ logins'[r] = Idle
              \/ /\ logins'[r].step \in {"window", "lockKey"}
                 /\ logins'[r].right = logins[r].right
                 /\ logins'[r].password = logins[r].password
                 /\ logins'[r].challenge = logins[r].challenge
<1>1. CASE attempts = 0
  <2>. DEFINE b == attempts + 1 >= MaxAttempts
  <2>1. logins' = [logins EXCEPT ![r] = [logins[r] EXCEPT !.step = "window",
                                                          !.limit = b]]
    BY <1>1 DEF Count
  <2>. HIDE DEF b
  <2>. QED  BY <2>1 DEF LoginTypeOK, LoginState
<1>2. CASE attempts # 0
  BY <1>2, LoginMoves DEF Count, Step
<1>. QED  BY <1>1, <1>2

(* The first statement of a sign-in makes one that holds no challenge, of a*)
(* verification one that is not "right" and holds the stored challenge.    *)
LEMMA BeginMoves ==
    ASSUME LoginTypeOK, NEW r \in Login
    PROVE  /\ \A right \in Guess :
                FindUser(r, right) =>
                  /\ \A q \in Login : q # r => logins'[q] = logins[q]
                  /\ logins'[r].step = "lock"
                  /\ logins'[r].right => logins'[r].password # None
                  /\ logins'[r].challenge = None
           /\ \A c \in Challenge :
                PresentChallenge(r, c) =>
                  /\ \A q \in Login : q # r => logins'[q] = logins[q]
                  /\ logins'[r].step = "code"
                  /\ ~logins'[r].right
                  /\ logins'[r].challenge = c
                  /\ challenge = c
<1>1. ASSUME NEW right \in Guess, FindUser(r, right)
      PROVE  /\ \A q \in Login : q # r => logins'[q] = logins[q]
             /\ logins'[r].step = "lock"
             /\ logins'[r].right => logins'[r].password # None
             /\ logins'[r].challenge = None
  <2>. DEFINE barred == account.state \in Barred
              x == [Idle EXCEPT !.step = "lock", !.barred = barred,
                                !.password = account.password,
                                !.right = right]
  <2>1. logins' = [logins EXCEPT ![r] = x] /\ (right => account.password # None)
    BY <1>1 DEF FindUser
  <2>2. /\ x.step = "lock" /\ x.challenge = None
        /\ x.right = right /\ x.password = account.password
    <3>. HIDE DEF barred
    <3>. QED  BY DEF Idle
  <2>. HIDE DEF x
  <2>. QED  BY <2>1, <2>2 DEF LoginTypeOK
<1>2. ASSUME NEW c \in Challenge, PresentChallenge(r, c)
      PROVE  /\ \A q \in Login : q # r => logins'[q] = logins[q]
             /\ logins'[r].step = "code"
             /\ ~logins'[r].right
             /\ logins'[r].challenge = c
             /\ challenge = c
  BY <1>2 DEF PresentChallenge, LoginTypeOK, Idle
<1>. QED  BY <1>1, <1>2

(* Stopping moves nobody.                                                  *)
LEMMA StopLoginMoves ==
    ASSUME LoginTypeOK, NEW r \in Login, StopLogin(r)
    PROVE  \A q \in Login : /\ logins'[q].step = logins[q].step
                            /\ logins'[q].right = logins[q].right
                            /\ logins'[q].password = logins[q].password
                            /\ logins'[q].challenge = logins[q].challenge
BY DEF StopLogin, LoginTypeOK, LoginState

(* The password submitted is compared with one the account has, and only   *)
(* then does the sign-in go past the lock.                                 *)
LEMMA RightInv ==
    ASSUME LoginTypeOK, RightHasPassword, LoginNext
    PROVE  RightHasPassword'
<1>0. ~Idle.right /\ Idle.step = "idle"
  BY DEF Idle
<1>1. ASSUME NEW r \in Login, BeginLogin(r) PROVE RightHasPassword'
  BY <1>1, BeginMoves DEF BeginLogin, RightHasPassword
<1>2. ASSUME NEW r \in Login, Count(r) PROVE RightHasPassword'
  BY <1>0, <1>2, CountMoves DEF RightHasPassword
<1>3. ASSUME NEW r \in Login, CheckLock(r) PROVE RightHasPassword'
  BY <1>0, <1>3, LoginMoves DEF CheckLock, Step, RightHasPassword
<1>4. ASSUME NEW r \in Login,
             \/ SetWindow(r) \/ SetLock(r) \/ SetLocked(r) \/ CheckCode(r)
             \/ SpendChallenge(r) \/ UserIsGone(r)
             \/ \E s \in Session : OpenSession(r, s)
             \/ \E c \in Challenge : IssueChallenge(r, c)
      PROVE  RightHasPassword'
  <2>1. Finish(r) \/ \E step \in {"lockKey", "lockState", "spend", "open"} :
                       Goto(r, step)
    BY <1>4 DEF SetWindow, SetLock, SetLocked, CheckCode, SpendChallenge,
                UserIsGone, OpenSession, IssueChallenge
  <2>. QED  BY <1>0, <2>1, LoginMoves DEF Step, RightHasPassword
<1>5. ASSUME NEW r \in Login, Clear(r) \/ ReadFactor(r)
      PROVE  RightHasPassword'
  <2>1. /\ Finish(r) \/ \E step \in {"factor", "challenge", "open"} :
                          Goto(r, step)
        /\ logins[r].step \in {"clear", "factor"}
    BY <1>5 DEF Clear, ReadFactor, At
  <2>. QED  BY <1>0, <2>1, LoginMoves DEF Step, RightHasPassword
<1>6. ASSUME NEW r \in Login, StopLogin(r) PROVE RightHasPassword'
  BY <1>6, StopLoginMoves DEF RightHasPassword
<1>7. CASE UNCHANGED logins
  BY <1>7 DEF RightHasPassword
<1>. QED
  BY <1>1, <1>2, <1>3, <1>4, <1>5, <1>6, <1>7
     DEF LoginNext, AdvanceLogin, AttemptsExpire, LockExpires, ChallengeExpires,
         ChangeState, UnlockAccount, DeleteUser, EnrollTotp, ResetMfa, EndSession

(* A step that hands out no challenge and opens no session leaves them be, *)
(* if no verification takes a challenge that is not stored, or goes on to  *)
(* open a session while its own still is.                                  *)
LEMMA HoldersKept ==
    ASSUME LoginTypeOK, Holders,
           challenge' \in {challenge, None}, issued' = issued,
           \A s \in Session : /\ sessions'[s].challenge = sessions[s].challenge
                              /\ sessions'[s].by = sessions[s].by,
           \A q \in Login :
              logins'[q].challenge # None =>
                /\ \/ logins'[q].challenge = logins[q].challenge
                   \/ logins'[q].challenge = challenge
                /\ logins'[q].step \in {"code", "spend", "open"}
                /\ logins'[q].step = "open" => challenge' # logins'[q].challenge
    PROVE  Holders'
<1>1. challenge' # None => issued'[challenge'] # None
  BY DEF Holders
<1>2. VerificationsHold'
  BY DEF Holders, VerificationsHold
<1>3. SessionsHold'
  BY DEF Holders, SessionsHold, ChallengeIsSpent
<1>4. ChallengeIsSpent'
  BY DEF Holders, ChallengeIsSpent
<1>. QED  BY <1>1, <1>2, <1>3, <1>4 DEF Holders

(* A challenge handed out is a new one.                                    *)
LEMMA IssueHolders ==
    ASSUME LoginTypeOK, RightHasPassword, Holders,
           NEW r \in Login, NEW c \in Challenge, IssueChallenge(r, c)
    PROVE  Holders'
<1>1. /\ issued[c] = None /\ challenge' = c
      /\ issued'[c] # None
      /\ \A d \in Challenge : d # c => issued'[d] = issued[d]
  BY DEF IssueChallenge, At, RightHasPassword, LoginTypeOK
<1>2. /\ \A q \in Login : q # r => logins'[q] = logins[q]
      /\ logins'[r].challenge = None
  BY LoginMoves DEF IssueChallenge, Idle
<1>3. sessions' = sessions
  BY DEF IssueChallenge
<1>4. /\ \A q \in Login : logins[q].challenge \in Challenge \cup {None}
      /\ \A s \in Session : sessions[s].challenge \in Challenge \cup {None}
  BY DEF LoginTypeOK, LoginState, SessionRow
<1>5. VerificationsHold'
  BY <1>1, <1>2, <1>4 DEF Holders, VerificationsHold
<1>6. SessionsHold'
  BY <1>1, <1>2, <1>3, <1>4 DEF Holders, SessionsHold
<1>7. ChallengeIsSpent'
  BY <1>1, <1>3, <1>4 DEF Holders, ChallengeIsSpent, SessionsHold
<1>. QED  BY <1>1, <1>5, <1>6, <1>7 DEF Holders

(* A session is opened by a verification that holds its challenge, which   *)
(* no session that verification opened before has.                         *)
LEMMA OpenHolders ==
    ASSUME LoginTypeOK, Holders,
           NEW r \in Login, NEW s \in Session, OpenSession(r, s)
    PROVE  Holders'
<1>1. /\ logins[r].step = "open"
      /\ sessions'[s].challenge = logins[r].challenge
      /\ sessions'[s].by = r
      /\ \A x \in Session : x # s => sessions'[x] = sessions[x]
      /\ challenge' = challenge /\ issued' = issued
  BY DEF OpenSession, At, LoginTypeOK
<1>2. /\ \A q \in Login : q # r => logins'[q] = logins[q]
      /\ logins'[r].challenge = None
  BY LoginMoves DEF OpenSession, Idle
<1>3. VerificationsHold'
  BY <1>1, <1>2 DEF Holders, VerificationsHold
<1>4. SessionsHold'
  BY <1>1, <1>2 DEF Holders, SessionsHold, VerificationsHold
<1>5. ChallengeIsSpent'
  <2>. SUFFICES ASSUME NEW x \in Session, NEW y \in Session,
                       sessions'[x].challenge # None
                PROVE  /\ challenge' # sessions'[x].challenge
                       /\ x # y /\ sessions'[x].challenge = sessions'[y].challenge
                            => sessions'[x].by # sessions'[y].by
    BY DEF ChallengeIsSpent
  <2>1. challenge' # sessions'[x].challenge
    BY <1>1 DEF Holders, ChallengeIsSpent, VerificationsHold
  <2>2. ASSUME x # y, sessions'[x].challenge = sessions'[y].challenge
        PROVE  sessions'[x].by # sessions'[y].by
    BY <1>1, <2>2 DEF Holders, ChallengeIsSpent, SessionsHold
  <2>. QED  BY <2>1, <2>2
<1>. QED  BY <1>1, <1>3, <1>4, <1>5 DEF Holders

(* No other step of a sign-in brings a challenge back.                     *)
LEMMA HoldersInv ==
    ASSUME LoginTypeOK, RightHasPassword, Holders, LoginNext
    PROVE  Holders'
<1>0. Idle.challenge = None
  BY DEF Idle
<1>v. \A q \in Login :
        logins[q].challenge # None =>
          /\ logins[q].step \in {"code", "spend", "open"}
          /\ logins[q].step = "open" => challenge # logins[q].challenge
  BY DEF Holders, VerificationsHold
<1>n. None \notin Challenge
  BY NullAssumption
<1>1. ASSUME NEW r \in Login, BeginLogin(r) PROVE Holders'
  <2>1. UNCHANGED <<challenge, issued, sessions>>
    BY <1>1 DEF BeginLogin, FindUser, PresentChallenge
  <2>. QED  BY <1>1, <1>v, <2>1, BeginMoves, HoldersKept DEF BeginLogin
<1>2. ASSUME NEW r \in Login, Count(r) PROVE Holders'
  <2>1. UNCHANGED <<challenge, issued, sessions>> /\ logins[r].step = "count"
    BY <1>2 DEF Count, At
  <2>. QED  BY <1>0, <1>2, <1>v, <2>1, CountMoves, HoldersKept
<1>3. ASSUME NEW r \in Login,
             \/ CheckLock(r) \/ SetWindow(r) \/ SetLock(r) \/ SetLocked(r)
             \/ Clear(r) \/ ReadFactor(r) \/ UserIsGone(r)
      PROVE  Holders'
  <2>1. /\ UNCHANGED <<challenge, issued, sessions>>
        /\ \/ Finish(r)
           \/ /\ logins[r].step \notin {"code", "spend", "open"}
              /\ \E step \in Step : Goto(r, step)
    BY <1>3 DEF CheckLock, SetWindow, SetLock, SetLocked, Clear, ReadFactor,
                UserIsGone, At, Step
  <2>. QED  BY <1>0, <1>v, <2>1, LoginMoves, HoldersKept
<1>4. ASSUME NEW r \in Login, CheckCode(r) PROVE Holders'
  <2>1. /\ UNCHANGED <<challenge, issued, sessions>>
        /\ Finish(r) \/ Goto(r, "spend")
    BY <1>4 DEF CheckCode
  <2>. QED  BY <1>0, <1>v, <2>1, LoginMoves, HoldersKept DEF Step
<1>5. ASSUME NEW r \in Login, SpendChallenge(r) PROVE Holders'
  <2>1. UNCHANGED <<issued, sessions>> /\ challenge' = None /\ Goto(r, "open")
    BY <1>5 DEF SpendChallenge
  <2>. QED  BY <1>v, <2>1, LoginMoves, HoldersKept DEF Step
<1>6. ASSUME NEW r \in Login, StopLogin(r) PROVE Holders'
  <2>1. UNCHANGED <<challenge, issued, sessions>>
    BY <1>6 DEF StopLogin
  <2>. QED  BY <1>6, <1>v, <2>1, StopLoginMoves, HoldersKept
<1>7. ASSUME NEW s \in Session, EndSession(s) PROVE Holders'
  <2>1. /\ UNCHANGED <<challenge, issued, logins>>
        /\ \A x \in Session : /\ sessions'[x].challenge = sessions[x].challenge
                              /\ sessions'[x].by = sessions[x].by
    BY <1>7 DEF EndSession, LoginTypeOK, SessionRow
  <2>. QED  BY <1>v, <2>1, HoldersKept
<1>8. ASSUME UNCHANGED <<issued, sessions, logins>>,
             challenge' \in {challenge, None}
      PROVE  Holders'
  BY <1>8, <1>v, HoldersKept
<1>. QED
  BY <1>1, <1>2, <1>3, <1>4, <1>5, <1>6, <1>7, <1>8, IssueHolders, OpenHolders
     DEF LoginNext, AdvanceLogin, AttemptsExpire, LockExpires, ChallengeExpires,
         ChangeState, UnlockAccount, DeleteUser, EnrollTotp, ResetMfa

(* The invariant of Login on its own holds at the start.                   *)
LEMMA LoginInitInv == LoginInit => ChallengeInv
<1>. SUFFICES ASSUME LoginInit PROVE ChallengeInv
  OBVIOUS
<1>1. LoginTypeOK
  BY LoginInitType
<1>2. RightHasPassword /\ Holders
  BY DEF LoginInit, RightHasPassword, Holders, VerificationsHold, SessionsHold,
         ChallengeIsSpent, Idle, NoSession
<1>. QED  BY <1>1, <1>2 DEF ChallengeInv

(* It is inductive.                                                        *)
LEMMA LoginStepInv == ChallengeInv /\ [LoginNext]_loginVars => ChallengeInv'
<1>. SUFFICES ASSUME ChallengeInv, [LoginNext]_loginVars PROVE ChallengeInv'
  OBVIOUS
<1>1. CASE LoginNext
  BY <1>1, LoginType, RightInv, HoldersInv DEF ChallengeInv
<1>2. CASE UNCHANGED loginVars
  BY <1>2 DEF ChallengeInv, loginVars, keys, LoginTypeOK, RightHasPassword,
              Holders, VerificationsHold, SessionsHold, ChallengeIsSpent
<1>. QED  BY <1>1, <1>2

(* A change of password moves no sign-in and no challenge: of the sessions *)
(* it changes only whether they are live and kept.                         *)
LEMMA ChallengeStepInv ==
    ASSUME TypeOK, RightHasPassword, Holders, [Next]_vars
    PROVE  (RightHasPassword /\ Holders)'
<1>. LoginTypeOK
  BY DEF TypeOK
<1>1. CASE LoginNext
  BY <1>1, RightInv, HoldersInv
<1>2. ASSUME UNCHANGED <<challenge, issued, logins>>,
             \A s \in Session : /\ sessions'[s].challenge = sessions[s].challenge
                                /\ sessions'[s].by = sessions[s].by
      PROVE  (RightHasPassword /\ Holders)'
  <2>1. RightHasPassword'
    BY <1>2 DEF RightHasPassword
  <2>2. \A q \in Login :
          logins[q].challenge # None =>
            /\ logins[q].step \in {"code", "spend", "open"}
            /\ logins[q].step = "open" => challenge # logins[q].challenge
    BY DEF Holders, VerificationsHold
  <2>3. Holders'
    BY <1>2, <2>2, HoldersKept
  <2>. QED  BY <2>1, <2>3
<1>3. ASSUME NEW c \in Change, RevokeOthers(c)
      PROVE  (RightHasPassword /\ Holders)'
  <2>1. /\ UNCHANGED <<challenge, issued, logins>>
        /\ sessions' = [s \in Session |->
                          IF s = changes[c].keep
                            THEN [sessions[s] EXCEPT !.kept = TRUE]
                            ELSE [sessions[s] EXCEPT !.live = FALSE]]
    BY <1>3 DEF RevokeOthers
  <2>2. \A s \in Session : /\ sessions'[s].challenge = sessions[s].challenge
                           /\ sessions'[s].by = sessions[s].by
    BY <2>1 DEF LoginTypeOK, SessionRow
  <2>. QED  BY <1>2, <2>1, <2>2
<1>4. ASSUME NEW c \in Change, BeginChange(c)
      PROVE  (RightHasPassword /\ Holders)'
  BY <1>2, <1>4, BeginChangeType DEF loginVars
<1>5. ASSUME NEW c \in Change,
             \/ CheckReuse(c) \/ WritePassword(c) \/ MarkUsed(c)
             \/ ForceChange(c) \/ StopChange(c)
      PROVE  (RightHasPassword /\ Holders)'
  BY <1>2, <1>5 DEF CheckReuse, WritePassword, MarkUsed, ForceChange,
                    StopChange, loginVars
<1>6. ASSUME NEW t \in ResetToken, RequestReset(t) \/ LinkExpires(t)
      PROVE  (RightHasPassword /\ Holders)'
  BY <1>2, <1>6 DEF RequestReset, LinkExpires, loginVars
<1>7. CASE UNCHANGED vars
  BY <1>2, <1>7 DEF vars, loginVars
<1>. QED
  BY <1>1, <1>3, <1>4, <1>5, <1>6, <1>7 DEF Next, AdvanceChange

-----------------------------------------------------------------------------
(* The theorems.                                                           *)

(* The invariant holds at the start.                                       *)
LEMMA InitInv == Init => IInv
<1>. SUFFICES ASSUME Init PROVE IInv
  OBVIOUS
<1>2. LoginTypeOK
  BY LoginInitType DEF Init
<1>3. TypeOK
  BY <1>2 DEF Init, TypeOK, ResetRow, NoChange, ChangeRequest
<1>4. CounterHasWindow
  BY DEF Init, LoginInit, CounterHasWindow
<1>5. PasswordChangeEndsSessions
  BY DEF Init, LoginInit, PasswordChangeEndsSessions, NoSession
<1>6. ChangesReady
  BY DEF Init, ChangesReady, NoChange
<1>7. LinksAreMailed /\ ResetLinkIsSpent
  BY LinkAssumption DEF Init, LinksAreMailed, ResetLinkIsSpent, NoChange
<1>. QED  BY <1>3, <1>4, <1>5, <1>6, <1>7 DEF IInv

(* It is inductive.                                                        *)
LEMMA StepInv == IInv /\ [Next]_vars => IInv'
<1>. SUFFICES ASSUME IInv, [Next]_vars PROVE IInv'
  OBVIOUS
<1>1. CASE UNCHANGED vars
  BY <1>1 DEF vars, loginVars, keys, IInv, TypeOK, LoginTypeOK, ChangesReady,
              CounterHasWindow, PasswordChangeEndsSessions, LinksAreMailed,
              ResetLinkIsSpent
<1>2. CASE Next
  <2>1. CounterHasWindow'
    <3>1. CASE LoginNext
      BY <3>1, CounterInv DEF IInv, TypeOK
    <3>2. CASE ~LoginNext
      <4>1. UNCHANGED <<attempts, window, logins>>
        BY <1>2, <3>2, BeginChangeType
           DEF Next, IInv, AdvanceChange, CheckReuse, WritePassword, MarkUsed,
               ForceChange, RevokeOthers, StopChange, RequestReset, LinkExpires,
               loginVars, keys
      <4>. QED  BY <4>1 DEF IInv, CounterHasWindow
    <3>. QED  BY <3>1, <3>2
  <2>. QED
    BY <1>2, <2>1, StepType, ReadyInv, SessionsInv, LinksInv, SpentInv DEF IInv
<1>. QED  BY <1>1, <1>2

(* Whatever sign-ins, changes, expiries and administrators do, and however *)
(* many there are, the invariant holds.                                    *)
THEOREM Invariance == Spec => []IInv
BY InitInv, StepInv, PTL DEF Spec

(* The account, its keys, sessions, sign-ins, links and changes are always *)
(* of their types.                                                         *)
THEOREM TypeCorrect == Spec => []TypeOK
BY Invariance, PTL DEF IInv

(* redisIncrEx leaves no counter without a window, for any number of       *)
(* sign-ins and any limit, unless the one that created it died.            *)
THEOREM CounterHasWindowHolds == Spec => []CounterHasWindow
BY Invariance, PTL DEF IInv

(* A change of password ends the sessions of earlier passwords, but those  *)
(* opened by sign-ins it overtook and the one it was made from.            *)
THEOREM PasswordChangeEndsSessionsHolds == Spec => []PasswordChangeEndsSessions
BY Invariance, PTL DEF IInv

(* A reset link that has changed the password is redeemable only until the *)
(* request that redeemed it has marked it.                                 *)
THEOREM ResetLinkIsSpentHolds == Spec => []ResetLinkIsSpent
BY Invariance, PTL DEF IInv

(* A sign-in's state, the account, its keys and its sessions are always of *)
(* their types, for any limit, and any number of handlers and challenges.  *)
THEOREM LoginTypeCorrect == LoginSpec => []LoginTypeOK
BY LoginInitInv, LoginStepInv, PTL DEF LoginSpec, ChallengeInv

(* A challenge that has opened a session is not redeemable any more, and   *)
(* one verification opens one session of it, though it is read in one      *)
(* statement and deleted in another.                                       *)
THEOREM ChallengeIsSpentHolds == LoginSpec => []ChallengeIsSpent
BY LoginInitInv, LoginStepInv, PTL DEF LoginSpec, ChallengeInv, Holders

(* The same while passwords change and links are redeemed.                 *)
THEOREM ChangesLeaveChallengesSpent == Spec => []ChallengeIsSpent
<1>1. Init => RightHasPassword /\ Holders
  BY LoginInitInv DEF Init, ChallengeInv
<1>2. TypeOK /\ RightHasPassword /\ Holders /\ [Next]_vars
        => (RightHasPassword /\ Holders)'
  BY ChallengeStepInv
<1>3. RightHasPassword /\ Holders => ChallengeIsSpent
  BY DEF Holders
<1>. QED  BY <1>1, <1>2, <1>3, TypeCorrect, PTL DEF Spec
=============================================================================
