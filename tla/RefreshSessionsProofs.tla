------------------------ MODULE RefreshSessionsProofs ------------------------
(***************************************************************************)
(* Proofs about RefreshSessions, for any number of users, devices,         *)
(* sessions, tokens and concurrent requests.                               *)
(***************************************************************************)
EXTENDS RefreshSessions, TLAPS

-----------------------------------------------------------------------------
(* Rows and statements: what each does, column by column.                  *)

(* Revoking a token row changes no other column.                           *)
LEMMA RevokedTokenRow ==
    ASSUME NEW x \in TokenRow
    PROVE  LET y == [x EXCEPT !.revoked = TRUE] IN
           /\ y \in TokenRow
           /\ y.session = x.session
           /\ y.rotatedFrom = x.rotatedFrom
           /\ y.by = x.by
           /\ y.revoked = TRUE
BY DEF TokenRow

(* A new token row is a row, live and unexpired.                           *)
LEMMA NewTokenRow ==
    ASSUME NEW s \in Session, NEW from \in Token \cup {None}, NEW r \in Request
    PROVE  /\ NewToken(s, from, r) \in TokenRow
           /\ NewToken(s, from, r).session = s
           /\ NewToken(s, from, r).rotatedFrom = from
           /\ NewToken(s, from, r).by = r
           /\ NewToken(s, from, r).revoked = FALSE
BY DEF TokenRow, NewToken

(* Revoking or touching a session row keeps its user and its device, and   *)
(* touching keeps whether it is revoked.                                   *)
LEMMA RevokedSessionRow ==
    ASSUME NEW x \in SessionRow
    PROVE  LET y == [x EXCEPT !.revoked = TRUE] IN
           /\ y \in SessionRow
           /\ y.user = x.user
           /\ y.device = x.device
           /\ y.expiry = x.expiry
           /\ y.revoked = TRUE
BY DEF SessionRow

(* Touching a session moves its idle deadline, and nothing that says whose it *)
(* is or whether it was revoked: an expired one stays over.                *)
LEMMA TouchedSessionRow ==
    ASSUME TypeOK, NEW s \in Session
    PROVE  LET y == Touched(s) IN
           /\ y \in SessionRow
           /\ y.user = sessions[s].user
           /\ y.device = sessions[s].device
           /\ y.revoked = sessions[s].revoked
           /\ sessions[s].expiry = "over" => y.expiry = "over"
BY DEF TypeOK, Touched, SessionRow, Expiry

(* The types of the columns the arguments below look at.                   *)
LEMMA Columns ==
    ASSUME TypeOK
    PROVE  /\ \A t \in Token : /\ tokens[t].session \in Session \cup {None}
                               /\ tokens[t].rotatedFrom \in Token \cup {None}
                               /\ tokens[t].revoked \in BOOLEAN
           /\ \A s \in Session : /\ sessions[s].device \in Device \cup {None}
                                 /\ sessions[s].revoked \in BOOLEAN
           /\ \A r \in Request : /\ requests[r].targets \subseteq Session
                                 /\ requests[r].step \in Step
BY DEF TypeOK, TokenRow, SessionRow, RequestState

(* Columns that only grow: a row keeps its keys, a revocation stays.       *)
TokenKept(t) ==
    /\ tokens'[t].session = tokens[t].session
    /\ tokens'[t].rotatedFrom = tokens[t].rotatedFrom
    /\ tokens'[t].by = tokens[t].by

SessionKept(s) ==
    /\ sessions'[s].user = sessions[s].user
    /\ sessions'[s].device = sessions[s].device

(* The UPDATE of refresh_tokens revokes the tokens of the sessions in S, and *)
(* changes no other column.                                                *)
LEMMA RevokeTokenRowsEffect ==
    ASSUME TypeOK, NEW S, RevokeTokenRows(S)
    PROVE  /\ tokens' \in [Token -> TokenRow]
           /\ \A t \in Token :
                /\ TokenKept(t)
                /\ tokens'[t].revoked =
                     (tokens[t].revoked \/ tokens[t].session \in S)
<1>. SUFFICES ASSUME NEW t \in Token
              PROVE  /\ tokens'[t] \in TokenRow
                     /\ TokenKept(t)
                     /\ tokens'[t].revoked =
                          (tokens[t].revoked \/ tokens[t].session \in S)
  BY DEF RevokeTokenRows
<1>1. tokens[t] \in TokenRow /\ tokens[t].revoked \in BOOLEAN
  BY DEF TypeOK, TokenRow
<1>2. CASE tokens[t].session \in S
  <2>1. tokens'[t] = [tokens[t] EXCEPT !.revoked = TRUE]
    BY <1>2 DEF RevokeTokenRows, TokensOf
  <2>. QED  BY <1>1, <1>2, <2>1, RevokedTokenRow DEF TokenKept
<1>3. CASE tokens[t].session \notin S
  <2>1. tokens'[t] = tokens[t]
    BY <1>3 DEF RevokeTokenRows, TokensOf
  <2>. QED  BY <1>1, <1>3, <2>1 DEF TokenKept
<1>. QED  BY <1>2, <1>3

(* The UPDATE of sessions revokes the sessions in S, and changes no other  *)
(* column.                                                                 *)
LEMMA RevokeSessionRowsEffect ==
    ASSUME TypeOK, NEW S, RevokeSessionRows(S)
    PROVE  /\ sessions' \in [Session -> SessionRow]
           /\ \A s \in Session :
                /\ SessionKept(s)
                /\ sessions'[s].expiry = sessions[s].expiry
                /\ sessions'[s].revoked = (sessions[s].revoked \/ s \in S)
<1>. SUFFICES ASSUME NEW s \in Session
              PROVE  /\ sessions'[s] \in SessionRow
                     /\ SessionKept(s)
                     /\ sessions'[s].expiry = sessions[s].expiry
                     /\ sessions'[s].revoked = (sessions[s].revoked \/ s \in S)
  BY DEF RevokeSessionRows
<1>1. sessions[s] \in SessionRow /\ sessions[s].revoked \in BOOLEAN
  BY DEF TypeOK, SessionRow
<1>2. CASE s \in S
  <2>1. sessions'[s] = [sessions[s] EXCEPT !.revoked = TRUE]
    BY <1>2 DEF RevokeSessionRows
  <2>. QED  BY <1>1, <1>2, <2>1, RevokedSessionRow DEF SessionKept
<1>3. CASE s \notin S
  <2>1. sessions'[s] = sessions[s]
    BY <1>3 DEF RevokeSessionRows
  <2>. QED  BY <1>1, <1>3, <2>1 DEF SessionKept
<1>. QED  BY <1>2, <1>3

(* Moving request r on leaves the other requests where they are.           *)
OthersStay(r) == \A q \in Request : q # r => requests'[q] = requests[q]

(* Moving on to the next statement changes one handler, and of it the step. *)
LEMMA GotoEffect ==
    ASSUME TypeOK, NEW r \in Request, NEW step \in Step, Goto(r, step)
    PROVE  /\ requests' \in [Request -> RequestState]
           /\ OthersStay(r)
           /\ requests'[r].step = step
           /\ requests'[r].token = requests[r].token
           /\ requests'[r].targets = requests[r].targets
           /\ requests'[r].device = requests[r].device
BY DEF TypeOK, Goto, RequestState, OthersStay

(* A handler that answers is idle and owes nothing; the others stay.       *)
LEMMA FinishEffect ==
    ASSUME TypeOK, NEW r \in Request, Finish(r)
    PROVE  /\ requests' \in [Request -> RequestState]
           /\ OthersStay(r)
           /\ requests'[r].step = "idle"
           /\ requests'[r].targets = {}
BY DEF TypeOK, Finish, RequestState, OthersStay, Idle, Step

(* Moving on with new arguments changes one handler.                       *)
LEMMA GotoWithEffect ==
    ASSUME TypeOK, NEW r \in Request, NEW step \in Step,
           NEW token \in Token \cup {None}, NEW targets \in SUBSET Session,
           NEW device \in Device \cup {None},
           GotoWith(r, step, token, targets, device)
    PROVE  /\ requests' \in [Request -> RequestState]
           /\ OthersStay(r)
           /\ requests'[r].step = step
           /\ requests'[r].token = token
           /\ requests'[r].targets = targets
           /\ requests'[r].device = device
BY DEF TypeOK, GotoWith, RequestState, OthersStay

-----------------------------------------------------------------------------
(* The invariant, action by action.                                        *)

(* What RequestReady says of a request that the step leaves where it is    *)
(* carries over when rows keep their keys and revocations stay.            *)
RowsGrow ==
    /\ \A s \in Session : /\ SessionExists(s) => SessionKept(s)
                          /\ sessions[s].revoked => sessions'[s].revoked
    /\ \A t \in Token :
         /\ TokenExists(t) => TokenKept(t)
         /\ tokens[t].revoked => tokens'[t].revoked
         /\ ~TokenExists(t) /\ TokenExists(t)' =>
              \/ tokens'[t].rotatedFrom # None
              \/ ~SessionExists(tokens'[t].session)

(* What a handler was about to do stays possible when another handler's    *)
(* statement only adds rows or revokes them.                               *)
LEMMA ReadyStays ==
    ASSUME IInv, RowsGrow, TypeOK', NEW q \in Request, requests'[q] = requests[q]
    PROVE  RequestReady(q)'
<1>1. RequestReady(q)
  BY DEF IInv
<1>2. requests[q].targets \subseteq Session
  BY DEF IInv, TypeOK, RequestState
<1>3. \A t \in Token : TokenExists(t) => TokenExists(t)'
  BY DEF RowsGrow, TokenKept, TokenExists
<1>4. \A s \in Session : SessionExists(s) => SessionExists(s)'
  BY DEF RowsGrow, SessionKept, SessionExists
<1>5. (\A s \in requests[q].targets : SessionExists(s))'
  BY <1>1, <1>2, <1>4 DEF RequestReady
<1>6. CASE requests[q].step = "mint"
  BY <1>1, <1>2, <1>3, <1>5, <1>6 DEF RequestReady, RowsGrow, TokenKept
<1>7. CASE requests[q].step = "familySession"
  <2>1. ASSUME NEW t \in Token, tokens'[t].session \in requests[q].targets
        PROVE  ~Redeemable(t)'
    BY <1>1, <1>2, <1>7, <2>1 DEF RequestReady, RowsGrow, TokenKept, Redeemable,
                                Spent, TokensOf, TokenExists
  <2>. QED  BY <1>1, <1>5, <1>7, <2>1 DEF RequestReady, TokensOf
<1>8. CASE requests[q].step \notin {"mint", "familySession"}
  BY <1>1, <1>2, <1>5, <1>8 DEF RequestReady, RowsGrow
<1>. QED  BY <1>6, <1>7, <1>8

(* The commit of a rotation preserves the invariant: the hard case, for it *)
(* goes by a row read before others could revoke it.                       *)
LEMMA MintInv ==
    ASSUME IInv, NEW r \in Request, NEW n \in Token, CommitRotation(r, n)
    PROVE  IInv'
<1>. DEFINE p == requests[r].token
            s == tokens[p].session
<1>. TypeOK
  BY DEF IInv
<1>1. /\ p \in Token /\ TokenExists(p)
      /\ tokens[p].rotatedFrom = None
      /\ requests[r].step = "mint"
      /\ requests[r].targets = {s}
      /\ ~TokenExists(n) /\ n # p
      /\ s \in Session /\ SessionExists(s)
      /\ None \notin Token
  BY NoneAssumption DEF RequestReady, TypeOK, TokenExists, TokenRow, IInv,
                        CommitRotation, At
<1>2. /\ tokens' \in [Token -> TokenRow]
      /\ \A t \in Token : t # n =>
           /\ TokenKept(t)
           /\ tokens'[t].revoked = (t = p \/ tokens[t].revoked)
      /\ tokens'[n].session = s
      /\ tokens'[n].rotatedFrom = p
      /\ tokens'[n].by = r
      /\ tokens'[n].revoked = FALSE
  <2>. SUFFICES ASSUME NEW t \in Token
                PROVE  /\ tokens'[t] \in TokenRow
                       /\ t # n => 
                           /\ TokenKept(t)
                           /\ tokens'[t].revoked = (t = p \/ tokens[t].revoked)
                       /\ t = n => 
                           /\ tokens'[t].session = s
                           /\ tokens'[t].rotatedFrom = p
                           /\ tokens'[t].by = r
                           /\ tokens'[t].revoked = FALSE
    <3>1. tokens' = [t \in Token |-> tokens'[t]]
      BY DEF CommitRotation, Mint
    <3>. QED  BY <1>1, <3>1
  <2>1. tokens[t] \in TokenRow /\ tokens[t].revoked \in BOOLEAN
    BY DEF TypeOK, TokenRow
  <2>2. CASE t = n
    <3>1. tokens'[t] = NewToken(s, p, r)
      BY <1>1, <2>2 DEF CommitRotation, Mint
    <3>2. /\ NewToken(s, p, r) \in TokenRow
          /\ NewToken(s, p, r).session = s
          /\ NewToken(s, p, r).rotatedFrom = p
          /\ NewToken(s, p, r).by = r
          /\ NewToken(s, p, r).revoked = FALSE
      BY <1>1 DEF TokenRow, NewToken
    <3>. QED  BY <2>2, <3>1, <3>2
  <2>3. CASE t = p
    <3>1. tokens'[t] = [tokens[t] EXCEPT !.revoked = TRUE]
      BY <1>1, <2>3 DEF CommitRotation, Mint
    <3>. QED  BY <1>1, <2>1, <2>3, <3>1, RevokedTokenRow DEF TokenKept
  <2>4. CASE t # n /\ t # p
    <3>1. tokens'[t] = tokens[t]
      BY <1>1, <2>4 DEF CommitRotation, Mint
    <3>. QED  BY <1>1, <2>1, <2>4, <3>1 DEF TokenKept
  <2>. QED  BY <2>2, <2>3, <2>4
<1>3. /\ sessions' \in [Session -> SessionRow]
      /\ \A x \in Session : SessionKept(x) /\ sessions'[x].revoked = sessions[x].revoked
  BY TouchedSessionRow DEF TypeOK, CommitRotation, SessionKept
<1>4. /\ requests' \in [Request -> RequestState]
      /\ OthersStay(r)
      /\ requests'[r].step = "account"
      /\ requests'[r].targets = {s}
  BY <1>1, GotoEffect DEF CommitRotation, Step
<1>5. TypeOK'
  BY <1>2, <1>3, <1>4 DEF TypeOK, CommitRotation
<1>6. /\ \A t \in Token : tokens'[t].session # None <=> t = n \/ tokens[t].session # None
      /\ \A x \in Session : SessionExists(x)' <=> SessionExists(x)
  <2>1. s # None
    BY <1>1, NoneAssumption
  <2>. QED  BY <2>1, <1>2, <1>3 DEF TokenExists, SessionExists, TokenKept, SessionKept
<1>7. BlankRows'
  <2>1. BlankRows
    BY DEF IInv
  <2>. QED  BY <2>1, <1>1, <1>2, <1>3, <1>6, Columns DEF BlankRows, TokenKept, SessionKept, TokenExists, SessionExists
<1>20. RowsGrow
  <2>1. BlankRows
    BY DEF IInv
  <2>2. \A x \in Session : SessionKept(x) /\ (sessions[x].revoked => sessions'[x].revoked)
    BY <1>3
  <2>3. ASSUME NEW t \in Token
        PROVE  /\ tokens[t].session # None => TokenKept(t)
               /\ tokens[t].revoked => tokens'[t].revoked
               /\ tokens[t].session = None /\ tokens'[t].session # None =>
                    tokens'[t].rotatedFrom # None
    BY <1>1, <1>2, <1>6, <2>1, Columns DEF TokenExists, BlankRows
  <2>. QED  BY <2>2, <2>3 DEF RowsGrow, TokenExists
<1>8. (\A q \in Request : RequestReady(q))'
  <2>1. RequestReady(r)'
    BY <1>1, <1>3, <1>4 DEF RequestReady, SessionExists, SessionKept
  <2>2. ASSUME NEW q \in Request, q # r
        PROVE  RequestReady(q)'
    BY <1>4, <1>5, <1>20, <2>2, ReadyStays DEF OthersStay
  <2>. QED  BY <2>1, <2>2
<1>9. RotationChain'
  <2>1. RotationChain
    BY DEF IInv
  <2>2. ASSUME NEW t \in Token, tokens'[t].rotatedFrom # None
        PROVE  LET c == tokens'[t].rotatedFrom IN
               /\ c \in Token /\ tokens'[c].session # None
               /\ tokens'[c].session = tokens'[t].session
               /\ tokens'[c].rotatedFrom = None
               /\ tokens'[c].revoked
    <3>1. CASE t = n
      BY <1>1, <1>2, <1>6, <3>1 DEF TokenKept, TokenExists
    <3>2. CASE t # n
      BY <1>1, <1>2, <2>1, <2>2, <3>2, Columns DEF RotationChain, TokenKept, TokenExists
    <3>. QED  BY <3>1, <3>2
  <2>. QED  BY <2>2 DEF RotationChain, TokenExists
<1>10. MintsOnce'
  BY <1>1, <1>2, <1>4 DEF MintsOnce, IInv, TokenKept, OthersStay
<1>11. OneMintPerRequest'
  BY <1>1, <1>2 DEF OneMintPerRequest, MintsOnce, IInv, TokenKept
<1>12. NoOrphanCredential'
  <2>1. \A x \in Session : RevocationUnfinished(x) => RevocationUnfinished(x)'
    BY <1>1, <1>3, <1>4 DEF RevocationUnfinished, OthersStay, SessionKept
  <2>2. ASSUME NEW t \in Token, Redeemable(t)',
               (sessions[tokens[t].session].revoked)'
        PROVE  RevocationUnfinished(tokens[t].session)'
    <3>1. t # n /\ Redeemable(t) /\ tokens'[t].session = tokens[t].session
      BY <1>1, <1>2, <1>6, <2>2, Columns DEF Redeemable, Spent, TokenKept, TokenExists
    <3>2. tokens[t].session \in Session
      BY <3>1, Columns DEF Redeemable, TokenExists
    <3>. QED  BY <1>3, <2>1, <2>2, <3>1, <3>2 DEF NoOrphanCredential, IInv
  <2>. QED  BY <2>2 DEF NoOrphanCredential
<1>13. FirstTokenDiesForACause'
  <2>1. BlankRows /\ FirstTokenDiesForACause
    BY DEF IInv
  <2>2. ASSUME NEW t \in Token, tokens'[t].session # None,
               tokens'[t].rotatedFrom = None, tokens'[t].revoked,
               (sessions[tokens[t].session].device = None)'
        PROVE  LET x == tokens'[t].session IN
               \/ sessions'[x].revoked
               \/ \E c \in Token : tokens'[c].rotatedFrom = t
               \/ \E q \in Request : /\ requests'[q].step = "familySession"
                                     /\ x \in requests'[q].targets
    <3>1. t # n /\ tokens[t].session \in Session /\ TokenKept(t)
      BY <1>1, <1>2, <2>2, Columns DEF TokenKept
    <3>2. CASE t = p
      BY <1>2, <3>2
    <3>3. CASE t # p
      <4>1. \/ sessions[tokens[t].session].revoked
            \/ \E c \in Token : tokens[c].rotatedFrom = t
            \/ \E q \in Request : /\ requests[q].step = "familySession"
                                  /\ tokens[t].session \in requests[q].targets
        BY <1>2, <1>3, <2>1, <2>2, <3>1, <3>3, Columns
           DEF FirstTokenDiesForACause, TokenKept, SessionKept, TokenExists
      <4>2. \A c \in Token : tokens[c].rotatedFrom = t => tokens'[c].rotatedFrom = t
        BY <1>1, <1>2, <2>1, NoneAssumption DEF BlankRows, TokenKept
      <4>. QED  BY <1>1, <1>3, <1>4, <3>1, <4>1, <4>2 DEF TokenKept, OthersStay
    <3>. QED  BY <3>2, <3>3
  <2>. QED  BY <2>2 DEF FirstTokenDiesForACause, TokenExists
<1>. QED  BY <1>5, <1>7, <1>8, <1>9, <1>10, <1>11, <1>12, <1>13 DEF IInv

(* The other steps insert no row.                                          *)
KeysKept ==
    /\ \A t \in Token :
         /\ TokenKept(t)
         /\ tokens[t].revoked => tokens'[t].revoked
         /\ tokens'[t].revoked => tokens[t].revoked \/ TokenExists(t)
    /\ \A s \in Session :
         /\ SessionKept(s)
         /\ sessions[s].revoked => sessions'[s].revoked
         /\ sessions'[s].revoked => sessions[s].revoked \/ SessionExists(s)

(* A request that turns to minting has just seen its token live.           *)
MintsLive ==
    \A q \in Request : requests'[q].step = "mint" =>
        \/ /\ requests[q].step = "mint"
           /\ requests'[q].token = requests[q].token
        \/ ~tokens[requests'[q].token].revoked

(* Statements that write no key column preserve the parts of the invariant *)
(* that are about keys.                                                    *)
LEMMA KeysKeptInv ==
    ASSUME IInv, TypeOK', KeysKept, MintsLive,
           (\A q \in Request : RequestReady(q))'
    PROVE  BlankRows' /\ RotationChain' /\ MintsOnce' /\ OneMintPerRequest'
<1>. TypeOK /\ BlankRows /\ RotationChain /\ MintsOnce /\ OneMintPerRequest
  BY DEF IInv
<1>1. BlankRows'
  BY Columns DEF BlankRows, KeysKept, TokenKept, SessionKept, TokenExists,
                 SessionExists
<1>2. RotationChain'
  BY Columns DEF RotationChain, KeysKept, TokenKept, TokenExists
<1>3. MintsOnce'
  <2>. SUFFICES ASSUME NEW r \in Request, NEW t \in Token,
                       requests'[r].step = "mint",
                       tokens'[t].rotatedFrom = requests'[r].token
                PROVE  tokens'[t].by # r
    BY DEF MintsOnce
  <2>1. /\ tokens[t].rotatedFrom = requests'[r].token
        /\ tokens'[t].by = tokens[t].by
    BY DEF KeysKept, TokenKept
  <2>2. CASE requests[r].step = "mint" /\ requests'[r].token = requests[r].token
    BY <2>1, <2>2 DEF MintsOnce
  <2>3. CASE ~tokens[requests'[r].token].revoked
    <3>1. tokens[t].rotatedFrom = None
      BY <2>1, <2>3 DEF RotationChain
    <3>2. requests'[r].token = None
      BY <2>1, <3>1
    <3>3. requests'[r].token \in Token
      BY DEF RequestReady
    <3>. QED  BY <3>2, <3>3, NoneAssumption
  <2>. QED  BY <2>2, <2>3 DEF MintsLive
<1>4. OneMintPerRequest'
  BY DEF OneMintPerRequest, KeysKept, TokenKept
<1>. QED  BY <1>1, <1>2, <1>3, <1>4

(* Nothing is inserted: requests that stay where they are stay ready.      *)
LEMMA KeysKeptGrow ==
    ASSUME KeysKept
    PROVE  RowsGrow
BY DEF KeysKept, RowsGrow, TokenKept, TokenExists

(* What a request still owes to the tables: the revocations it began.      *)
SameDebt(q) ==
    /\ requests'[q].step = requests[q].step
    /\ requests'[q].targets = requests[q].targets
    /\ requests'[q].device = requests[q].device

Indebted(q) == requests[q].step \in {"endTokens", "deviceTokens", "familySession"}

(* Steps that revoke nothing.                                              *)
LEMMA QuietInv ==
    ASSUME IInv, TypeOK', KeysKept, MintsLive,
           \A t \in Token : tokens'[t].revoked = tokens[t].revoked,
           \A s \in Session : sessions'[s].revoked = sessions[s].revoked,
           (\A q \in Request : RequestReady(q))',
           \A q \in Request : Indebted(q) => SameDebt(q)
    PROVE  IInv'
<1>. TypeOK /\ NoOrphanCredential /\ FirstTokenDiesForACause
  BY DEF IInv
<1>1. NoOrphanCredential'
  <2>. SUFFICES ASSUME NEW t \in Token, tokens'[t].session # None,
                       ~tokens'[t].revoked, tokens'[t].rotatedFrom = None,
                       sessions'[tokens'[t].session].revoked
                PROVE  RevocationUnfinished(tokens[t].session)'
    BY DEF NoOrphanCredential, Redeemable, Spent, TokenExists
  <2>1. tokens'[t].session = tokens[t].session /\ tokens[t].session \in Session
    BY Columns DEF KeysKept, TokenKept
  <2>2. RevocationUnfinished(tokens[t].session)
    BY <2>1 DEF NoOrphanCredential, Redeemable, Spent, TokenExists, KeysKept,
                TokenKept
  <2>. QED  BY <2>1, <2>2 DEF RevocationUnfinished, Indebted, SameDebt,
                              KeysKept, SessionKept
<1>2. FirstTokenDiesForACause'
  BY Columns DEF FirstTokenDiesForACause, KeysKept, TokenKept, SessionKept,
                 TokenExists, Indebted, SameDebt
<1>. QED  BY <1>1, <1>2, KeysKeptInv DEF IInv

(* Steps in which request r revokes the tokens of the sessions S.          *)
LEMMA RevokeTokensInv ==
    ASSUME IInv, TypeOK', NEW r \in Request, NEW S,
           None \notin S,
           RevokeTokenRows(S), UNCHANGED sessions, OthersStay(r),
           requests'[r].step # "mint", RequestReady(r)',
           requests[r].step # "familySession",
           requests[r].step = "endTokens" => requests[r].targets \subseteq S,
           requests[r].step = "deviceTokens" =>
               SessionsOn(requests[r].device) \subseteq S,
           \A s \in Session : s \in S /\ sessions[s].device = None =>
               \/ sessions[s].revoked
               \/ /\ requests'[r].step = "familySession"
                  /\ s \in requests'[r].targets
    PROVE  IInv'
<1>. TypeOK /\ NoOrphanCredential /\ FirstTokenDiesForACause
  BY DEF IInv
<1>1. /\ KeysKept
      /\ \A t \in Token : tokens'[t].revoked =
                            (tokens[t].revoked \/ tokens[t].session \in S)
  BY RevokeTokenRowsEffect, Columns DEF KeysKept, SessionKept, TokenExists
<1>2. MintsLive
  BY DEF MintsLive, OthersStay
<1>3. (\A q \in Request : RequestReady(q))'
  BY <1>1, KeysKeptGrow, ReadyStays DEF OthersStay
<1>4. NoOrphanCredential'
  <2>. SUFFICES ASSUME NEW t \in Token, tokens'[t].session # None,
                       ~tokens'[t].revoked, tokens'[t].rotatedFrom = None,
                       sessions[tokens'[t].session].revoked
                PROVE  RevocationUnfinished(tokens[t].session)'
    BY DEF NoOrphanCredential, Redeemable, Spent, TokenExists
  <2>1. /\ tokens'[t].session = tokens[t].session
        /\ tokens[t].session \in Session
        /\ tokens[t].session \notin S
    BY <1>1, Columns DEF KeysKept, TokenKept
  <2>2. RevocationUnfinished(tokens[t].session)
    BY <1>1, <2>1 DEF NoOrphanCredential, Redeemable, Spent, TokenExists,
                      KeysKept, TokenKept
  <2>. QED  BY <2>1, <2>2 DEF RevocationUnfinished, OthersStay, SessionsOn
<1>5. FirstTokenDiesForACause'
  <2>. SUFFICES ASSUME NEW t \in Token, tokens'[t].session # None,
                       tokens'[t].rotatedFrom = None, tokens'[t].revoked,
                       sessions[tokens'[t].session].device = None,
                       ~sessions[tokens'[t].session].revoked,
                       \A c \in Token : tokens'[c].rotatedFrom # t
                PROVE  \E q \in Request :
                          /\ requests'[q].step = "familySession"
                          /\ tokens'[t].session \in requests'[q].targets
    BY DEF FirstTokenDiesForACause, TokenExists
  <2>1. /\ tokens'[t].session = tokens[t].session
        /\ tokens'[t].rotatedFrom = tokens[t].rotatedFrom
        /\ tokens[t].session \in Session
        /\ \A c \in Token : tokens[c].rotatedFrom # t
    BY <1>1, Columns DEF KeysKept, TokenKept
  <2>2. CASE tokens[t].session \in S
    BY <2>1, <2>2
  <2>3. CASE tokens[t].revoked
    <3>1. PICK q \in Request : /\ requests[q].step = "familySession"
                               /\ tokens[t].session \in requests[q].targets
      BY <2>1, <2>3 DEF FirstTokenDiesForACause, TokenExists
    <3>. QED  BY <2>1, <3>1 DEF OthersStay
  <2>. QED  BY <1>1, <2>2, <2>3
<1>. QED  BY <1>1, <1>2, <1>3, <1>4, <1>5, KeysKeptInv DEF IInv

(* Steps in which request r revokes the sessions S.                        *)
LEMMA RevokeSessionsInv ==
    ASSUME IInv, TypeOK', NEW r \in Request, NEW S,
           \A s \in Session : s \in S => SessionExists(s),
           RevokeSessionRows(S), UNCHANGED tokens, OthersStay(r),
           requests'[r].step # "mint", RequestReady(r)',
           requests[r].step \notin {"endTokens", "deviceTokens"},
           requests[r].step = "familySession" => requests[r].targets \subseteq S,
           \A s \in Session : s \in S =>
               \/ requests'[r].step = "endTokens" /\ s \in requests'[r].targets
               \/ /\ requests'[r].step = "deviceTokens"
                  /\ sessions[s].device = requests'[r].device
               \/ \A t \in TokensOf({s}) : ~Redeemable(t)
    PROVE  IInv'
<1>. TypeOK /\ NoOrphanCredential /\ FirstTokenDiesForACause
  BY DEF IInv
<1>1. /\ KeysKept
      /\ \A s \in Session : sessions'[s].revoked = (sessions[s].revoked \/ s \in S)
  BY RevokeSessionRowsEffect, Columns DEF KeysKept, TokenKept
<1>2. MintsLive
  BY DEF MintsLive, OthersStay
<1>3. (\A q \in Request : RequestReady(q))'
  BY <1>1, KeysKeptGrow, ReadyStays DEF OthersStay
<1>4. NoOrphanCredential'
  <2>. SUFFICES ASSUME NEW t \in Token, Redeemable(t),
                       sessions'[tokens[t].session].revoked
                PROVE  RevocationUnfinished(tokens[t].session)'
    BY DEF NoOrphanCredential, Redeemable, Spent, TokenExists
  <2>1. tokens[t].session \in Session
    BY Columns DEF Redeemable, TokenExists
  <2>2. CASE tokens[t].session \in S
    BY <1>1, <2>1, <2>2 DEF RevocationUnfinished, TokensOf, KeysKept, SessionKept
  <2>3. CASE tokens[t].session \notin S
    <3>1. RevocationUnfinished(tokens[t].session)
      BY <1>1, <2>1, <2>3 DEF NoOrphanCredential
    <3>. QED  BY <1>1, <2>1, <3>1 DEF RevocationUnfinished, OthersStay,
                                      KeysKept, SessionKept
  <2>. QED  BY <2>2, <2>3
<1>5. FirstTokenDiesForACause'
  <2>. SUFFICES ASSUME NEW t \in Token, TokenExists(t),
                       tokens[t].rotatedFrom = None, tokens[t].revoked,
                       sessions'[tokens[t].session].device = None,
                       ~sessions'[tokens[t].session].revoked,
                       \A c \in Token : tokens[c].rotatedFrom # t
                PROVE  \E q \in Request :
                          /\ requests'[q].step = "familySession"
                          /\ tokens[t].session \in requests'[q].targets
    BY DEF FirstTokenDiesForACause, TokenExists
  <2>1. /\ tokens[t].session \in Session
        /\ tokens[t].session \notin S
        /\ ~sessions[tokens[t].session].revoked
        /\ sessions[tokens[t].session].device = None
    BY <1>1, Columns DEF TokenExists, KeysKept, SessionKept
  <2>2. PICK q \in Request : /\ requests[q].step = "familySession"
                             /\ tokens[t].session \in requests[q].targets
    BY <2>1 DEF FirstTokenDiesForACause
  <2>. QED  BY <2>1, <2>2 DEF OthersStay
<1>. QED  BY <1>1, <1>2, <1>3, <1>4, <1>5, KeysKeptInv DEF IInv

(* Signing in inserts one session and one token.                           *)
LEMMA CreateInv ==
    ASSUME IInv, NEW r \in Request, NEW s \in Session, NEW n \in Token,
           NEW u \in User, NEW d \in Device \cup {None},
           CreateSession(r, s, n, u, d)
    PROVE  IInv'
<1>. TypeOK /\ BlankRows
  BY DEF IInv
<1>1. /\ s # None /\ n # None /\ u # None
      /\ tokens[n].session = None /\ tokens[n].rotatedFrom = None
      /\ ~tokens[n].revoked
      /\ sessions[s].user = None /\ ~sessions[s].revoked
      /\ \A t \in Token : tokens[t].session # s
  BY NoneAssumption DEF CreateSession, BlankRows, TokenExists, SessionExists
<1>2. /\ tokens' \in [Token -> TokenRow]
      /\ \A t \in Token : t # n => tokens'[t] = tokens[t]
      /\ tokens'[n].session = s
      /\ tokens'[n].rotatedFrom = None
      /\ tokens'[n].revoked = FALSE
  <2>1. /\ tokens' = [tokens EXCEPT ![n] = NewToken(s, None, r)]
        /\ tokens \in [Token -> TokenRow]
    BY DEF CreateSession, TypeOK
  <2>2. NewToken(s, None, r) \in TokenRow
    BY NewTokenRow
  <2>3. tokens'[n] = NewToken(s, None, r)
    BY <2>1
  <2>4. tokens' \in [Token -> TokenRow]
    BY <2>1, <2>2
  <2>5. \A t \in Token : t # n => tokens'[t] = tokens[t]
    BY <2>1
  <2>6. /\ NewToken(s, None, r).session = s
        /\ NewToken(s, None, r).rotatedFrom = None
        /\ NewToken(s, None, r).revoked = FALSE
    BY DEF NewToken
  <2>. QED  BY ONLY <2>3, <2>4, <2>5, <2>6
<1>3. /\ sessions' \in [Session -> SessionRow]
      /\ \A x \in Session : x # s => sessions'[x] = sessions[x]
      /\ sessions'[s].user = u
      /\ sessions'[s].revoked = FALSE
  BY DEF CreateSession, TypeOK, SessionRow, Expiry
<1>4. /\ requests' \in [Request -> RequestState]
      /\ OthersStay(r)
      /\ requests[r].step = "idle"
      /\ requests'[r].step = "issue"
      /\ requests'[r].targets = {s}
  BY GotoWithEffect DEF CreateSession, Step, At
<1>5. TypeOK'
  BY <1>2, <1>3, <1>4 DEF TypeOK, CreateSession
<1>6. /\ \A t \in Token : TokenExists(t)' <=> t = n \/ TokenExists(t)
      /\ \A x \in Session : SessionExists(x)' <=> x = s \/ SessionExists(x)
  BY <1>1, <1>2, <1>3 DEF TokenExists, SessionExists
<1>7. BlankRows'
  <2>1. \A x \in Session : sessions'[x].user = None =>
          sessions'[x].device = None /\ ~sessions'[x].revoked
    BY <1>1, <1>3 DEF BlankRows, SessionExists
  <2>2. \A t \in Token : tokens'[t].session = None =>
          tokens'[t].rotatedFrom = None /\ ~tokens'[t].revoked
    BY <1>1, <1>2 DEF BlankRows, TokenExists
  <2>3. \A t \in Token : tokens'[t].session # None =>
          sessions'[tokens'[t].session].user # None
    BY <1>1, <1>2, <1>3, Columns DEF BlankRows, TokenExists, SessionExists
  <2>. QED  BY <2>1, <2>2, <2>3 DEF BlankRows, TokenExists, SessionExists
<1>8. RowsGrow
  BY <1>1, <1>2, <1>3, <1>6 DEF RowsGrow, TokenKept, SessionKept,
                                TokenExists, SessionExists
<1>9. (\A q \in Request : RequestReady(q))'
  <2>1. RequestReady(r)'
    BY <1>4, <1>6 DEF RequestReady
  <2>. QED  BY <1>4, <1>5, <1>8, <2>1, ReadyStays DEF OthersStay
<1>10. RotationChain'
  <2>1. RotationChain
    BY DEF IInv
  <2>2. ASSUME NEW t \in Token, tokens'[t].rotatedFrom # None
        PROVE  LET c == tokens'[t].rotatedFrom IN
               /\ tokens'[c].session # None
               /\ tokens'[c].session = tokens'[t].session
               /\ tokens'[c].rotatedFrom = None
               /\ tokens'[c].revoked
    <3>1. t # n /\ tokens[t].rotatedFrom \in Token
      BY <1>2, <2>2, Columns
    <3>2. tokens[t].rotatedFrom # n
      BY <1>1, <1>2, <2>1, <2>2, <3>1 DEF RotationChain
    <3>. QED  BY <1>2, <2>1, <2>2, <3>1, <3>2 DEF RotationChain, TokenExists
  <2>. QED  BY <2>2 DEF RotationChain, TokenExists
<1>11. MintsOnce'
  <2>. SUFFICES ASSUME NEW q \in Request, NEW t \in Token,
                       requests'[q].step = "mint",
                       tokens'[t].rotatedFrom = requests'[q].token
                PROVE  tokens'[t].by # q
    BY DEF MintsOnce
  <2>1. requests'[q] = requests[q] /\ requests'[q].token # None
    BY <1>4, <1>9, NoneAssumption DEF OthersStay, RequestReady
  <2>. QED  BY <1>2, <2>1 DEF MintsOnce, IInv
<1>12. OneMintPerRequest'
  BY <1>2 DEF OneMintPerRequest, IInv
<1>13. NoOrphanCredential'
  <2>. SUFFICES ASSUME NEW t \in Token, tokens'[t].session # None,
                       ~tokens'[t].revoked, tokens'[t].rotatedFrom = None,
                       sessions'[tokens'[t].session].revoked
                PROVE  RevocationUnfinished(tokens[t].session)'
    BY DEF NoOrphanCredential, Redeemable, Spent, TokenExists
  <2>1. t # n /\ tokens'[t] = tokens[t] /\ tokens[t].session \in Session
    BY <1>2, <1>3, Columns
  <2>2. sessions'[tokens[t].session] = sessions[tokens[t].session]
    BY <1>1, <1>3, <2>1
  <2>3. RevocationUnfinished(tokens[t].session)
    BY <2>1, <2>2 DEF NoOrphanCredential, Redeemable, Spent, TokenExists, IInv
  <2>. QED  BY <1>4, <2>1, <2>2, <2>3 DEF RevocationUnfinished, OthersStay
<1>14. FirstTokenDiesForACause'
  <2>. SUFFICES ASSUME NEW t \in Token, tokens'[t].session # None,
                       tokens'[t].rotatedFrom = None, tokens'[t].revoked,
                       sessions'[tokens'[t].session].device = None,
                       ~sessions'[tokens'[t].session].revoked,
                       \A c \in Token : tokens'[c].rotatedFrom # t
                PROVE  \E q \in Request :
                          /\ requests'[q].step = "familySession"
                          /\ tokens'[t].session \in requests'[q].targets
    BY DEF FirstTokenDiesForACause, TokenExists
  <2>1. t # n /\ tokens'[t] = tokens[t] /\ tokens[t].session \in Session
    BY <1>2, Columns
  <2>2. /\ sessions'[tokens[t].session] = sessions[tokens[t].session]
        /\ \A c \in Token : tokens[c].rotatedFrom # t
    BY <1>1, <1>2, <1>3, <2>1, NoneAssumption
  <2>3. PICK q \in Request : /\ requests[q].step = "familySession"
                             /\ tokens[t].session \in requests[q].targets
    BY <2>1, <2>2 DEF FirstTokenDiesForACause, TokenExists, IInv
  <2>. QED  BY <1>4, <2>1, <2>3 DEF OthersStay
<1>. QED  BY <1>5, <1>7, <1>9, <1>10, <1>11, <1>12, <1>13, <1>14 DEF IInv

(* Steps that write neither table.                                         *)
LEMMA NoWrite ==
    ASSUME IInv, UNCHANGED <<sessions, tokens>>
    PROVE  /\ KeysKept /\ RowsGrow
           /\ \A t \in Token : tokens'[t].revoked = tokens[t].revoked
           /\ \A s \in Session : sessions'[s].revoked = sessions[s].revoked
BY DEF KeysKept, RowsGrow, TokenKept, SessionKept, TokenExists

(* Request r moves on, and the tables stay: it suffices to look at r.      *)
LEMMA MoveInv ==
    ASSUME IInv, TypeOK', UNCHANGED <<sessions, tokens>>,
           NEW r \in Request, OthersStay(r), RequestReady(r)',
           ~Indebted(r) \/ SameDebt(r),
           requests'[r].step = "mint" =>
               \/ /\ requests[r].step = "mint"
                  /\ requests'[r].token = requests[r].token
               \/ ~tokens[requests'[r].token].revoked
    PROVE  IInv'
<1>1. MintsLive
  BY DEF MintsLive, OthersStay
<1>2. (\A q \in Request : RequestReady(q))'
  BY NoWrite, ReadyStays DEF OthersStay
<1>3. \A q \in Request : Indebted(q) => SameDebt(q)
  BY DEF OthersStay, SameDebt
<1>. QED  BY <1>1, <1>2, <1>3, NoWrite, QuietInv

(* Steps of the surroundings: no request moves, and no row is revoked.     *)
LEMMA AmbientInv ==
    ASSUME IInv, TypeOK', UNCHANGED requests, KeysKept,
           \A t \in Token : tokens'[t].revoked = tokens[t].revoked,
           \A s \in Session : sessions'[s].revoked = sessions[s].revoked
    PROVE  IInv'
<1>1. MintsLive
  BY DEF MintsLive
<1>2. (\A q \in Request : RequestReady(q))'
  BY KeysKeptGrow, ReadyStays
<1>. QED  BY <1>1, <1>2, QuietInv DEF SameDebt

(* Each statement of a request in flight.                                  *)
LEMMA AdvanceInv ==
    ASSUME IInv, NEW r \in Request, Advance(r)
    PROVE  IInv'
<1>. TypeOK
  BY DEF IInv
<1>. RequestReady(r)
  BY DEF IInv
<1>1. CASE IssueAccess(r)
  <2>1. /\ requests' \in [Request -> RequestState]
        /\ OthersStay(r)
        /\ requests'[r].step = "idle"
        /\ requests'[r].targets = {}
    BY <1>1, FinishEffect DEF IssueAccess
  <2>2. TypeOK'
    BY <1>1, <2>1, Columns DEF TypeOK, IssueAccess, tables
  <2>3. RequestReady(r)'
    BY <2>1 DEF RequestReady
  <2>. QED  BY <1>1, <2>1, <2>2, <2>3, MoveInv
            DEF IssueAccess, tables, At, Indebted
<1>2. CASE \E n \in Token : CommitRotation(r, n)
  BY <1>2, MintInv
<1>3. CASE RevokeFamilyTokens(r)
  <2>. DEFINE S == requests[r].targets
  <2>1. /\ requests' \in [Request -> RequestState]
        /\ OthersStay(r)
        /\ requests'[r].step = "familySession"
        /\ requests'[r].targets = S
    BY <1>3, GotoEffect DEF RevokeFamilyTokens, Step
  <2>2. /\ tokens' \in [Token -> TokenRow]
        /\ \A t \in Token :
             /\ TokenKept(t)
             /\ tokens'[t].revoked = (tokens[t].revoked \/ tokens[t].session \in S)
    BY <1>3, RevokeTokenRowsEffect DEF RevokeFamilyTokens
  <2>3. TypeOK'
    BY <1>3, <2>1, <2>2 DEF TypeOK, RevokeFamilyTokens
  <2>4. RequestReady(r)'
    <3>1. \A t \in Token : tokens'[t].session \in S => ~Redeemable(t)'
      BY <2>2 DEF Redeemable, Spent, TokenKept
    <3>. QED  BY <1>3, <2>1, <3>1 DEF RequestReady, RevokeFamilyTokens, TokensOf,
                                      SessionExists
  <2>. HIDE DEF S
  <2>5. None \notin S
    BY Columns, NoneAssumption DEF S
  <2>. QED  BY <1>3, <2>1, <2>3, <2>4, <2>5, RevokeTokensInv
            DEF RevokeFamilyTokens, At, S
<1>4. CASE RevokeFamilySession(r)
  <2>. DEFINE S == requests[r].targets
  <2>1. /\ requests' \in [Request -> RequestState]
        /\ OthersStay(r)
        /\ requests'[r].step = "idle"
        /\ requests'[r].targets = {}
    BY <1>4, FinishEffect DEF RevokeFamilySession
  <2>2. TypeOK'
    BY <1>4, <2>1, RevokeSessionRowsEffect DEF TypeOK, RevokeFamilySession
  <2>3. RequestReady(r)'
    BY <2>1 DEF RequestReady
  <2>4. /\ \A s \in Session : s \in S => SessionExists(s)
        /\ \A s \in Session : s \in S => \A t \in TokensOf({s}) : ~Redeemable(t)
    BY <1>4 DEF RequestReady, RevokeFamilySession, At, TokensOf
  <2>. QED  BY <1>4, <2>1, <2>2, <2>3, <2>4, RevokeSessionsInv
            DEF RevokeFamilySession, At
<1>5. CASE CheckAccount(r)
  <2>. PICK next \in {"refused", "issue"} : Goto(r, next)
    BY <1>5 DEF CheckAccount
  <2>1. /\ requests' \in [Request -> RequestState]
        /\ OthersStay(r)
        /\ requests'[r].step = next
        /\ requests'[r].targets = requests[r].targets
    BY GotoEffect DEF Step
  <2>2. TypeOK'
    BY <1>5, <2>1 DEF TypeOK, CheckAccount, tables
  <2>3. RequestReady(r)'
    BY <1>5, <2>1 DEF RequestReady, CheckAccount, tables, SessionExists
  <2>. QED  BY <1>5, <2>1, <2>2, <2>3, MoveInv
            DEF CheckAccount, tables, At, Indebted
<1>6. CASE EndRefusedSession(r)
  <2>. DEFINE S == requests[r].targets
  <2>1. /\ requests' \in [Request -> RequestState]
        /\ OthersStay(r)
        /\ requests'[r].step = "endTokens"
        /\ requests'[r].targets = S
    BY <1>6, GotoEffect DEF EndRefusedSession, Step
  <2>2. /\ sessions' \in [Session -> SessionRow]
        /\ \A s \in Session : SessionKept(s) /\ (s \in S => sessions'[s].revoked)
    BY <1>6, RevokeSessionRowsEffect DEF EndRefusedSession
  <2>3. TypeOK'
    BY <1>6, <2>1, <2>2 DEF TypeOK, EndRefusedSession
  <2>4. RequestReady(r)'
    BY <2>1, <2>2, Columns DEF RequestReady, SessionExists, SessionKept
  <2>5. \A s \in Session : s \in S => SessionExists(s)
    BY DEF RequestReady
  <2>. QED  BY <1>6, <2>1, <2>3, <2>4, <2>5, RevokeSessionsInv
            DEF EndRefusedSession, At
<1>7. CASE RevokeTokensOfEnded(r)
  <2>. DEFINE S == requests[r].targets
  <2>1. /\ requests' \in [Request -> RequestState]
        /\ OthersStay(r)
        /\ requests'[r].step = "idle"
        /\ requests'[r].targets = {}
    BY <1>7, FinishEffect DEF RevokeTokensOfEnded
  <2>2. TypeOK'
    BY <1>7, <2>1, RevokeTokenRowsEffect DEF TypeOK, RevokeTokensOfEnded
  <2>3. RequestReady(r)'
    BY <2>1 DEF RequestReady
  <2>4. /\ None \notin S
        /\ \A s \in Session : s \in S => sessions[s].revoked
    BY <1>7, Columns, NoneAssumption DEF RequestReady, RevokeTokensOfEnded, At
  <2>. QED  BY <1>7, <2>1, <2>2, <2>3, <2>4, RevokeTokensInv
            DEF RevokeTokensOfEnded, At
<1>8. CASE RevokeDeviceSessions(r)
  <2>. DEFINE S == SessionsOn(requests[r].device)
  <2>1. /\ requests' \in [Request -> RequestState]
        /\ OthersStay(r)
        /\ requests'[r].step = "deviceTokens"
        /\ requests'[r].targets = requests[r].targets
        /\ requests'[r].device = requests[r].device
    BY <1>8, GotoEffect DEF RevokeDeviceSessions, Step
  <2>2. /\ sessions' \in [Session -> SessionRow]
        /\ \A s \in Session : SessionKept(s)
    BY <1>8, RevokeSessionRowsEffect DEF RevokeDeviceSessions
  <2>3. TypeOK'
    BY <1>8, <2>1, <2>2 DEF TypeOK, RevokeDeviceSessions
  <2>4. RequestReady(r)'
    BY <1>8, <2>1, <2>2, Columns DEF RequestReady, SessionExists, SessionKept,
                                    RevokeDeviceSessions, At
  <2>5. \A s \in Session : s \in S =>
          SessionExists(s) /\ sessions[s].device = requests[r].device
    <3>1. requests[r].device # None
      BY <1>8, NoneAssumption DEF RequestReady, RevokeDeviceSessions, At
    <3>. QED  BY <3>1 DEF SessionsOn, BlankRows, IInv
  <2>. HIDE DEF S
  <2>6. RevokeSessionRows(S)
    BY <1>8 DEF RevokeDeviceSessions, S
  <2>. QED  BY <1>8, <2>1, <2>3, <2>4, <2>5, <2>6, RevokeSessionsInv
            DEF RevokeDeviceSessions, At
<1>9. CASE RevokeDeviceTokens(r)
  <2>. DEFINE S == SessionsOn(requests[r].device)
  <2>1. /\ requests' \in [Request -> RequestState]
        /\ OthersStay(r)
        /\ requests'[r].step = "idle"
        /\ requests'[r].targets = {}
    BY <1>9, FinishEffect DEF RevokeDeviceTokens
  <2>2. TypeOK'
    BY <1>9, <2>1, RevokeTokenRowsEffect DEF TypeOK, RevokeDeviceTokens
  <2>3. RequestReady(r)'
    BY <2>1 DEF RequestReady
  <2>4. /\ None \notin S
        /\ \A s \in Session : s \in S => sessions[s].device # None
    BY <1>9, NoneAssumption DEF RequestReady, RevokeDeviceTokens, At, SessionsOn
  <2>. QED  BY <1>9, <2>1, <2>2, <2>3, <2>4, RevokeTokensInv
            DEF RevokeDeviceTokens, At
<1>. QED  BY <1>1, <1>2, <1>3, <1>4, <1>5, <1>6, <1>7, <1>8, <1>9 DEF Advance

(* A request's first statement.                                            *)
LEMMA PresentInv ==
    ASSUME IInv, NEW r \in Request, NEW t \in Token, PresentToken(r, t)
    PROVE  IInv'
<1>. TypeOK /\ BlankRows
  BY DEF IInv
<1>1. /\ tokens[t].session \in Session
      /\ SessionExists(tokens[t].session)
      /\ requests[r].step = "idle"
      /\ UNCHANGED <<sessions, tokens>>
  BY Columns DEF PresentToken, TokenExists, BlankRows, tables, At
<1>2. PICK next \in {"familyTokens", "mint"} :
        /\ GotoWith(r, next, t, {tokens[t].session}, None)
        /\ next = "mint" => ~Spent(t)
  BY DEF PresentToken
<1>3. /\ requests' \in [Request -> RequestState]
      /\ OthersStay(r)
      /\ requests'[r].step = next
      /\ requests'[r].token = t
      /\ requests'[r].targets = {tokens[t].session}
  <2>. DEFINE S == {tokens[t].session}
  <2>1. next \in Step /\ S \in SUBSET Session
    BY <1>1 DEF Step
  <2>2. GotoWith(r, next, t, S, None)
    BY <1>2
  <2>. HIDE DEF S
  <2>3. /\ requests' \in [Request -> RequestState]
        /\ OthersStay(r)
        /\ requests'[r].step = next
        /\ requests'[r].token = t
        /\ requests'[r].targets = S
    BY <2>1, <2>2, GotoWithEffect
  <2>. QED  BY <2>3 DEF S
<1>4. TypeOK'
  BY <1>3 DEF TypeOK, PresentToken, tables
<1>5. RequestReady(r)'
  BY <1>1, <1>2, <1>3 DEF RequestReady, Spent, PresentToken, TokenExists,
                          SessionExists
<1>. QED  BY <1>1, <1>2, <1>3, <1>4, <1>5, MoveInv DEF Indebted, Spent

(* A statement that revokes sessions, and leaves their tokens to the next  *)
(* one, preserves the invariant.                                           *)
LEMMA EndSessionsInv ==
    ASSUME IInv, NEW r \in Request, At(r, "idle"),
           NEW S \in SUBSET Session,
           \A s \in S : SessionExists(s),
           RevokeSessionRows(S),
           GotoWith(r, "endTokens", None, S, None),
           UNCHANGED <<tokens, revokedDevices, locked, access>>
    PROVE  IInv'
<1>. TypeOK
  BY DEF IInv
<1>1. /\ requests' \in [Request -> RequestState]
      /\ OthersStay(r)
      /\ requests'[r].step = "endTokens"
      /\ requests'[r].targets = S
  BY GotoWithEffect DEF Step
<1>2. /\ sessions' \in [Session -> SessionRow]
      /\ \A s \in Session : SessionKept(s) /\ (s \in S => sessions'[s].revoked)
  BY RevokeSessionRowsEffect
<1>3. TypeOK'
  BY <1>1, <1>2 DEF TypeOK
<1>4. RequestReady(r)'
  BY <1>1, <1>2 DEF RequestReady, SessionExists, SessionKept
<1>. QED  BY <1>1, <1>3, <1>4, RevokeSessionsInv DEF At

(* The first statement of revokeDevice preserves the invariant.            *)
LEMMA RevokeDeviceInv ==
    ASSUME IInv, NEW r \in Request, NEW d \in Device, NEW u \in User,
           RevokeDevice(r, d, u)
    PROVE  IInv'
<1>. TypeOK
  BY DEF IInv
<1>1. /\ requests' \in [Request -> RequestState]
      /\ OthersStay(r)
      /\ requests'[r].step = "deviceSessions"
      /\ requests'[r].targets = {}
      /\ requests'[r].device = d
  BY GotoWithEffect DEF RevokeDevice, Step
<1>2. TypeOK'
  BY <1>1 DEF TypeOK, RevokeDevice
<1>3. RequestReady(r)'
  BY <1>1 DEF RequestReady
<1>. QED  BY <1>1, <1>2, <1>3, MoveInv DEF RevokeDevice, At, Indebted

(* The first statement of any handler preserves the invariant.             *)
LEMMA BeginInv ==
    ASSUME IInv, NEW r \in Request, Begin(r)
    PROVE  IInv'
<1>. TypeOK
  BY DEF IInv
<1>1. CASE \E s \in Session, t \in Token, u \in User, d \in Device \cup {None} :
             CreateSession(r, s, t, u, d)
  BY <1>1, CreateInv
<1>2. CASE \E t \in Token : PresentToken(r, t)
  BY <1>2, PresentInv
<1>3. CASE \E s \in Session : RevokeSession(r, s)
  <2>. PICK s \in Session : RevokeSession(r, s)
    BY <1>3
  <2>. DEFINE S == {s}
  <2>1. S \in SUBSET Session /\ \A x \in S : SessionExists(x)
    BY DEF RevokeSession
  <2>. QED  BY <2>1, EndSessionsInv DEF RevokeSession
<1>4. CASE \E u \in User, keep \in Session \cup {None} :
             RevokeAllUserSessions(r, u, keep)
  <2>. PICK u \in User, keep \in Session \cup {None} :
         RevokeAllUserSessions(r, u, keep)
    BY <1>4
  <2>. DEFINE S == LiveSessionsOf(u) \ {keep}
  <2>1. S \in SUBSET Session /\ \A x \in S : SessionExists(x)
    BY NoneAssumption DEF LiveSessionsOf, SessionExists
  <2>. QED  BY <2>1, EndSessionsInv DEF RevokeAllUserSessions
<1>5. CASE \E d \in Device, u \in User : RevokeDevice(r, d, u)
  BY <1>5, RevokeDeviceInv
<1>. QED  BY <1>1, <1>2, <1>3, <1>4, <1>5 DEF Begin

(* A request that is lost, between two statements.                         *)
LEMMA DropInv ==
    ASSUME IInv, NEW r \in Request, Drop(r)
    PROVE  IInv'
<1>. TypeOK
  BY DEF IInv
<1>1. /\ requests' \in [Request -> RequestState]
      /\ OthersStay(r)
      /\ requests'[r].step = "idle"
      /\ requests'[r].targets = {}
  BY FinishEffect DEF Drop
<1>2. TypeOK'
  BY <1>1 DEF TypeOK, Drop, tables
<1>3. RequestReady(r)'
  BY <1>1 DEF RequestReady
<1>. QED  BY <1>1, <1>2, <1>3, MoveInv DEF Drop, tables, At, Indebted

(* A handler that stops half-way preserves the invariant.                  *)
LEMMA StopInv ==
    ASSUME IInv, NEW r \in Request, Stop(r)
    PROVE  IInv'
<1>. TypeOK /\ RequestReady(r)
  BY DEF IInv
<1>1. /\ requests' \in [Request -> RequestState]
      /\ OthersStay(r)
      /\ SameDebt(r)
      /\ requests[r].step # "mint"
      /\ requests'[r].token = requests[r].token
  BY DEF Stop, TypeOK, RequestState, OthersStay, SameDebt, At
<1>2. TypeOK'
  BY <1>1 DEF TypeOK, Stop, tables
<1>3. RequestReady(r)'
  BY <1>1 DEF RequestReady, SameDebt, Stop, tables, SessionExists, TokenExists,
              TokensOf, Redeemable, Spent
<1>. QED  BY <1>1, <1>2, <1>3, MoveInv DEF Stop, tables, SameDebt

(* Time and accounts.                                                      *)
LEMMA SessionExpiresInv ==
    ASSUME IInv, NEW s \in Session, SessionExpires(s)
    PROVE  IInv'
<1>. TypeOK
  BY DEF IInv
<1>1. /\ sessions' \in [Session -> SessionRow]
      /\ \A x \in Session : /\ SessionKept(x)
                            /\ sessions'[x].revoked = sessions[x].revoked
  BY DEF SessionExpires, TypeOK, SessionRow, Expiry, SessionKept
<1>2. TypeOK'
  BY <1>1 DEF TypeOK, SessionExpires
<1>. QED  BY <1>1, <1>2, AmbientInv DEF SessionExpires, KeysKept, TokenKept

(* A token whose time is up preserves the invariant.                       *)
LEMMA TokenExpiresInv ==
    ASSUME IInv, NEW t \in Token, TokenExpires(t)
    PROVE  IInv'
<1>. TypeOK
  BY DEF IInv
<1>1. /\ tokens' \in [Token -> TokenRow]
      /\ \A x \in Token : TokenKept(x) /\ tokens'[x].revoked = tokens[x].revoked
  BY DEF TokenExpires, TypeOK, TokenRow, TokenKept
<1>2. TypeOK'
  BY <1>1 DEF TypeOK, TokenExpires
<1>. QED  BY <1>1, <1>2, AmbientInv DEF TokenExpires, KeysKept, SessionKept

(* IInv is inductive.                                                      *)
LEMMA InitInv == Init => IInv
<1>. SUFFICES ASSUME Init PROVE IInv
  OBVIOUS
<1>1. TypeOK
  BY DEF Init, TypeOK, NoSession, NoToken, Idle, SessionRow, TokenRow,
         RequestState, Expiry, Step
<1>2. /\ \A s \in Session : sessions[s] = NoSession
      /\ \A t \in Token : tokens[t] = NoToken
      /\ \A r \in Request : requests[r] = Idle
  BY DEF Init
<1>3. BlankRows /\ RotationChain /\ OneMintPerRequest
  BY <1>2 DEF BlankRows, RotationChain, OneMintPerRequest, NoSession, NoToken,
              SessionExists, TokenExists
<1>4. MintsOnce /\ \A r \in Request : RequestReady(r)
  BY <1>2 DEF MintsOnce, RequestReady, Idle
<1>5. NoOrphanCredential /\ FirstTokenDiesForACause
  BY <1>2 DEF NoOrphanCredential, FirstTokenDiesForACause, NoToken, Redeemable,
              TokenExists
<1>. QED  BY <1>1, <1>3, <1>4, <1>5 DEF IInv

(* The invariant is inductive.                                             *)
LEMMA StepInv == IInv /\ [Next]_vars => IInv'
<1>. SUFFICES ASSUME IInv, [Next]_vars PROVE IInv'
  OBVIOUS
<1>. TypeOK
  BY DEF IInv
<1>1. CASE UNCHANGED vars
  <2>1. TypeOK'
    BY <1>1 DEF TypeOK, vars
  <2>. QED  BY <1>1, <2>1, NoWrite, AmbientInv DEF vars
<1>2. CASE \E r \in Request : Begin(r) \/ Advance(r) \/ Drop(r) \/ Stop(r)
  BY <1>2, BeginInv, AdvanceInv, DropInv, StopInv
<1>3. CASE \E u \in User : ChangeAccountState(u)
  <2>1. TypeOK'
    BY <1>3 DEF TypeOK, ChangeAccountState, tables
  <2>. QED  BY <1>3, <2>1, NoWrite, AmbientInv DEF ChangeAccountState, tables
<1>4. CASE \E s \in Session : SessionExpires(s)
  BY <1>4, SessionExpiresInv
<1>5. CASE \E s \in Session : AccessExpires(s)
  <2>1. TypeOK'
    BY <1>5 DEF TypeOK, AccessExpires, tables
  <2>. QED  BY <1>5, <2>1, NoWrite, AmbientInv DEF AccessExpires, tables
<1>6. CASE \E t \in Token : TokenExpires(t)
  BY <1>6, TokenExpiresInv
<1>. QED  BY <1>1, <1>2, <1>3, <1>4, <1>5, <1>6 DEF Next

(* The inductive invariant holds of every behaviour of the service.        *)
THEOREM Invariance == Spec => []IInv
BY InitInv, StepInv, PTL DEF Spec

(* Rows, account sets and request states keep their types.                 *)
THEOREM TypeCorrect == Spec => []TypeOK
<1>1. IInv => TypeOK
  BY DEF IInv
<1>. QED  BY <1>1, Invariance, PTL

(* A rotated token's parent is a dead first token of the same session.     *)
THEOREM RotationChainHolds == Spec => []RotationChain
<1>1. IInv => RotationChain
  BY DEF IInv
<1>. QED  BY <1>1, Invariance, PTL

(* No request mints two tokens from the same one.                          *)
THEOREM OneMintPerRequestHolds == Spec => []OneMintPerRequest
<1>1. IInv => OneMintPerRequest
  BY DEF IInv
<1>. QED  BY <1>1, Invariance, PTL

(* A revoked session holds a redeemable token only while the request that  *)
(* revoked it has still to run its second statement.                       *)
THEOREM NoOrphanCredentialHolds == Spec => []NoOrphanCredential
<1>1. IInv => NoOrphanCredential
  BY DEF IInv
<1>. QED  BY <1>1, Invariance, PTL

(* The first token of a session without a device dies only by rotation or  *)
(* with its session.                                                       *)
THEOREM FirstTokenDiesForACauseHolds == Spec => []FirstTokenDiesForACause
<1>1. IInv => FirstTokenDiesForACause
  BY DEF IInv
<1>. QED  BY <1>1, Invariance, PTL

-----------------------------------------------------------------------------
(* Steps.                                                                  *)

(* A session that has ended stays ended.                                   *)
LEMMA EndedStays ==
    ASSUME TypeOK, [Next]_vars, NEW s \in Session, Ended(s)
    PROVE  Ended(s)'
<1>1. CASE sessions' = sessions
  BY <1>1 DEF Ended, SessionExists
<1>2. ASSUME NEW S, RevokeSessionRows(S)
      PROVE  Ended(s)'
  BY <1>2, RevokeSessionRowsEffect DEF Ended, SessionExists, SessionKept
<1>3. ASSUME NEW r \in Request, NEW n \in Token, CommitRotation(r, n)
      PROVE  Ended(s)'
  <2>1. sessions'[s] = Touched(s) \/ sessions'[s] = sessions[s]
    BY <1>3 DEF CommitRotation
  <2>. QED  BY <2>1, TouchedSessionRow DEF Ended, SessionExists
<1>4. ASSUME NEW r \in Request, NEW x \in Session, NEW t \in Token,
             NEW u \in User, NEW d \in Device \cup {None},
             CreateSession(r, x, t, u, d)
      PROVE  Ended(s)'
  BY <1>4 DEF CreateSession, Ended, SessionExists, TypeOK
<1>5. ASSUME NEW x \in Session, SessionExpires(x)
      PROVE  Ended(s)'
  BY <1>5 DEF SessionExpires, Ended, SessionExists, TypeOK, SessionRow
<1>6. ASSUME NEW r \in Request, Begin(r)
      PROVE  Ended(s)'
  BY <1>1, <1>2, <1>4, <1>6
     DEF Begin, PresentToken, RevokeSession, RevokeAllUserSessions,
         RevokeDevice, tables
<1>7. ASSUME NEW r \in Request, Advance(r)
      PROVE  Ended(s)'
  BY <1>1, <1>2, <1>3, <1>7
     DEF Advance, IssueAccess, RevokeFamilyTokens, RevokeFamilySession,
         CheckAccount, EndRefusedSession, RevokeTokensOfEnded,
         RevokeDeviceSessions, RevokeDeviceTokens, tables
<1>. QED  BY <1>1, <1>5, <1>6, <1>7
          DEF Next, Drop, Stop, ChangeAccountState, AccessExpires, TokenExpires,
              tables, vars

(* Once a session has ended, it stays ended and admits nobody.             *)
THEOREM NoAccessAfterEndHolds == Spec => NoAccessAfterEnd
<1>1. TypeOK /\ [Next]_vars =>
        [\A s \in Session : Ended(s) => Ended(s)' /\ ~Admits(s)']_vars
  <2>. SUFFICES ASSUME TypeOK, [Next]_vars, NEW s \in Session, Ended(s)
                PROVE  Ended(s)' /\ ~Admits(s)'
    OBVIOUS
  <2>1. Ended(s)'
    BY EndedStays
  <2>. QED  BY <2>1 DEF Ended, Admits, Usable
<1>. QED  BY <1>1, TypeCorrect, PTL DEF Spec, NoAccessAfterEnd

-----------------------------------------------------------------------------
(* Refinement.                                                             *)

(* The kinds of step, as far as keys and revocations go.                   *)
QuietStep ==
    /\ KeysKept
    /\ \A t \in Token : tokens'[t].revoked = tokens[t].revoked
    /\ \A s \in Session : sessions'[s].revoked = sessions[s].revoked

TokensStep(S) == RevokeTokenRows(S) /\ UNCHANGED sessions

SessionsStep(S) ==
    /\ \A s \in S : SessionExists(s)
    /\ RevokeSessionRows(S)
    /\ UNCHANGED tokens

(* Every step is one of the kinds the refinement tells apart: one that the *)
(* life cycle does not see, an UPDATE of either table, a mint or a sign-in. *)
LEMMA StepKinds ==
    ASSUME IInv, [Next]_vars
    PROVE  \/ QuietStep
           \/ \E S \in SUBSET Session : TokensStep(S) \/ SessionsStep(S)
           \/ \E r \in Request, n \in Token : CommitRotation(r, n)
           \/ \E r \in Request, s \in Session, t \in Token, u \in User,
                 d \in Device \cup {None} : CreateSession(r, s, t, u, d)
<1>. DEFINE Goal == \/ QuietStep
                    \/ \E S \in SUBSET Session : TokensStep(S) \/ SessionsStep(S)
                    \/ \E r \in Request, n \in Token : CommitRotation(r, n)
                    \/ \E r \in Request, s \in Session, t \in Token, u \in User,
                          d \in Device \cup {None} : CreateSession(r, s, t, u, d)
<1>. TypeOK /\ BlankRows
  BY DEF IInv
<1>1. CASE UNCHANGED <<sessions, tokens>>
  BY <1>1, NoWrite DEF QuietStep
<1>2. ASSUME NEW r \in Request, Begin(r)
      PROVE  Goal
  <2>1. ASSUME NEW s \in Session, RevokeSession(r, s)
        PROVE  SessionsStep({s})
    BY <2>1 DEF RevokeSession, SessionsStep
  <2>2. ASSUME NEW u \in User, NEW keep, RevokeAllUserSessions(r, u, keep)
        PROVE  SessionsStep(LiveSessionsOf(u) \ {keep})
    BY <2>2, NoneAssumption DEF RevokeAllUserSessions, SessionsStep,
                                LiveSessionsOf, SessionExists
  <2>3. \A u : LiveSessionsOf(u) \subseteq Session
    BY DEF LiveSessionsOf
  <2>. QED  BY <1>1, <1>2, <2>1, <2>2, <2>3
            DEF Begin, PresentToken, RevokeDevice, tables
<1>3. ASSUME NEW r \in Request, Advance(r)
      PROVE  Goal
  <2>1. /\ requests[r].targets \in SUBSET Session
        /\ SessionsOn(requests[r].device) \in SUBSET Session
        /\ \A s \in requests[r].targets : SessionExists(s)
    BY Columns DEF SessionsOn, IInv, RequestReady
  <2>2. CASE RevokeFamilyTokens(r) \/ RevokeTokensOfEnded(r)
    BY <2>1, <2>2 DEF RevokeFamilyTokens, RevokeTokensOfEnded, TokensStep
  <2>3. CASE RevokeDeviceTokens(r)
    BY <2>1, <2>3 DEF RevokeDeviceTokens, TokensStep
  <2>4. CASE RevokeFamilySession(r) \/ EndRefusedSession(r)
    BY <2>1, <2>4 DEF RevokeFamilySession, EndRefusedSession, SessionsStep
  <2>5. CASE RevokeDeviceSessions(r)
    <3>1. \A s \in SessionsOn(requests[r].device) : SessionExists(s)
      <4>1. requests[r].device # None
        BY <2>5, NoneAssumption DEF IInv, RequestReady, RevokeDeviceSessions, At
      <4>. QED  BY <4>1 DEF SessionsOn, BlankRows
    <3>. QED  BY <2>1, <2>5, <3>1 DEF RevokeDeviceSessions, SessionsStep
  <2>. QED  BY <1>1, <1>3, <2>2, <2>3, <2>4, <2>5
            DEF Advance, IssueAccess, CheckAccount, tables
<1>4. ASSUME NEW s \in Session, SessionExpires(s)
      PROVE  QuietStep
  BY <1>4 DEF SessionExpires, QuietStep, KeysKept, TokenKept, SessionKept,
              TypeOK, SessionRow
<1>5. ASSUME NEW t \in Token, TokenExpires(t)
      PROVE  QuietStep
  BY <1>5 DEF TokenExpires, QuietStep, KeysKept, TokenKept, SessionKept,
              TypeOK, TokenRow
<1>. QED  BY <1>1, <1>2, <1>3, <1>4, <1>5
          DEF Next, Drop, Stop, ChangeAccountState, AccessExpires, tables, vars

(* What CommitRotation and CreateSession do to the tokens' keys.           *)
LEMMA MintKeys ==
    ASSUME IInv, NEW r \in Request, NEW n \in Token, CommitRotation(r, n)
    PROVE  LET p == requests[r].token IN
           /\ p \in Token /\ p # n /\ p # None
           /\ tokens[p].session \in Session
           /\ tokens[p].rotatedFrom = None
           /\ tokens'[n].rotatedFrom = p
           /\ tokens'[p].revoked
           /\ \A t \in Token : t # n => TokenKept(t)
           /\ \A t \in Token : t # n /\ t # p => tokens'[t] = tokens[t]
           /\ \A s \in Session : SessionKept(s) /\ sessions'[s].revoked = sessions[s].revoked
<1>. DEFINE p == requests[r].token
<1>. TypeOK
  BY DEF IInv
<1>1. /\ p \in Token /\ p # n /\ p # None
      /\ tokens[p].session \in Session
      /\ tokens[p].rotatedFrom = None
  BY NoneAssumption, Columns DEF CommitRotation, At, IInv, RequestReady, TokenExists
<1>2. /\ tokens'[n] = NewToken(tokens[p].session, p, r)
      /\ tokens'[p] = [tokens[p] EXCEPT !.revoked = TRUE]
      /\ \A t \in Token : t # n /\ t # p => tokens'[t] = tokens[t]
  BY <1>1 DEF CommitRotation, Mint
<1>3. tokens'[n].rotatedFrom = p
  BY <1>2 DEF NewToken
<1>4. TokenKept(p) /\ tokens'[p].revoked
  BY <1>1, <1>2, RevokedTokenRow DEF TokenKept, TypeOK
<1>5. \A t \in Token : t # n => TokenKept(t)
  BY <1>2, <1>4 DEF TokenKept
<1>6. \A s \in Session : SessionKept(s) /\ sessions'[s].revoked = sessions[s].revoked
  BY TouchedSessionRow DEF TypeOK, CommitRotation, SessionKept
<1>. QED  BY <1>1, <1>2, <1>3, <1>4, <1>5, <1>6

(* A session's tokens all descend from the one it was created with.        *)
THEOREM OneFirstTokenHolds == Spec => []OneFirstToken
<1>1. Init => OneFirstToken
  BY DEF Init, OneFirstToken, NoToken, TokenExists
<1>2. IInv /\ OneFirstToken /\ [Next]_vars => OneFirstToken'
  <2>. SUFFICES ASSUME IInv, OneFirstToken, [Next]_vars,
                       NEW t1 \in Token, NEW t2 \in Token,
                       tokens'[t1].session # None,
                       tokens'[t1].session = tokens'[t2].session,
                       tokens'[t1].rotatedFrom = None,
                       tokens'[t2].rotatedFrom = None
                PROVE  t1 = t2
    BY DEF OneFirstToken, TokenExists
  <2>. TypeOK
    BY DEF IInv
  <2>1. CASE TokenKept(t1) /\ TokenKept(t2)
    BY <2>1 DEF TokenKept, OneFirstToken, TokenExists
  <2>2. CASE QuietStep
    BY <2>1, <2>2 DEF QuietStep, KeysKept
  <2>3. ASSUME NEW S \in SUBSET Session, TokensStep(S) \/ SessionsStep(S)
        PROVE  t1 = t2
    BY <2>1, <2>3, RevokeTokenRowsEffect
       DEF TokensStep, SessionsStep, TokenKept
  <2>4. ASSUME NEW r \in Request, NEW n \in Token, CommitRotation(r, n)
        PROVE  t1 = t2
    BY <2>1, <2>4, MintKeys
  <2>5. ASSUME NEW r \in Request, NEW s \in Session, NEW n \in Token, NEW u \in User,
               NEW d \in Device \cup {None}, CreateSession(r, s, n, u, d)
        PROVE  t1 = t2
    <3>1. /\ \A t \in Token : t # n => tokens'[t] = tokens[t]
          /\ tokens'[n] = NewToken(s, None, r)
      BY <2>5 DEF CreateSession, TypeOK
    <3>2. \A t \in Token : tokens[t].session # s
      BY <2>5, NoneAssumption DEF CreateSession, IInv, BlankRows, TokenExists
    <3>3. (t1 # n /\ t2 # n) \/ t1 = t2
      BY <3>1, <3>2 DEF NewToken
    <3>. QED  BY <2>1, <3>1, <3>3 DEF TokenKept
  <2>. QED  BY <2>2, <2>3, <2>4, <2>5, StepKinds
<1>. QED  BY <1>1, <1>2, Invariance, PTL DEF Spec

(* When the tokens' states do not change what can be redeemed, nor the     *)
(* sessions' which exist, every session's credential is as it was.         *)
LEMMA CredentialStays ==
    ASSUME NEW s \in Session,
           SessionExists(s)' <=> SessionExists(s),
           \A t \in Token :
             /\ tokens'[t].session = tokens[t].session
             /\ tokens[t].session = s => (Redeemable(t)' <=> Redeemable(t))
    PROVE  CredentialOf(s)' = CredentialOf(s)
<1>1. (\E t \in TokensOf({s}) : Redeemable(t))' <=>
        \E t \in TokensOf({s}) : Redeemable(t)
  BY DEF TokensOf
<1>. QED  BY <1>1 DEF CredentialOf

(* Every step of the service is a step of the session life cycle, or none. *)
LEMMA QuietRefines ==
    ASSUME QuietStep
    PROVE  UNCHANGED Lifecycle!vars
<1>1. ASSUME NEW s \in Session
      PROVE  CredentialOf(s)' = CredentialOf(s)
  BY CredentialStays DEF QuietStep, KeysKept, TokenKept, SessionKept, Redeemable,
                         Spent, TokenExists, SessionExists
<1>2. {s \in Session : sessions[s].revoked}' = {s \in Session : sessions[s].revoked}
  BY DEF QuietStep
<1>. QED  BY <1>1, <1>2 DEF Lifecycle!vars

(* An UPDATE of sessions closes them in the life cycle.                    *)
LEMMA SessionsRefine ==
    ASSUME IInv, NEW S \in SUBSET Session, SessionsStep(S)
    PROVE  Lifecycle!Close(S)
<1>. TypeOK
  BY DEF IInv
<1>1. \A s \in Session : /\ SessionKept(s)
                         /\ sessions'[s].revoked = (sessions[s].revoked \/ s \in S)
  BY RevokeSessionRowsEffect DEF SessionsStep
<1>2. ASSUME NEW s \in Session
      PROVE  CredentialOf(s)' = CredentialOf(s)
  BY <1>1, CredentialStays DEF SessionsStep, SessionKept, SessionExists,
                               Redeemable, Spent, TokenExists
<1>3. {s \in Session : sessions[s].revoked}' =
        {s \in Session : sessions[s].revoked} \cup S
  BY <1>1
<1>4. \A s \in S : CredentialOf(s) # "absent"
  BY DEF CredentialOf, SessionsStep
<1>. QED  BY <1>2, <1>3, <1>4 DEF Lifecycle!Close

(* An UPDATE of refresh_tokens spends the first tokens in the life cycle.  *)
LEMMA TokensRefine ==
    ASSUME IInv, NEW S \in SUBSET Session, TokensStep(S)
    PROVE  Lifecycle!Spend({s \in S : CredentialOf(s) = "fresh"})
<1>. TypeOK
  BY DEF IInv
<1>1. \A t \in Token :
        /\ TokenKept(t)
        /\ tokens'[t].revoked = (tokens[t].revoked \/ tokens[t].session \in S)
  BY RevokeTokenRowsEffect DEF TokensStep
<1>2. ASSUME NEW s \in Session, s \notin S
      PROVE  CredentialOf(s)' = CredentialOf(s)
  BY <1>1, <1>2, CredentialStays DEF TokensStep, TokenKept, SessionExists,
                               Redeemable, Spent, TokenExists
<1>3. ASSUME NEW s \in S
      PROVE  CredentialOf(s)' = IF CredentialOf(s) = "fresh" THEN "spent"
                                ELSE CredentialOf(s)
  <2>1. (\A t \in TokensOf({s}) : ~Redeemable(t))'
    BY <1>1, <1>3 DEF TokensOf, Redeemable, Spent, TokenKept
  <2>2. SessionExists(s)' <=> SessionExists(s)
    BY DEF SessionExists, TokensStep
  <2>. QED  BY <2>1, <2>2 DEF CredentialOf
<1>4. [s \in Session |-> CredentialOf(s)]' =
        [s \in Session |->
           IF s \in {x \in S : CredentialOf(x) = "fresh"} THEN "spent"
           ELSE [y \in Session |-> CredentialOf(y)][s]]
  BY <1>2, <1>3
<1>. QED  BY <1>4 DEF Lifecycle!Spend, TokensStep

(* The commit of a rotation spends a first token, or is not seen.          *)
LEMMA MintRefines ==
    ASSUME IInv, OneFirstToken, NEW r \in Request, NEW n \in Token,
           CommitRotation(r, n)
    PROVE  Lifecycle!Next \/ UNCHANGED Lifecycle!vars
<1>. PICK p \in Token, s \in Session :
       p = requests[r].token /\ s = tokens[p].session
  BY MintKeys
<1>1. /\ tokens[p].session = s /\ p # n /\ p # None
      /\ tokens[p].rotatedFrom = None
      /\ tokens'[n].rotatedFrom = p
      /\ tokens'[p].revoked
      /\ \A t \in Token : t # n => TokenKept(t)
      /\ \A t \in Token : t # n /\ t # p => tokens'[t] = tokens[t]
      /\ \A x \in Session : /\ SessionKept(x)
                            /\ sessions'[x].revoked = sessions[x].revoked
      /\ tokens[n].session = None
  BY MintKeys DEF CommitRotation, TokenExists
<1>2. ASSUME NEW x \in Session
      PROVE  SessionExists(x)' <=> SessionExists(x)
  BY <1>1 DEF SessionExists, SessionKept
<1>3. \A t \in Token : t \notin {n, p} => (Redeemable(t)' <=> Redeemable(t))
  BY <1>1 DEF Redeemable, Spent, TokenExists
<1>4. ~Redeemable(n)' /\ ~Redeemable(p)' /\ ~Redeemable(n)
  BY <1>1 DEF Redeemable, Spent, TokenExists
<1>5. ASSUME NEW x \in Session,
             x = s => ~Redeemable(p)
      PROVE  CredentialOf(x)' = CredentialOf(x)
  <2>1. (\E t \in TokensOf({x}) : Redeemable(t))' <=>
          \E t \in TokensOf({x}) : Redeemable(t)
    BY <1>1, <1>3, <1>4, <1>5 DEF TokensOf, TokenKept
  <2>. QED  BY <1>2, <2>1 DEF CredentialOf
<1>6. {x \in Session : sessions[x].revoked}' = {x \in Session : sessions[x].revoked}
  BY <1>1
<1>7. CASE ~Redeemable(p)
  BY <1>5, <1>6, <1>7 DEF Lifecycle!vars
<1>8. CASE Redeemable(p)
  <2>1. CredentialOf(s) = "fresh"
    <3>1. SessionExists(s)
      BY <1>1, <1>8 DEF IInv, BlankRows, Redeemable
    <3>. QED  BY <1>1, <1>8, <3>1 DEF CredentialOf, TokensOf
  <2>2. CredentialOf(s)' = "spent"
    <3>1. ASSUME NEW t \in Token, tokens'[t].session = s, Redeemable(t)'
          PROVE  FALSE
      <4>1. t # n /\ t # p
        BY <1>4, <3>1
      <4>2. tokens[t].session = s /\ Redeemable(t)
        BY <1>1, <1>3, <3>1, <4>1
      <4>3. t = p
        BY <1>1, <1>8, <4>2 DEF OneFirstToken, Redeemable, Spent
      <4>. QED  BY <4>1, <4>3
    <3>2. SessionExists(s)'
      BY <1>1, <1>2, <2>1 DEF CredentialOf
    <3>. QED  BY <3>1, <3>2 DEF CredentialOf, TokensOf
  <2>3. [x \in Session |-> CredentialOf(x)]' =
          [x \in Session |-> IF x \in {s} THEN "spent"
                            ELSE [y \in Session |-> CredentialOf(y)][x]]
    BY <1>5, <2>2
  <2>4. Lifecycle!Spend({s})
    BY <1>1, <1>6, <2>1, <2>3 DEF Lifecycle!Spend
  <2>. QED  BY <1>1, <2>4 DEF Lifecycle!Next
<1>. QED  BY <1>7, <1>8

(* A sign-in opens a session of the life cycle.                            *)
LEMMA CreateRefines ==
    ASSUME IInv, NEW r \in Request, NEW s \in Session, NEW n \in Token,
           NEW u \in User, NEW d \in Device \cup {None},
           CreateSession(r, s, n, u, d)
    PROVE  Lifecycle!Open(s)
<1>. TypeOK /\ BlankRows
  BY DEF IInv
<1>1. /\ ~SessionExists(s)
      /\ tokens[n].session = None
      /\ u # None /\ s # None
      /\ \A x \in Session : x # s => sessions'[x] = sessions[x]
      /\ sessions'[s].user = u /\ sessions'[s].revoked = FALSE
      /\ \A t \in Token : t # n => tokens'[t] = tokens[t]
      /\ tokens'[n] = NewToken(s, None, r)
      /\ ~sessions[s].revoked
  BY NoneAssumption DEF CreateSession, TypeOK, TokenExists, BlankRows
<1>2. ASSUME NEW x \in Session, x # s
      PROVE  CredentialOf(x)' = CredentialOf(x)
  <2>1. (\E t \in TokensOf({x}) : Redeemable(t))' <=>
          \E t \in TokensOf({x}) : Redeemable(t)
    <3>1. tokens'[n].session # x /\ tokens[n].session # x
      BY <1>1, <1>2, NoneAssumption DEF NewToken
    <3>. QED  BY <1>1, <3>1 DEF TokensOf, Redeemable, Spent, TokenExists
  <2>. QED  BY <1>1, <1>2, <2>1 DEF CredentialOf, SessionExists
<1>3. CredentialOf(s)' = "fresh"
  <2>1. Redeemable(n)' /\ tokens'[n].session = s
    BY <1>1 DEF NewToken, Redeemable, Spent, TokenExists
  <2>2. SessionExists(s)'
    BY <1>1, NoneAssumption DEF SessionExists
  <2>. QED  BY <2>1, <2>2 DEF CredentialOf, TokensOf
<1>4. CredentialOf(s) = "absent"
  BY <1>1 DEF CredentialOf
<1>5. {x \in Session : sessions[x].revoked}' = {x \in Session : sessions[x].revoked}
  BY <1>1
<1>6. [x \in Session |-> CredentialOf(x)]' =
        [[x \in Session |-> CredentialOf(x)] EXCEPT ![s] = "fresh"]
  BY <1>2, <1>3
<1>. QED  BY <1>4, <1>5, <1>6 DEF Lifecycle!Open

(* The session service implements the session life cycle.                  *)
THEOREM LifecycleHolds == Spec => ImplementsLifecycle
<1>1. Init => Lifecycle!Init
  <2>. SUFFICES ASSUME Init PROVE Lifecycle!Init
    OBVIOUS
  <2>1. \A s \in Session : CredentialOf(s) = "absent" /\ ~sessions[s].revoked
    BY DEF Init, CredentialOf, SessionExists, NoSession
  <2>. QED  BY <2>1 DEF Lifecycle!Init
<1>2. IInv /\ OneFirstToken /\ [Next]_vars => [Lifecycle!Next]_Lifecycle!vars
  <2>. SUFFICES ASSUME IInv, OneFirstToken, [Next]_vars
                PROVE  Lifecycle!Next \/ UNCHANGED Lifecycle!vars
    OBVIOUS
  <2>1. CASE QuietStep
    BY <2>1, QuietRefines
  <2>2. ASSUME NEW S \in SUBSET Session, TokensStep(S)
        PROVE  Lifecycle!Next
    <3>. DEFINE F == {s \in S : CredentialOf(s) = "fresh"}
    <3>1. F \in SUBSET Session /\ Lifecycle!Spend(F)
      BY <2>2, TokensRefine
    <3>. QED  BY <3>1 DEF Lifecycle!Next
  <2>3. ASSUME NEW S \in SUBSET Session, SessionsStep(S)
        PROVE  Lifecycle!Next
    BY <2>3, SessionsRefine DEF Lifecycle!Next
  <2>4. ASSUME NEW r \in Request, NEW s \in Session, NEW t \in Token, NEW u \in User,
               NEW d \in Device \cup {None}, CreateSession(r, s, t, u, d)
        PROVE  Lifecycle!Next
    BY <2>4, CreateRefines DEF Lifecycle!Next
  <2>. QED  BY <2>1, <2>2, <2>3, <2>4, MintRefines, StepKinds
<1>. QED  BY <1>1, <1>2, Invariance, OneFirstTokenHolds, PTL
          DEF Spec, ImplementsLifecycle, Lifecycle!Spec
=============================================================================
