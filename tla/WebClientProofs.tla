--------------------------- MODULE WebClientProofs ---------------------------
(***************************************************************************)
(* Proofs about WebClient, as part of Federation: a page never sends a     *)
(* refresh token twice and sends the tokens of the user it shows, for any  *)
(* number of calls it has out and of sessions it opens, whatever is lost,  *)
(* expires or is loaded anew.  With the types of its calls and of the      *)
(* tokens they bring, those of all of Federation.                          *)
(***************************************************************************)
EXTENDS FederationProofs

(* All the proof needs to know of the types.                               *)
PageShape ==
    /\ calls = [c \in Call |-> calls[c]]
    /\ \A c \in Call : DOMAIN calls[c] = DOMAIN Idle
    /\ DOMAIN flight = DOMAIN NoFlight
    /\ sessions = [s \in Session |-> sessions[s]]
    /\ \A s \in Session : DOMAIN sessions[s] = {"state", "account"}
    /\ presented \in [RefreshToken -> Nat]

(* Where a refresh token may be: with the answer of a call, with that of   *)
(* the refresh in flight, or in the page's variable.                       *)
Names(grant, t) == grant # None /\ grant.bearer = t
InHand(c, t) == Names(calls[c].grant, t)
Landing(t) == Names(flight.grant, t)
Kept(t) == Names(tokens, t)
Absent(t) == ~Kept(t) /\ ~Landing(t) /\ \A c \in Call : ~InHand(c, t)

(* A token on its way has not been sent and is nowhere else; the one the   *)
(* page keeps has not been sent, or is in flight.                          *)
OnePlace(t) ==
    /\ presented[t] <= 1
    /\ \A c \in Call : InHand(c, t) =>
          /\ presented[t] = 0
          /\ ~Kept(t) /\ ~Landing(t)
          /\ \A d \in Call : InHand(d, t) => d = c
    /\ Landing(t) => presented[t] = 0 /\ ~Kept(t)
    /\ Kept(t) => presented[t] = 0 \/ (flight.step # "none" /\ flight.token = t)

(* Tokens that have not been made are nowhere.                             *)
Unmade(t) == presented[t] = 0 /\ Absent(t)

PageInv ==
    /\ PageShape
    /\ tokens # None => tokens.bearer \in RefreshToken
    /\ flight.grant # None => flight.grant.bearer \in RefreshToken
    /\ flight.step # "none" => flight.token \in RefreshToken
    /\ \A c \in Call : calls[c].grant # None => calls[c].grant.bearer \in RefreshToken
    /\ \A t \in RefreshToken : OnePlace(t)
    /\ \A s \in Session :
          /\ sessions[s].state = "none" => Unmade(<<s, 0>>)
          /\ sessions[s].state \in {"none", "fresh"} => Unmade(<<s, 1>>)

-----------------------------------------------------------------------------
(* Most steps make no token and send none: what they do not leave where it *)
(* is, they forget.                                                        *)
Forgets ==
    /\ PageShape'
    /\ tokens' \in {tokens, None}
    /\ flight'.grant \in {flight.grant, None}
    /\ \A c \in Call : calls'[c].grant \in {calls[c].grant, None}
    /\ \/ flight'.step = "none" /\ tokens' = None
       \/ /\ flight'.step # "none" <=> flight.step # "none"
          /\ flight'.token = flight.token
    /\ presented' = presented
    /\ \A s \in Session : sessions'[s].state \in {sessions[s].state, "ended", "rotated"}

LEMMA ForgetsKeeps ==
    ASSUME PageInv, Forgets PROVE PageInv'
<1>1. \A t : /\ Kept(t)' => Kept(t)
             /\ Landing(t)' => Landing(t)
             /\ \A c \in Call : InHand(c, t)' => InHand(c, t)
  BY DEF Forgets, Kept, Landing, InHand, Names
<1>2. \A t \in RefreshToken : OnePlace(t)'
  <2> SUFFICES ASSUME NEW t \in RefreshToken PROVE OnePlace(t)'
    OBVIOUS
  <2>1. OnePlace(t)
    BY DEF PageInv
  <2>2. Kept(t)' => tokens' # None
    BY DEF Kept, Names
  <2> QED BY <1>1, <2>1, <2>2 DEF OnePlace, Forgets
<1>3. \A t : Unmade(t) => Unmade(t)'
  BY <1>1 DEF Forgets, Unmade, Absent
<1> QED BY <1>2, <1>3 DEF PageInv, Forgets

(* Nobody holds the token of another session that a sign-in opens.         *)
LEMMA OpenKeeps ==
    ASSUME PageInv, NEW c \in Call, NEW s \in Session, NEW g,
           sessions[s].state = "none", g # None, g.bearer = <<s, 0>>,
           PageShape', calls'[c].grant = g,
           \A d \in Call \ {c} : calls'[d].grant = calls[d].grant,
           sessions'[s].state = "fresh",
           \A r \in Session \ {s} : sessions'[r].state = sessions[r].state,
           UNCHANGED <<tokens, flight, presented>>
    PROVE  PageInv'
<1> DEFINE new == <<s, 0>>
<1>1. new \in RefreshToken /\ <<s, 1>> # new /\ Unmade(new) /\ Unmade(<<s, 1>>)
  BY DEF RefreshToken, PageInv
<1>2. \A t : (Kept(t)' <=> Kept(t)) /\ (Landing(t)' <=> Landing(t))
  BY DEF Kept, Landing, Names
<1>3. \A t : \A d \in Call \ {c} : InHand(d, t)' <=> InHand(d, t)
  BY DEF InHand, Names
<1>4. \A t : InHand(c, t)' <=> t = new
  BY DEF InHand, Names
<1>5. \A t : t # new /\ Unmade(t) => Unmade(t)'
  BY <1>2, <1>3, <1>4 DEF Unmade, Absent
<1>6. \A t \in RefreshToken : OnePlace(t)'
  <2> SUFFICES ASSUME NEW t \in RefreshToken PROVE OnePlace(t)'
    OBVIOUS
  <2>1. OnePlace(t)
    BY DEF PageInv
  <2>2. CASE t = new
    BY <1>1, <1>2, <1>3, <2>1, <2>2 DEF OnePlace, Unmade, Absent
  <2>3. CASE t # new
    BY <1>2, <1>3, <1>4, <2>1, <2>3 DEF OnePlace
  <2> QED BY <2>2, <2>3
<1>7. ASSUME NEW r \in Session
      PROVE  /\ sessions'[r].state = "none" => Unmade(<<r, 0>>)'
             /\ sessions'[r].state \in {"none", "fresh"} => Unmade(<<r, 1>>)'
  <2>1. <<r, 1>> # new /\ (r # s => <<r, 0>> # new)
    OBVIOUS
  <2>2. CASE r = s
    BY <1>1, <1>5, <2>1, <2>2
  <2>3. CASE r # s
    BY <1>5, <2>1, <2>3 DEF PageInv
  <2> QED BY <2>2, <2>3
<1>8. \A d \in Call : calls'[d].grant # None => calls'[d].grant.bearer \in RefreshToken
  BY <1>1 DEF PageInv
<1> QED BY <1>6, <1>7, <1>8 DEF PageInv

(* The page takes over the answer of a call.                               *)
LEMMA TakeKeeps ==
    ASSUME PageInv, NEW c \in Call,
           PageShape', tokens' = calls[c].grant, calls'[c].grant = None,
           \A d \in Call \ {c} : calls'[d].grant = calls[d].grant,
           UNCHANGED <<flight, presented, sessions>>
    PROVE  PageInv'
<1>1. \A t : /\ Kept(t)' <=> InHand(c, t)
             /\ Landing(t)' <=> Landing(t)
             /\ ~InHand(c, t)'
  BY DEF Kept, Landing, InHand, Names
<1>2. \A t : \A d \in Call \ {c} : InHand(d, t)' <=> InHand(d, t)
  BY DEF InHand, Names
<1>3. \A t \in RefreshToken : OnePlace(t)'
  BY <1>1, <1>2 DEF OnePlace, PageInv
<1>4. \A t : Unmade(t) => Unmade(t)'
  BY <1>1, <1>2 DEF Unmade, Absent
<1> QED BY <1>3, <1>4 DEF PageInv

(* The page sends the token it keeps, when none is in flight.              *)
LEMMA PresentKeeps ==
    ASSUME PageInv, tokens # None, flight.step = "none", Present,
           PageShape', \A c \in Call : calls'[c].grant \in {calls[c].grant, None},
           UNCHANGED <<tokens, sessions>>
    PROVE  PageInv'
<1> DEFINE sent == tokens.bearer
<1>1. sent \in RefreshToken /\ Kept(sent) /\ presented[sent] = 0
  BY DEF PageInv, OnePlace, Kept, Names
<1>2. /\ flight'.step = "sent" /\ flight'.token = sent /\ flight'.grant = None
      /\ presented'[sent] = 1
      /\ \A t \in RefreshToken \ {sent} : presented'[t] = presented[t]
  BY <1>1 DEF Present, NoFlight, PageInv, PageShape
<1>3. \A t : /\ Kept(t)' <=> t = sent
             /\ ~Landing(t)'
             /\ \A c \in Call : InHand(c, t)' => InHand(c, t)
  BY <1>2 DEF Kept, Landing, InHand, Names
<1>4. \A t \in RefreshToken : OnePlace(t)'
  <2> SUFFICES ASSUME NEW t \in RefreshToken PROVE OnePlace(t)'
    OBVIOUS
  <2>1. OnePlace(t)
    BY DEF PageInv
  <2>2. CASE t = sent
    BY <1>1, <1>2, <1>3, <2>1, <2>2 DEF OnePlace
  <2>3. CASE t # sent
    BY <1>2, <1>3, <2>1, <2>3 DEF OnePlace
  <2> QED BY <2>2, <2>3
<1>5. \A t \in RefreshToken : Unmade(t) => Unmade(t)'
  <2> SUFFICES ASSUME NEW t \in RefreshToken, Unmade(t) PROVE Unmade(t)'
    OBVIOUS
  <2>1. t # sent
    BY <1>1 DEF Unmade, Absent
  <2> QED BY <1>2, <1>3, <2>1 DEF Unmade, Absent
<1>6. \A s \in Session : <<s, 0>> \in RefreshToken /\ <<s, 1>> \in RefreshToken
  BY DEF RefreshToken
<1>7. \A c \in Call : calls'[c].grant # None => calls'[c].grant.bearer \in RefreshToken
  BY DEF PageInv
<1> QED BY <1>1, <1>2, <1>4, <1>5, <1>6, <1>7 DEF PageInv

(* The first token of a session is exchanged for its second.               *)
LEMMA RotateKeeps ==
    ASSUME PageInv, NEW s \in Session, NEW g,
           sessions[s].state = "fresh", sessions'[s].state = "rotated",
           \A r \in Session \ {s} : sessions'[r].state = sessions[r].state,
           g # None, g.bearer = <<s, 1>>,
           flight.step # "none", flight'.step # "none",
           flight'.token = flight.token, flight'.grant = g,
           PageShape', UNCHANGED <<tokens, calls, presented>>
    PROVE  PageInv'
<1> DEFINE new == <<s, 1>>
<1>1. new \in RefreshToken /\ Unmade(new)
  BY DEF RefreshToken, PageInv
<1>2. \A t : /\ Kept(t)' <=> Kept(t)
             /\ Landing(t)' <=> t = new
             /\ \A c \in Call : InHand(c, t)' <=> InHand(c, t)
  BY DEF Kept, Landing, InHand, Names
<1>3. \A t \in RefreshToken : OnePlace(t)'
  <2> SUFFICES ASSUME NEW t \in RefreshToken PROVE OnePlace(t)'
    OBVIOUS
  <2>1. OnePlace(t)
    BY DEF PageInv
  <2>2. CASE t = new
    BY <1>1, <1>2, <2>1, <2>2 DEF OnePlace, Unmade, Absent
  <2>3. CASE t # new
    BY <1>2, <2>1, <2>3 DEF OnePlace
  <2> QED BY <2>2, <2>3
<1>4. \A t : t # new /\ Unmade(t) => Unmade(t)'
  BY <1>2 DEF Unmade, Absent
<1>5. ASSUME NEW r \in Session
      PROVE  /\ sessions'[r].state = "none" => Unmade(<<r, 0>>)'
             /\ sessions'[r].state \in {"none", "fresh"} => Unmade(<<r, 1>>)'
  <2>1. <<r, 0>> # new /\ (r # s => <<r, 1>> # new)
    OBVIOUS
  <2> QED BY <1>4, <2>1 DEF PageInv
<1> QED BY <1>1, <1>3, <1>5 DEF PageInv

(* The answer of the refresh replaces what the page kept.                  *)
LEMMA LandKeeps ==
    ASSUME PageInv, PageShape', tokens' = flight.grant, flight' = NoFlight,
           \A c \in Call : calls'[c].grant \in {calls[c].grant, None},
           UNCHANGED <<presented, sessions>>
    PROVE  PageInv'
<1>1. flight'.grant = None /\ flight'.step = "none"
  BY DEF NoFlight
<1>2. \A t : /\ Kept(t)' <=> Landing(t)
             /\ ~Landing(t)'
             /\ \A c \in Call : InHand(c, t)' => InHand(c, t)
  BY <1>1 DEF Kept, Landing, InHand, Names
<1>3. \A t \in RefreshToken : OnePlace(t)'
  BY <1>2 DEF OnePlace, PageInv
<1>4. \A t : Unmade(t) => Unmade(t)'
  BY <1>2 DEF Unmade, Absent
<1> QED BY <1>1, <1>3, <1>4 DEF PageInv

-----------------------------------------------------------------------------
(* What a step does to the row of a call and to that of a session.         *)
CallsShape(f) == f = [c \in Call |-> f[c]] /\ \A c \in Call : DOMAIN f[c] = DOMAIN Idle
SessionsShape(f) ==
    f = [s \in Session |-> f[s]] /\ \A s \in Session : DOMAIN f[s] = {"state", "account"}

LEMMA BecomesShape ==
    ASSUME CallsShape(calls), NEW c \in Call, NEW row, DOMAIN row = DOMAIN Idle, Becomes(c, row)
    PROVE  /\ CallsShape(calls')
           /\ calls'[c] = row
           /\ \A d \in Call \ {c} : calls'[d] = calls[d]
<1>1. calls' = [d \in Call |-> IF d = c THEN row ELSE calls[d]]
  BY DEF CallsShape, Becomes
<1> QED BY <1>1 DEF CallsShape

(* The rows calls are given: a fresh one, and the old one further on.      *)
LEMMA Rows ==
    /\ Idle.grant = None
    /\ \A kind, who, sent :
          LET row == [Idle EXCEPT !.kind = kind, !.account = who, !.step = "sent", !.sent = sent]
          IN  DOMAIN row = DOMAIN Idle /\ row.grant = None
    /\ \A sent :
          LET row == [Idle EXCEPT !.kind = "load", !.step = "sent", !.sent = sent, !.retried = TRUE]
          IN  DOMAIN row = DOMAIN Idle /\ row.grant = None
  BY DEF Idle

LEMMA RowMoves ==
    ASSUME NEW old, DOMAIN old = DOMAIN Idle, NEW step, NEW reply, NEW grant
    PROVE  /\ DOMAIN [old EXCEPT !.step = step] = DOMAIN Idle
           /\ [old EXCEPT !.step = step].grant = old.grant
           /\ DOMAIN [old EXCEPT !.step = step, !.reply = reply, !.grant = grant] = DOMAIN Idle
           /\ [old EXCEPT !.step = step, !.reply = reply, !.grant = grant].grant = grant
  BY DEF Idle

LEMMA EndShape ==
    ASSUME SessionsShape(sessions), NEW s, NEW st, sessions' = [sessions EXCEPT ![s].state = st]
    PROVE  /\ SessionsShape(sessions')
           /\ s \in Session => sessions'[s].state = st
           /\ \A r \in Session : r # s => sessions'[r] = sessions[r]
<1>1. sessions' = [r \in Session |-> IF r = s THEN [sessions[s] EXCEPT !.state = st] ELSE sessions[r]]
  BY DEF SessionsShape
<1>2. ASSUME s \in Session
      PROVE  /\ DOMAIN [sessions[s] EXCEPT !.state = st] = {"state", "account"}
             /\ [sessions[s] EXCEPT !.state = st].state = st
  BY <1>2 DEF SessionsShape
<1> QED BY <1>1, <1>2 DEF SessionsShape

LEMMA Shapes ==
    PageShape <=> /\ CallsShape(calls) /\ SessionsShape(sessions)
                  /\ DOMAIN flight = DOMAIN NoFlight
                  /\ presented \in [RefreshToken -> Nat]
  BY DEF PageShape, CallsShape, SessionsShape

LEMMA ShapesNext ==
    PageShape' <=> /\ CallsShape(calls') /\ SessionsShape(sessions')
                   /\ DOMAIN flight' = DOMAIN NoFlight
                   /\ presented' \in [RefreshToken -> Nat]
  BY DEF PageShape, CallsShape, SessionsShape

(* A token of a session is signed for it, and is one.                      *)
LEMMA SignedFor ==
    ASSUME KeyInv, NEW t \in RefreshToken
    PROVE  NewToken(t) # None /\ NewToken(t).bearer = t
<1>1. NewToken(t) \in AccessToken
  BY RefreshTokenAssumption DEF KeyInv, KeyTypes, NewToken, AccessToken
<1> QED BY <1>1, RefreshTokenAssumption DEF NewToken

-----------------------------------------------------------------------------
(* The steps of the page.  One call moves on, and nothing else.            *)
LEMMA CallMoves ==
    ASSUME PageInv, NEW c \in Call, NEW row, Becomes(c, row),
           DOMAIN row = DOMAIN Idle, row.grant \in {calls[c].grant, None},
           UNCHANGED <<flight, presented>>, tokens' \in {tokens, None},
           SessionsShape(sessions'),
           \A s \in Session : sessions'[s].state \in {sessions[s].state, "ended"}
    PROVE  PageInv'
<1>1. CallsShape(calls) /\ PageShape
  BY Shapes DEF PageInv
<1>2. CallsShape(calls') /\ \A d \in Call : calls'[d].grant \in {calls[d].grant, None}
  BY <1>1, BecomesShape
<1>3. PageShape'
  BY <1>1, <1>2, Shapes, ShapesNext
<1>4. Forgets
  BY <1>2, <1>3 DEF Forgets
<1> QED BY <1>4, ForgetsKeeps

LEMMA SameSessions ==
    ASSUME PageInv, sessions' = sessions
    PROVE  SessionsShape(sessions') /\ \A s \in Session : sessions'[s].state \in {sessions[s].state, "ended"}
  BY Shapes DEF PageInv

LEMMA SignInKeeps ==
    ASSUME PageInv, KeyInv, NEW c \in Call, ServeSignIn(c)
    PROVE  PageInv'
<1> DEFINE s == NewSession
           g == NewToken(<<s, 0>>)
<1>1. s \in Session /\ sessions[s].state = "none"
  BY DEF ServeSignIn, NewSession
<1>2. <<s, 0>> \in RefreshToken
  BY <1>1 DEF RefreshToken
<1>3. g # None /\ g.bearer = <<s, 0>>
  BY <1>2, SignedFor
<1>4. UNCHANGED <<tokens, flight, presented>>
  BY DEF ServeSignIn, UnchangedPage
<1>5. PICK opens \in BOOLEAN, reply \in Reply :
         /\ Answers(c, reply, IF opens THEN g ELSE None)
         /\ sessions' = IF opens THEN [sessions EXCEPT ![s] =
                                         [state |-> "fresh", account |-> calls[c].account]]
                        ELSE sessions
  BY DEF ServeSignIn, Reply
<1> DEFINE row == [calls[c] EXCEPT !.step = "answered", !.reply = reply,
                                    !.grant = IF opens THEN g ELSE None]
<1>6. DOMAIN row = DOMAIN Idle /\ row.grant = IF opens THEN g ELSE None
  BY RowMoves DEF PageInv, PageShape
<1>7. Becomes(c, row)
  BY <1>5 DEF Answers
<1> HIDE DEF s, g, row
<1>8. CASE ~opens
  BY <1>4, <1>5, <1>6, <1>7, <1>8, CallMoves, SameSessions
<1>9. CASE opens
  <2>1. CallsShape(calls) /\ SessionsShape(sessions) /\ PageShape
    BY Shapes DEF PageInv
  <2>2. /\ CallsShape(calls')
        /\ calls'[c].grant = g
        /\ \A d \in Call \ {c} : calls'[d].grant = calls[d].grant
    BY <1>6, <1>7, <1>9, <2>1, BecomesShape
  <2>3. sessions' = [r \in Session |-> IF r = s THEN [state |-> "fresh", account |-> calls[c].account]
                                       ELSE sessions[r]]
    BY <1>5, <1>9, <2>1 DEF SessionsShape
  <2>4. /\ SessionsShape(sessions')
        /\ sessions'[s].state = "fresh"
        /\ \A r \in Session \ {s} : sessions'[r].state = sessions[r].state
    BY <1>1, <2>1, <2>3 DEF SessionsShape
  <2>5. PageShape'
    BY <1>4, <2>1, <2>2, <2>4, Shapes, ShapesNext
  <2> QED BY <1>1, <1>3, <1>4, <2>2, <2>4, <2>5, OpenKeeps
<1> QED BY <1>8, <1>9

LEMMA FinishSignInKeeps ==
    ASSUME PageInv, NEW c \in Call, FinishSignIn(c)
    PROVE  PageInv'
<1>1. UNCHANGED <<flight, presented, sessions>>
  BY DEF FinishSignIn, UnchangedServer
<1>2. CASE calls[c].reply = "ok"
  <2>1. tokens' = calls[c].grant /\ Becomes(c, Idle)
    BY <1>2 DEF FinishSignIn, FormAfter, Done
  <2>2. PageShape /\ CallsShape(calls)
    BY Shapes DEF PageInv
  <2>3. /\ CallsShape(calls') /\ calls'[c].grant = None
        /\ \A d \in Call \ {c} : calls'[d].grant = calls[d].grant
    BY <2>1, <2>2, BecomesShape, Rows
  <2>4. PageShape'
    BY <1>1, <2>2, <2>3, Shapes, ShapesNext
  <2> QED BY <1>1, <2>1, <2>3, <2>4, TakeKeeps
<1>3. CASE calls[c].reply # "ok"
  <2>1. tokens' = tokens
    BY <1>3 DEF FinishSignIn
  <2>2. PICK row \in {[calls[c] EXCEPT !.step = "screen"], Idle} : Becomes(c, row)
    BY DEF FinishSignIn, FormAfter, Done
  <2>3. DOMAIN row = DOMAIN Idle /\ row.grant \in {calls[c].grant, None}
    <3>1. DOMAIN calls[c] = DOMAIN Idle
      BY DEF PageInv, PageShape
    <3>2. CASE row = [calls[c] EXCEPT !.step = "screen"]
      BY <3>1, <3>2, RowMoves
    <3>3. CASE row = Idle
      BY <3>3, Rows
    <3> QED BY <2>2, <3>2, <3>3
  <2> QED BY <1>1, <2>1, <2>2, <2>3, CallMoves, SameSessions
<1> QED BY <1>2, <1>3

LEMMA RefreshSessionKeeps ==
    ASSUME PageInv, NEW c \in Call, RefreshSession(c)
    PROVE  PageInv'
<1> DEFINE row == [calls[c] EXCEPT !.step = "waiting"]
<1>1. DOMAIN row = DOMAIN Idle /\ row.grant = calls[c].grant
  BY RowMoves DEF PageInv, PageShape
<1>2. Becomes(c, row) /\ UNCHANGED <<tokens, sessions>> /\ tokens # None
  BY DEF RefreshSession, UnchangedServer, Refreshable
<1> HIDE DEF row
<1>3. CASE flight.step # "none"
  BY <1>1, <1>2, <1>3, CallMoves, SameSessions DEF RefreshSession
<1>4. CASE flight.step = "none"
  <2>1. Present
    BY <1>4 DEF RefreshSession
  <2>2. PageShape /\ CallsShape(calls) /\ tokens.bearer \in RefreshToken
    BY <1>2, Shapes DEF PageInv
  <2>3. CallsShape(calls') /\ \A d \in Call : calls'[d].grant \in {calls[d].grant, None}
    BY <1>1, <1>2, <2>2, BecomesShape
  <2>4. DOMAIN flight' = DOMAIN NoFlight /\ presented' \in [RefreshToken -> Nat]
    BY <2>1, <2>2 DEF Present, NoFlight, PageShape
  <2>5. PageShape'
    BY <1>2, <2>2, <2>3, <2>4, Shapes, ShapesNext
  <2> QED BY <1>2, <1>4, <2>1, <2>3, <2>5, PresentKeeps
<1> QED BY <1>3, <1>4

LEMMA LogoutKeeps ==
    ASSUME PageInv, NEW c \in Call, ServeLogout(c)
    PROVE  PageInv'
<1>1. PICK reply : Answers(c, reply, None)
  BY DEF ServeLogout
<1> DEFINE row == [calls[c] EXCEPT !.step = "answered", !.reply = reply, !.grant = None]
<1>2. DOMAIN row = DOMAIN Idle /\ row.grant = None
  BY RowMoves DEF PageInv, PageShape
<1>3. Becomes(c, row) /\ UNCHANGED <<tokens, flight, presented>>
  BY <1>1 DEF ServeLogout, UnchangedPage, Answers
<1>4. \/ sessions' = sessions
      \/ \E s : sessions' = [sessions EXCEPT ![s].state = "ended"]
  BY DEF ServeLogout
<1>5. SessionsShape(sessions') /\ \A s \in Session : sessions'[s].state \in {sessions[s].state, "ended"}
  <2>1. SessionsShape(sessions)
    BY Shapes DEF PageInv
  <2> QED BY <1>4, <2>1, SameSessions, EndShape
<1> HIDE DEF row
<1> QED BY <1>2, <1>3, <1>5, CallMoves

(* The other steps of a call.                                              *)
LEMMA QuietCallKeeps ==
    ASSUME PageInv, NEW c \in Call,
           \/ SubmitLogin(c) \/ SubmitCode(c) \/ GoBack(c)
           \/ Load(c) \/ ServeLoad(c) \/ FinishLoad(c)
           \/ SubmitLogout(c) \/ FinishLogout(c) \/ CallFails(c)
    PROVE  PageInv'
<1>1. /\ UNCHANGED <<flight, presented, sessions>>
      /\ tokens' \in {tokens, None}
  BY DEF SubmitLogin, SubmitCode, GoBack, Load, ServeLoad, FinishLoad, SubmitLogout,
         FinishLogout, CallFails, UnchangedPage, UnchangedServer
<1>2. \/ \E kind, who : Send(c, kind, who)
      \/ Done(c)
      \/ \E reply : Answers(c, reply, None)
  <2>1. CASE SubmitLogin(c) \/ SubmitCode(c) \/ Load(c) \/ SubmitLogout(c)
    BY <2>1 DEF SubmitLogin, SubmitCode, Load, SubmitLogout
  <2>2. CASE GoBack(c) \/ FinishLoad(c) \/ FinishLogout(c)
    BY <2>2 DEF GoBack, FinishLoad, FinishLogout
  <2>3. CASE ServeLoad(c) \/ CallFails(c)
    BY <2>3 DEF ServeLoad, CallFails, Answers
  <2> QED BY <2>1, <2>2, <2>3
<1>3. PICK row : Becomes(c, row) /\ DOMAIN row = DOMAIN Idle /\ row.grant = None
  <2>1. ASSUME NEW kind, NEW who, Send(c, kind, who)
        PROVE  \E row : Becomes(c, row) /\ DOMAIN row = DOMAIN Idle /\ row.grant = None
    <3> DEFINE row == [Idle EXCEPT !.kind = kind, !.account = who, !.step = "sent", !.sent = tokens]
    <3>1. DOMAIN row = DOMAIN Idle /\ row.grant = None
      BY Rows
    <3>2. Becomes(c, row)
      BY <2>1 DEF Send
    <3> HIDE DEF row
    <3> QED BY <3>1, <3>2
  <2>2. ASSUME Done(c)
        PROVE  \E row : Becomes(c, row) /\ DOMAIN row = DOMAIN Idle /\ row.grant = None
    BY <2>2, Rows DEF Done
  <2>3. ASSUME NEW reply, Answers(c, reply, None)
        PROVE  \E row : Becomes(c, row) /\ DOMAIN row = DOMAIN Idle /\ row.grant = None
    <3> DEFINE row == [calls[c] EXCEPT !.step = "answered", !.reply = reply, !.grant = None]
    <3>1. DOMAIN row = DOMAIN Idle /\ row.grant = None
      BY RowMoves DEF PageInv, PageShape
    <3>2. Becomes(c, row)
      BY <2>3 DEF Answers
    <3> HIDE DEF row
    <3> QED BY <3>1, <3>2
  <2> QED BY <1>2, <2>1, <2>2, <2>3
<1> QED BY <1>1, <1>3, CallMoves, SameSessions

LEMMA LandWithKeeps ==
    ASSUME PageInv, NEW grant \in {flight.grant, None}, LandWith(grant), sessions' = sessions
    PROVE  PageInv'
<1>1. PageShape /\ CallsShape(calls)
  BY Shapes DEF PageInv
<1>2. tokens' = grant /\ flight' = NoFlight /\ presented' = presented
  BY DEF LandWith
<1>3. CallsShape(calls') /\ \A c \in Call : calls'[c].grant \in {calls[c].grant, None}
  BY <1>1, Rows DEF LandWith, CallsShape
<1>4. PageShape'
  BY <1>1, <1>2, <1>3, Shapes, ShapesNext
<1>5. CASE grant = flight.grant
  BY <1>2, <1>3, <1>4, <1>5, LandKeeps
<1>6. CASE grant = None
  BY <1>2, <1>3, <1>4, <1>6, ForgetsKeeps DEF Forgets, NoFlight
<1> QED BY <1>5, <1>6

LEMMA ServeRefreshKeeps ==
    ASSUME PageInv, KeyInv, ServeRefresh
    PROVE  PageInv'
<1> DEFINE s == flight.token[1]
           t == NewToken(<<s, 1>>)
           rotates == sessions[s].state = "fresh" /\ flight.token[2] = 0
<1>1. /\ flight' = [flight EXCEPT !.step = "answered", !.grant = IF rotates THEN t ELSE None]
      /\ sessions' = [sessions EXCEPT ![s].state = IF rotates THEN "rotated" ELSE "ended"]
      /\ UNCHANGED <<tokens, calls, presented>>
      /\ flight.step = "sent"
  BY DEF ServeRefresh
<1>2. flight.token \in RefreshToken /\ s \in Session /\ <<s, 1>> \in RefreshToken
  BY <1>1 DEF PageInv, RefreshToken
<1>3. t # None /\ t.bearer = <<s, 1>>
  BY <1>2, SignedFor
<1>4. PageShape /\ CallsShape(calls) /\ SessionsShape(sessions)
  BY Shapes DEF PageInv
<1> HIDE DEF s, t, rotates
<1>5. /\ DOMAIN flight' = DOMAIN NoFlight
      /\ flight'.step = "answered"
      /\ flight'.token = flight.token
      /\ flight'.grant = IF rotates THEN t ELSE None
  BY <1>1, <1>4 DEF PageShape, NoFlight
<1>6. /\ SessionsShape(sessions')
      /\ sessions'[s].state = IF rotates THEN "rotated" ELSE "ended"
      /\ \A r \in Session \ {s} : sessions'[r].state = sessions[r].state
  BY <1>1, <1>2, <1>4, EndShape
<1>7. PageShape'
  BY <1>1, <1>4, <1>5, <1>6, Shapes, ShapesNext
<1>8. CASE rotates
  <2>1. sessions[s].state = "fresh"
    BY <1>8 DEF rotates
  <2> QED BY <1>1, <1>2, <1>3, <1>5, <1>6, <1>7, <1>8, <2>1, RotateKeeps
<1>9. CASE ~rotates
  <2>1. Forgets
    BY <1>1, <1>5, <1>6, <1>7, <1>9 DEF Forgets
  <2> QED BY <2>1, ForgetsKeeps
<1> QED BY <1>8, <1>9

LEMMA PageKeeps ==
    ASSUME PageInv, UNCHANGED <<tokens, flight, calls, sessions, presented>>
    PROVE  PageInv'
  BY DEF PageInv, PageShape, OnePlace, Unmade, Absent, InHand, Landing, Kept

LEMMA ReloadKeeps ==
    ASSUME PageInv, Reload PROVE PageInv'
<1>1. PageShape /\ CallsShape(calls)
  BY Shapes DEF PageInv
<1>2. CallsShape(calls') /\ \A c \in Call : calls'[c].grant \in {calls[c].grant, None}
  BY <1>1, Rows DEF Reload, CallsShape
<1>3. tokens' = None /\ flight' = NoFlight /\ UNCHANGED <<presented, sessions>>
  BY DEF Reload, UnchangedServer
<1>4. PageShape'
  BY <1>1, <1>2, <1>3, Shapes, ShapesNext
<1> QED BY <1>2, <1>3, <1>4, ForgetsKeeps DEF Forgets, NoFlight

LEMMA WebKeeps ==
    ASSUME PageInv, KeyInv, WebNext \/ WebFault
    PROVE  PageInv'
<1>1. CASE Hydrate
  BY <1>1, PageKeeps DEF Hydrate, UnchangedServer
<1>2. CASE ServeRefresh
  BY <1>2, ServeRefreshKeeps
<1>3. CASE FinishRefresh \/ RefreshFails
  BY <1>3, LandWithKeeps DEF FinishRefresh, RefreshFails, UnchangedServer
<1>4. ASSUME NEW c \in Call, WebStep(c) \/ CallFails(c) PROVE PageInv'
  BY <1>4, SignInKeeps, FinishSignInKeeps, RefreshSessionKeeps, LogoutKeeps, QuietCallKeeps
     DEF WebStep
<1>5. CASE Expire
  BY <1>5, PageKeeps DEF Expire, UnchangedPage
<1>6. CASE Reload
  BY <1>6, ReloadKeeps
<1> QED BY <1>1, <1>2, <1>3, <1>4, <1>5, <1>6 DEF WebNext, WebFault

-----------------------------------------------------------------------------
LEMMA PageInitially == WebInit => PageInv
<1> SUFFICES ASSUME WebInit PROVE PageInv
  OBVIOUS
<1>1. PageShape
  BY DEF WebInit, PageShape, Idle
<1>2. tokens = None /\ flight = NoFlight /\ flight.grant = None /\ flight.step = "none"
  BY DEF WebInit, NoFlight
<1>3. \A c \in Call : calls[c].grant = None
  BY DEF WebInit, Idle
<1>4. \A t \in RefreshToken : presented[t] = 0 /\ Absent(t)
  BY <1>2, <1>3 DEF WebInit, Absent, InHand, Landing, Kept, Names
<1>5. \A s \in Session : <<s, 0>> \in RefreshToken /\ <<s, 1>> \in RefreshToken
  BY DEF RefreshToken
<1> QED BY <1>1, <1>2, <1>3, <1>4, <1>5 DEF PageInv, OnePlace, Unmade, Absent

LEMMA PageStep ==
    ASSUME KeyInv, PageInv, [Next]_vars PROVE PageInv'
<1>1. CASE Browse \/ BrowserFault
  BY <1>1, WebKeeps DEF Browse, BrowserFault
<1>2. CASE UNCHANGED webVars
  BY <1>2, PageKeeps DEF webVars
<1>3. Browse \/ BrowserFault \/ UNCHANGED webVars
  BY DEF Next, Rotate, Authorize, Grant, Provide, ProviderFault, Crash, vars
<1> QED BY <1>1, <1>2, <1>3

(* The page sends no refresh token twice (api.ts:71-95), whatever becomes  *)
(* of its calls: the one refresh that may be in flight replaces the token  *)
(* before another can start, or takes it away.                             *)
THEOREM TokenPresentedOnceHolds == Spec => []TokenPresentedOnce
<1>1. Init => KeyInv /\ PageInv
  BY KeyInitially, PageInitially DEF Init
<1>2. KeyInv /\ PageInv /\ [Next]_vars => (KeyInv /\ PageInv)'
  <2> SUFFICES ASSUME KeyInv, PageInv, [Next]_vars PROVE KeyInv' /\ PageInv'
    OBVIOUS
  <2> QED BY KeyStepKeeps, StepsOfKeys, PageStep
<1>3. PageInv => TokenPresentedOnce
  BY DEF PageInv, OnePlace, TokenPresentedOnce
<1> QED BY <1>1, <1>2, <1>3, PTL DEF Spec

-----------------------------------------------------------------------------
(* Whose session a token is for.                                           *)
Owner(t) == sessions[t.bearer[1]].account

SignsIn(row) == row.kind \in {"login", "code"} /\ row.step \notin {"idle", "over"}
SigningIn(c) == SignsIn(calls[c])

(* What a call is granted is for the account that signs in with it, what a *)
(* refresh is granted for the session whose token it took; and unless an   *)
(* answer has crossed another, the page keeps tokens of the user it shows, *)
(* and the token in flight is of their session.                            *)
UserInv ==
    /\ \A c \in Call : SigningIn(c) => calls[c].account \in Account
    /\ \A c \in Call : calls[c].grant # None =>
          SigningIn(c) /\ Owner(calls[c].grant) = calls[c].account
    /\ flight.grant # None => flight.grant.bearer[1] = flight.token[1] /\ flight.step # "none"
    /\ ~crossed /\ tokens # None => user \in Account /\ Owner(tokens) = user
    /\ ~crossed /\ flight.step # "none" => tokens # None /\ tokens.bearer[1] = flight.token[1]

-----------------------------------------------------------------------------
(* Types.                                                                  *)
SessionRow == [state : {"none", "fresh", "rotated", "ended"}, account : Account \cup {None}]
FlightRow == [step : {"none", "sent", "answered"},
              token : RefreshToken \cup {None}, grant : AccessToken \cup {None}]

LEMMA WebTypeUnfolds ==
    WebTypeOK <=> /\ tokens \in AccessToken \cup {None}
                  /\ user \in Account \cup {None}
                  /\ hydrating \in BOOLEAN /\ crossed \in BOOLEAN
                  /\ flight \in FlightRow
                  /\ calls \in [Call -> CallRow]
                  /\ sessions \in [Session -> SessionRow]
                  /\ expired \subseteq signed
                  /\ presented \in [RefreshToken -> Nat]
  BY DEF WebTypeOK, FlightRow, SessionRow

LEMMA WebTypeUnfoldsNext ==
    WebTypeOK' <=> /\ tokens' \in AccessToken \cup {None}
                   /\ user' \in Account \cup {None}
                   /\ hydrating' \in BOOLEAN /\ crossed' \in BOOLEAN
                   /\ flight' \in FlightRow
                   /\ calls' \in [Call -> CallRow]
                   /\ sessions' \in [Session -> SessionRow]
                   /\ expired' \subseteq signed'
                   /\ presented' \in [RefreshToken -> Nat]
  BY DEF WebTypeOK, FlightRow, SessionRow

LEMMA TokenTyped ==
    ASSUME KeyInv, NEW t \in RefreshToken PROVE NewToken(t) \in AccessToken
  BY RefreshTokenAssumption DEF KeyInv, KeyTypes, NewToken, AccessToken

LEMMA IdleTyped ==
    Idle \in CallRow /\ Idle.step = "idle" /\ Idle.grant = None /\ NoFlight \in FlightRow
  BY DEF Idle, CallRow, Reply, NoFlight, FlightRow

(* The rows calls are given.                                               *)
LEMMA MovedTyped ==
    ASSUME NEW old \in CallRow, NEW step \in {"screen", "waiting"}, NEW row,
           row = [old EXCEPT !.step = step]
    PROVE  /\ row \in CallRow /\ row.kind = old.kind /\ row.account = old.account
           /\ row.grant = old.grant /\ row.step = step
  BY DEF CallRow

LEMMA BecomesTyped ==
    ASSUME calls \in [Call -> CallRow], NEW c \in Call, NEW row \in CallRow, Becomes(c, row)
    PROVE  /\ calls' \in [Call -> CallRow]
           /\ calls'[c] = row
           /\ \A d \in Call \ {c} : calls'[d] = calls[d]
  BY DEF Becomes

Out(c) == calls[c].step \notin {"idle", "over"}

(* What a call of the page becomes when it moves on: its account and its   *)
(* grant stay with it, or go.                                              *)
MovesOn(c, row) ==
    /\ row \in CallRow
    /\ SignsIn(row) => row.account \in Account
    /\ row.grant # None => row.grant = calls[c].grant /\ row.kind = calls[c].kind
                           /\ row.account = calls[c].account
                           /\ row.step \notin {"idle", "over"}

LEMMA CallsMoveOn ==
    ASSUME WebTypeOK, UserInv, NEW c \in Call,
           \/ SubmitLogin(c) \/ SubmitCode(c) \/ GoBack(c)
           \/ Load(c) \/ ServeLoad(c) \/ FinishLoad(c) \/ RefreshSession(c)
           \/ SubmitLogout(c) \/ ServeLogout(c) \/ FinishLogout(c) \/ CallFails(c)
           \/ FinishSignIn(c)
    PROVE  \E row : Becomes(c, row) /\ MovesOn(c, row)
<1>1. /\ calls[c] \in CallRow /\ tokens \in AccessToken \cup {None}
      /\ SigningIn(c) => calls[c].account \in Account
  BY DEF WebTypeOK, UserInv
<1>2. ASSUME NEW kind \in Kind, NEW who \in Account \cup {None}, Send(c, kind, who),
             kind \in {"login", "code"} => who \in Account
      PROVE  \E row : Becomes(c, row) /\ MovesOn(c, row)
  <2>0. PICK row : row = [Idle EXCEPT !.kind = kind, !.account = who, !.step = "sent", !.sent = tokens]
    OBVIOUS
  <2>1. row \in CallRow /\ row.kind = kind /\ row.account = who /\ row.grant = None
    BY <1>1, <1>2, <2>0 DEF Idle, CallRow, Reply
  <2>2. Becomes(c, row)
    BY <1>2, <2>0 DEF Send
  <2> QED BY <1>2, <2>1, <2>2 DEF MovesOn, SignsIn
<1>3. ASSUME Done(c) PROVE \E row : Becomes(c, row) /\ MovesOn(c, row)
  <2>1. MovesOn(c, Idle)
    BY IdleTyped DEF MovesOn, SignsIn
  <2> QED BY <1>3, <2>1 DEF Done
<1>4. ASSUME NEW reply \in Reply, Answers(c, reply, None), Out(c)
      PROVE  \E row : Becomes(c, row) /\ MovesOn(c, row)
  <2>0. PICK row : row = [calls[c] EXCEPT !.step = "answered", !.reply = reply, !.grant = None]
    OBVIOUS
  <2>1. row \in CallRow /\ row.kind = calls[c].kind /\ row.account = calls[c].account /\ row.grant = None
    BY <1>1, <1>4, <2>0 DEF CallRow
  <2>2. Becomes(c, row)
    BY <1>4, <2>0 DEF Answers
  <2> QED BY <1>1, <1>4, <2>1, <2>2 DEF MovesOn, SigningIn, SignsIn, Out
<1>5. ASSUME NEW step \in {"screen", "waiting"}, Becomes(c, [calls[c] EXCEPT !.step = step]), Out(c)
      PROVE  \E row : Becomes(c, row) /\ MovesOn(c, row)
  <2>0. PICK row : row = [calls[c] EXCEPT !.step = step]
    OBVIOUS
  <2>1. /\ row \in CallRow /\ row.kind = calls[c].kind /\ row.account = calls[c].account
        /\ row.grant = calls[c].grant /\ row.step = step
    BY <1>1, <1>5, <2>0, MovedTyped
  <2>2. Becomes(c, row)
    BY <1>5, <2>0
  <2> QED BY <1>1, <1>5, <2>1, <2>2 DEF MovesOn, SigningIn, SignsIn, Out
<1>6. CASE SubmitLogin(c) \/ SubmitCode(c) \/ Load(c) \/ SubmitLogout(c)
  <2>1. CASE SubmitLogin(c)
    BY <1>2, <2>1 DEF SubmitLogin, Kind
  <2>2. CASE SubmitCode(c)
    <3>1. calls[c].account \in Account
      BY <1>1, <2>2 DEF SubmitCode, CallAt, SigningIn, SignsIn
    <3> QED BY <1>2, <2>2, <3>1 DEF SubmitCode, Kind
  <2>3. CASE Load(c) \/ SubmitLogout(c)
    BY <1>2, <2>3 DEF Load, SubmitLogout, Kind
  <2> QED BY <1>6, <2>1, <2>2, <2>3
<1>7. CASE GoBack(c) \/ FinishLoad(c) \/ FinishLogout(c)
  BY <1>3, <1>7 DEF GoBack, FinishLoad, FinishLogout
<1>8. CASE ServeLoad(c) \/ ServeLogout(c) \/ CallFails(c)
  <2>1. \E reply \in Reply : Answers(c, reply, None)
    <3>1. CASE ServeLoad(c)
      BY <3>1 DEF ServeLoad, Reply
    <3>2. CASE ServeLogout(c)
      BY <3>2 DEF ServeLogout, Reply
    <3>3. CASE CallFails(c)
      BY <3>3 DEF CallFails, Reply, Answers
    <3> QED BY <1>8, <3>1, <3>2, <3>3
  <2>2. Out(c)
    BY <1>8 DEF ServeLoad, ServeLogout, CallFails, CallAt, Out
  <2> QED BY <1>4, <2>1, <2>2
<1>9. CASE RefreshSession(c)
  BY <1>5, <1>9 DEF RefreshSession, CallAt, Out
<1>10. CASE FinishSignIn(c)
  <2>1. Becomes(c, [calls[c] EXCEPT !.step = "screen"]) \/ Done(c)
    BY <1>10 DEF FinishSignIn, FormAfter
  <2>2. Out(c)
    BY <1>10 DEF FinishSignIn, CallAt, Out
  <2> QED BY <1>3, <1>5, <2>1, <2>2
<1> QED BY <1>6, <1>7, <1>8, <1>9, <1>10

(* What the page's own variables become then.                              *)
LEMMA RefreshTypes ==
    ASSUME WebTypeOK, PageInv, NEW c \in Call, RefreshSession(c)
    PROVE  flight' \in FlightRow /\ presented' \in [RefreshToken -> Nat]
<1>1. /\ tokens # None /\ tokens.bearer \in RefreshToken
      /\ Present \/ UNCHANGED <<flight, presented>>
  BY DEF RefreshSession, Refreshable, PageInv
<1>2. /\ flight \in FlightRow /\ presented \in [RefreshToken -> Nat]
  BY WebTypeUnfolds
<1>3. [NoFlight EXCEPT !.step = "sent", !.token = tokens.bearer] \in FlightRow
  BY <1>1 DEF NoFlight, FlightRow
<1>4. [presented EXCEPT ![tokens.bearer] = @ + 1] \in [RefreshToken -> Nat]
  BY <1>1, <1>2
<1> QED BY <1>1, <1>2, <1>3, <1>4 DEF Present

LEMMA EndTyped ==
    ASSUME sessions \in [Session -> SessionRow], NEW s, NEW st \in {"rotated", "ended"},
           sessions' = [sessions EXCEPT ![s].state = st]
    PROVE  /\ sessions' \in [Session -> SessionRow]
           /\ \A r \in Session : sessions'[r].account = sessions[r].account
<1>1. \A r \in Session : /\ [sessions[r] EXCEPT !.state = st] \in SessionRow
                         /\ [sessions[r] EXCEPT !.state = st].account = sessions[r].account
  BY DEF SessionRow
<1>2. sessions' = [r \in Session |-> IF r = s THEN [sessions[r] EXCEPT !.state = st] ELSE sessions[r]]
  OBVIOUS
<1> QED BY <1>1, <1>2

LEMMA WebCallTypes ==
    ASSUME WebTypeOK, PageInv, UserInv, NEW c \in Call,
           \/ SubmitLogin(c) \/ SubmitCode(c) \/ GoBack(c)
           \/ Load(c) \/ ServeLoad(c) \/ FinishLoad(c) \/ RefreshSession(c)
           \/ SubmitLogout(c) \/ ServeLogout(c) \/ FinishLogout(c) \/ CallFails(c)
           \/ FinishSignIn(c)
    PROVE  WebTypeOK'
<1>1. calls' \in [Call -> CallRow]
  BY CallsMoveOn, BecomesTyped, WebTypeUnfolds DEF MovesOn
<1>2. /\ tokens' \in AccessToken \cup {None} /\ user' \in Account \cup {None}
      /\ hydrating' \in BOOLEAN /\ crossed' \in BOOLEAN
      /\ expired' \subseteq signed'
  <2>1. calls[c].grant \in AccessToken \cup {None} /\ calls[c].account \in Account \cup {None}
    BY WebTypeUnfolds DEF CallRow
  <2>2. CASE FinishSignIn(c)
    BY <2>1, <2>2, WebTypeUnfolds DEF FinishSignIn, UnchangedServer, keyVars
  <2>3. CASE FinishLogout(c)
    BY <2>3, WebTypeUnfolds DEF FinishLogout, UnchangedServer, keyVars
  <2>4. CASE RefreshSession(c)
    BY <2>4, WebTypeUnfolds DEF RefreshSession, UnchangedServer, keyVars
  <2>5. CASE ~FinishSignIn(c) /\ ~FinishLogout(c) /\ ~RefreshSession(c)
    BY <2>5, WebTypeUnfolds DEF SubmitLogin, SubmitCode, GoBack, Load, ServeLoad, FinishLoad,
       SubmitLogout, ServeLogout, CallFails, UnchangedPage, UnchangedServer, keyVars
  <2> QED BY <2>2, <2>3, <2>4, <2>5
<1>3. flight' \in FlightRow /\ presented' \in [RefreshToken -> Nat]
  <2>1. CASE RefreshSession(c)
    BY <2>1, RefreshTypes
  <2>2. CASE ~RefreshSession(c)
    <3>1. UNCHANGED <<flight, presented>>
      BY <2>2 DEF SubmitLogin, SubmitCode, GoBack, Load, ServeLoad, FinishLoad, FinishSignIn,
         SubmitLogout, ServeLogout, FinishLogout, CallFails, UnchangedPage
    <3> QED BY <3>1, WebTypeUnfolds
  <2> QED BY <2>1, <2>2
<1>4. sessions' \in [Session -> SessionRow]
  <2>1. CASE ServeLogout(c)
    <3>1. \/ sessions' = sessions
          \/ \E s : sessions' = [sessions EXCEPT ![s].state = "ended"]
      BY <2>1 DEF ServeLogout
    <3> QED BY <3>1, EndTyped, WebTypeUnfolds
  <2>2. CASE ~ServeLogout(c)
    <3>1. sessions' = sessions
      BY <2>2 DEF SubmitLogin, SubmitCode, GoBack, Load, ServeLoad, FinishLoad, RefreshSession,
         SubmitLogout, FinishLogout, CallFails, FinishSignIn, UnchangedServer
    <3> QED BY <3>1, WebTypeUnfolds
  <2> QED BY <2>1, <2>2
<1> QED BY <1>1, <1>2, <1>3, <1>4, WebTypeUnfoldsNext

LEMMA SignInAnswers ==
    ASSUME WebTypeOK, KeyInv, NEW c \in Call, ServeSignIn(c)
    PROVE  \E opens \in BOOLEAN, s \in Session, g \in AccessToken, row \in CallRow :
              /\ sessions[s].state = "none" /\ g.bearer = <<s, 0>>
              /\ Becomes(c, row)
              /\ row.kind = calls[c].kind /\ row.account = calls[c].account
              /\ row.step = "answered"
              /\ row.grant = IF opens THEN g ELSE None
              /\ sessions' = IF opens
                             THEN [sessions EXCEPT ![s] = [state |-> "fresh", account |-> calls[c].account]]
                             ELSE sessions
              /\ IF opens THEN Sign(g) ELSE UNCHANGED keyVars
<1> DEFINE s == NewSession
           g == NewToken(<<s, 0>>)
<1>1. s \in Session /\ sessions[s].state = "none"
  BY DEF ServeSignIn, NewSession
<1>2. <<s, 0>> \in RefreshToken
  BY <1>1 DEF RefreshToken
<1>3. g \in AccessToken /\ g.bearer = <<s, 0>>
  BY <1>2, SignedFor, TokenTyped
<1>4. PICK opens \in BOOLEAN, reply \in Reply :
         /\ Answers(c, reply, IF opens THEN g ELSE None)
         /\ sessions' = IF opens THEN [sessions EXCEPT ![s] =
                                         [state |-> "fresh", account |-> calls[c].account]]
                        ELSE sessions
         /\ IF opens THEN Sign(g) ELSE UNCHANGED keyVars
  BY DEF ServeSignIn, Reply
<1> HIDE DEF s, g
<1>5. PICK grant \in AccessToken \cup {None} : grant = IF opens THEN g ELSE None
  BY <1>3
<1>6. PICK row : row = [calls[c] EXCEPT !.step = "answered", !.reply = reply, !.grant = grant]
  OBVIOUS
<1>7. calls[c] \in CallRow
  BY DEF WebTypeOK
<1>8. /\ row \in CallRow /\ row.kind = calls[c].kind /\ row.account = calls[c].account
      /\ row.grant = grant /\ row.step = "answered"
  BY <1>4, <1>6, <1>7 DEF CallRow
<1>9. Becomes(c, row)
  BY <1>4, <1>5, <1>6 DEF Answers
<1> QED BY <1>1, <1>3, <1>4, <1>5, <1>8, <1>9

LEMMA SignInTypes ==
    ASSUME WebTypeOK, KeyInv, UserInv, NEW c \in Call, ServeSignIn(c) PROVE WebTypeOK'
<1>1. PICK opens \in BOOLEAN, s \in Session, g \in AccessToken, row \in CallRow :
              /\ Becomes(c, row)
              /\ sessions' = IF opens
                             THEN [sessions EXCEPT ![s] = [state |-> "fresh", account |-> calls[c].account]]
                             ELSE sessions
              /\ IF opens THEN Sign(g) ELSE UNCHANGED keyVars
  BY SignInAnswers
<1>2. calls' \in [Call -> CallRow]
  BY <1>1, BecomesTyped, WebTypeUnfolds
<1>3. sessions' \in [Session -> SessionRow]
  <2>1. calls[c].account \in Account \cup {None}
    BY WebTypeUnfolds DEF CallRow
  <2>2. [state |-> "fresh", account |-> calls[c].account] \in SessionRow
    BY <2>1 DEF SessionRow
  <2> QED BY <1>1, <2>2, WebTypeUnfolds
<1>4. UNCHANGED <<tokens, user, hydrating, flight, presented, crossed, expired>>
  BY DEF ServeSignIn, UnchangedPage
<1>5. signed \subseteq signed'
  BY <1>1 DEF Sign, keyVars
<1> QED BY <1>2, <1>3, <1>4, <1>5, WebTypeUnfolds, WebTypeUnfoldsNext

LEMMA RefreshAnswers ==
    ASSUME WebTypeOK, PageInv, KeyInv, ServeRefresh
    PROVE  /\ \E grant \in AccessToken \cup {None} :
                 /\ flight' = [flight EXCEPT !.step = "answered", !.grant = grant]
                 /\ grant # None => grant.bearer[1] = flight.token[1]
           /\ sessions' \in [Session -> SessionRow]
           /\ \A s \in Session : sessions'[s].account = sessions[s].account
           /\ signed \subseteq signed' /\ signed' \subseteq signed \cup AccessToken
           /\ flight.step # "none"
<1> DEFINE s == flight.token[1]
           t == NewToken(<<s, 1>>)
           rotates == sessions[s].state = "fresh" /\ flight.token[2] = 0
           grant == IF rotates THEN t ELSE None
           st == IF rotates THEN "rotated" ELSE "ended"
<1>1. flight.step = "sent" /\ flight.token \in RefreshToken
  BY DEF ServeRefresh, PageInv
<1>2. <<s, 1>> \in RefreshToken
  BY <1>1 DEF RefreshToken
<1>3. t \in AccessToken /\ t.bearer = <<s, 1>>
  BY <1>2, SignedFor, TokenTyped
<1>4. /\ flight' = [flight EXCEPT !.step = "answered", !.grant = grant]
      /\ sessions' = [sessions EXCEPT ![s].state = st]
      /\ signed' = signed \/ signed' = signed \cup {t}
  BY DEF ServeRefresh, Sign, keyVars
<1>5. grant \in AccessToken \cup {None} /\ (grant # None => grant.bearer[1] = flight.token[1])
  BY <1>3
<1>6. st \in {"rotated", "ended"}
  OBVIOUS
<1>7. signed \subseteq signed' /\ signed' \subseteq signed \cup AccessToken
  BY <1>3, <1>4
<1> HIDE DEF st, grant, rotates, t
<1> QED BY <1>1, <1>4, <1>5, <1>6, <1>7, EndTyped, WebTypeUnfolds

LEMMA RefreshStepTypes ==
    ASSUME WebTypeOK, PageInv, KeyInv, ServeRefresh PROVE WebTypeOK'
<1>1. PICK grant \in AccessToken \cup {None} :
         flight' = [flight EXCEPT !.step = "answered", !.grant = grant]
  BY RefreshAnswers
<1>2. flight' \in FlightRow
  BY <1>1, WebTypeUnfolds DEF FlightRow
<1>3. sessions' \in [Session -> SessionRow] /\ signed \subseteq signed'
  BY RefreshAnswers
<1>4. UNCHANGED <<tokens, user, hydrating, calls, expired, presented, crossed>>
  BY DEF ServeRefresh
<1> QED BY <1>2, <1>3, <1>4, WebTypeUnfolds, WebTypeUnfoldsNext

LEMMA LandCalls ==
    ASSUME WebTypeOK, NEW grant \in AccessToken \cup {None}, LandWith(grant)
    PROVE  /\ calls' \in [Call -> CallRow]
           /\ \A c \in Call : \/ calls'[c] = calls[c]
                              \/ calls'[c].grant = None /\ ~SignsIn(calls'[c])
<1>1. ASSUME NEW c \in Call
      PROVE  /\ calls'[c] \in CallRow
             /\ \/ calls'[c] = calls[c]
                \/ calls'[c].grant = None /\ ~SignsIn(calls'[c])
  <2>1. CASE ~Waiting(c)
    BY <2>1, WebTypeUnfolds DEF LandWith
  <2>2. CASE Waiting(c) /\ grant = None
    BY <2>2, IdleTyped DEF LandWith, SignsIn
  <2>3. CASE Waiting(c) /\ grant # None
    <3>1. grant \in AccessToken
      BY <2>3
    <3>2. calls'[c] = [Idle EXCEPT !.kind = "load", !.step = "sent", !.sent = grant, !.retried = TRUE]
      BY <2>3 DEF LandWith
    <3>3. calls'[c] \in CallRow /\ calls'[c].kind = "load" /\ calls'[c].grant = None
      BY <3>1, <3>2 DEF Idle, CallRow, Reply, Kind
    <3> QED BY <3>3 DEF SignsIn
  <2> QED BY <2>1, <2>2, <2>3
<1>2. calls' = [c \in Call |-> calls'[c]]
  BY DEF LandWith
<1> QED BY <1>1, <1>2

LEMMA QuietTypes ==
    ASSUME WebTypeOK,
           \/ Hydrate
           \/ Expire
           \/ Reload
           \/ FinishRefresh \/ RefreshFails
           \/ UNCHANGED webVars /\ signed \subseteq signed'
    PROVE  WebTypeOK'
<1>1. CASE Hydrate
  BY <1>1, WebTypeUnfolds, WebTypeUnfoldsNext DEF Hydrate, UnchangedServer, keyVars
<1>2. CASE Expire
  <2>1. expired' \subseteq signed
    BY <1>2, WebTypeUnfolds DEF Expire
  <2> QED BY <1>2, <2>1, WebTypeUnfolds, WebTypeUnfoldsNext DEF Expire, UnchangedPage, keyVars
<1>3. CASE Reload
  <2>1. calls' \in [Call -> CallRow]
    BY <1>3, IdleTyped, WebTypeUnfolds DEF Reload
  <2> QED BY <1>3, <2>1, IdleTyped, WebTypeUnfolds, WebTypeUnfoldsNext DEF Reload, UnchangedServer, keyVars
<1>4. CASE FinishRefresh \/ RefreshFails
  <2>1. flight.grant \in AccessToken \cup {None}
    BY WebTypeUnfolds DEF FlightRow
  <2>2. PICK grant \in AccessToken \cup {None} : LandWith(grant)
    BY <1>4, <2>1 DEF FinishRefresh, RefreshFails
  <2>3. UNCHANGED <<sessions, expired, signed>>
    BY <1>4 DEF FinishRefresh, RefreshFails, UnchangedServer, keyVars
  <2>4. calls' \in [Call -> CallRow]
    BY <2>2, LandCalls
  <2> QED BY <2>2, <2>3, <2>4, IdleTyped, WebTypeUnfolds, WebTypeUnfoldsNext DEF LandWith
<1>5. CASE UNCHANGED webVars /\ signed \subseteq signed'
  BY <1>5, WebTypeUnfolds, WebTypeUnfoldsNext DEF webVars
<1> QED BY <1>1, <1>2, <1>3, <1>4, <1>5

LEMMA WebTypesStep ==
    ASSUME WebTypeOK, PageInv, KeyInv, UserInv, [Next]_vars PROVE WebTypeOK'
<1>1. CASE Browse \/ BrowserFault
  <2>1. WebNext \/ WebFault
    BY <1>1 DEF Browse, BrowserFault
  <2> QED BY <2>1, QuietTypes, WebCallTypes, SignInTypes, RefreshStepTypes DEF WebNext, WebFault, WebStep
<1>2. CASE UNCHANGED webVars
  <2>1. [KeyStep]_keyVars
    BY StepsOfKeys
  <2>2. signed \subseteq signed'
    BY <2>1 DEF KeyStep, BeginRotation, EndRotation, Sign, Restart, keyVars
  <2> QED BY <1>2, <2>2, QuietTypes
<1>3. Browse \/ BrowserFault \/ UNCHANGED webVars
  BY DEF Next, Rotate, Authorize, Grant, Provide, ProviderFault, Crash, vars
<1> QED BY <1>1, <1>2, <1>3

-----------------------------------------------------------------------------
(* Whose tokens they are.  Sessions stay whose they are.                   *)
SameOwners == \A s \in Session : sessions'[s].account = sessions[s].account

LEMMA OwnersStay ==
    ASSUME PageInv, SameOwners
    PROVE  /\ tokens # None => sessions'[tokens.bearer[1]].account = Owner(tokens)
           /\ flight.grant # None => sessions'[flight.grant.bearer[1]].account = Owner(flight.grant)
           /\ \A c \in Call : calls[c].grant # None =>
                 sessions'[calls[c].grant.bearer[1]].account = Owner(calls[c].grant)
  BY DEF PageInv, RefreshToken, SameOwners, Owner

(* The page's variables stay as they are, or its tokens go while no        *)
(* refresh is in flight, or what happens crosses something.                *)
PageStays ==
    \/ crossed'
    \/ UNCHANGED <<tokens, user, crossed>>
    \/ tokens' = None /\ flight.step = "none"

LEMMA UserMoves ==
    ASSUME WebTypeOK, PageInv, UserInv, SameOwners, PageStays, UNCHANGED flight,
           NEW c \in Call, NEW row, Becomes(c, row), MovesOn(c, row)
    PROVE  UserInv'
<1>1. /\ calls'[c] = row /\ \A d \in Call \ {c} : calls'[d] = calls[d]
  BY BecomesTyped, WebTypeUnfolds DEF MovesOn
<1>2. ASSUME NEW d \in Call
      PROVE  /\ SigningIn(d)' => calls'[d].account \in Account
             /\ calls'[d].grant # None =>
                   SigningIn(d)' /\ sessions'[calls'[d].grant.bearer[1]].account = calls'[d].account
  <2>1. CASE d # c
    BY <1>1, <2>1, OwnersStay DEF UserInv, SigningIn
  <2>2. CASE d = c
    BY <1>1, <2>2, OwnersStay DEF UserInv, SigningIn, SignsIn, MovesOn
  <2> QED BY <2>1, <2>2
<1>3. /\ flight'.grant # None => flight'.grant.bearer[1] = flight'.token[1] /\ flight'.step # "none"
      /\ ~crossed' /\ tokens' # None => user' \in Account /\ sessions'[tokens'.bearer[1]].account = user'
      /\ ~crossed' /\ flight'.step # "none" => tokens' # None /\ tokens'.bearer[1] = flight'.token[1]
  BY OwnersStay DEF UserInv, PageStays
<1> QED BY <1>2, <1>3 DEF UserInv, Owner

LEMMA UserCallKeeps ==
    ASSUME WebTypeOK, PageInv, UserInv, NEW c \in Call,
           \/ SubmitLogin(c) \/ SubmitCode(c) \/ GoBack(c)
           \/ Load(c) \/ ServeLoad(c) \/ FinishLoad(c)
           \/ SubmitLogout(c) \/ ServeLogout(c) \/ FinishLogout(c) \/ CallFails(c)
    PROVE  UserInv'
<1>1. PICK row : Becomes(c, row) /\ MovesOn(c, row)
  BY CallsMoveOn
<1>2. PageStays /\ UNCHANGED flight
  <2>1. CASE FinishLogout(c)
    BY <2>1, WebTypeUnfolds DEF FinishLogout, PageStays
  <2>2. CASE ~FinishLogout(c)
    BY <2>2 DEF SubmitLogin, SubmitCode, GoBack, Load, ServeLoad, FinishLoad, SubmitLogout,
       ServeLogout, CallFails, UnchangedPage, PageStays
  <2> QED BY <2>1, <2>2
<1>3. SameOwners
  <2>1. CASE ServeLogout(c)
    <3>1. \/ sessions' = sessions
          \/ \E s : sessions' = [sessions EXCEPT ![s].state = "ended"]
      BY <2>1 DEF ServeLogout
    <3> QED BY <3>1, EndTyped, WebTypeUnfolds DEF SameOwners
  <2>2. CASE ~ServeLogout(c)
    BY <2>2 DEF SubmitLogin, SubmitCode, GoBack, Load, ServeLoad, FinishLoad, SubmitLogout,
       FinishLogout, CallFails, UnchangedServer, SameOwners
  <2> QED BY <2>1, <2>2
<1> QED BY <1>1, <1>2, <1>3, UserMoves

(* The page sends the token it keeps.                                      *)
LEMMA UserRefreshKeeps ==
    ASSUME WebTypeOK, PageInv, UserInv, NEW c \in Call, RefreshSession(c) PROVE UserInv'
<1>1. PICK row : Becomes(c, row) /\ MovesOn(c, row)
  BY CallsMoveOn
<1>2. UNCHANGED <<tokens, user, crossed, sessions>> /\ tokens # None
  BY DEF RefreshSession, UnchangedServer, Refreshable
<1>3. CASE UNCHANGED flight
  BY <1>1, <1>2, <1>3, UserMoves DEF SameOwners, PageStays
<1>4. CASE flight.step = "none" /\ Present
  <2>1. flight'.step = "sent" /\ flight'.grant = None /\ flight'.token = tokens.bearer
    BY <1>4 DEF Present, NoFlight
  <2>2. calls'[c] = row /\ \A d \in Call \ {c} : calls'[d] = calls[d]
    BY <1>1, BecomesTyped, WebTypeUnfolds DEF MovesOn
  <2>3. ASSUME NEW d \in Call
        PROVE  /\ SigningIn(d)' => calls'[d].account \in Account
               /\ calls'[d].grant # None =>
                     SigningIn(d)' /\ sessions'[calls'[d].grant.bearer[1]].account = calls'[d].account
    <3>1. CASE d # c
      BY <1>2, <2>2, <3>1 DEF UserInv, SigningIn, Owner
    <3>2. CASE d = c
      BY <1>1, <1>2, <2>2, <3>2 DEF UserInv, SigningIn, MovesOn, SignsIn, Owner
    <3> QED BY <3>1, <3>2
  <2> QED BY <1>2, <2>1, <2>3 DEF UserInv, Owner
<1> QED BY <1>3, <1>4 DEF RefreshSession

(* A session nobody holds a token of is opened.                            *)
LEMMA UserSignInKeeps ==
    ASSUME WebTypeOK, PageInv, KeyInv, UserInv, NEW c \in Call, ServeSignIn(c) PROVE UserInv'
<1>1. PICK opens \in BOOLEAN, s \in Session, g \in AccessToken, row \in CallRow :
              /\ sessions[s].state = "none" /\ g.bearer = <<s, 0>>
              /\ Becomes(c, row)
              /\ row.kind = calls[c].kind /\ row.account = calls[c].account
              /\ row.step = "answered"
              /\ row.grant = IF opens THEN g ELSE None
              /\ sessions' = IF opens
                             THEN [sessions EXCEPT ![s] = [state |-> "fresh", account |-> calls[c].account]]
                             ELSE sessions
  BY SignInAnswers
<1>2. /\ calls'[c] = row /\ \A d \in Call \ {c} : calls'[d] = calls[d]
  BY <1>1, BecomesTyped, WebTypeUnfolds
<1>3. UNCHANGED <<tokens, user, flight, crossed>>
  BY DEF ServeSignIn, UnchangedPage
<1>4. SigningIn(c) /\ SignsIn(row) /\ row.account \in Account
  BY <1>1 DEF ServeSignIn, CallAt, SigningIn, SignsIn, UserInv
<1>5. ASSUME NEW r \in Session, r # s \/ ~opens
      PROVE  sessions'[r].account = sessions[r].account
  BY <1>1, <1>5, WebTypeUnfolds
<1>6. Unmade(<<s, 0>>) /\ Unmade(<<s, 1>>)
  BY <1>1 DEF PageInv
<1>7. \A t \in RefreshToken : t[1] \in Session /\ (t[1] = s => t = <<s, 0>> \/ t = <<s, 1>>)
  BY DEF RefreshToken
<1>8. /\ tokens # None => tokens.bearer[1] \in Session \ {s}
      /\ \A d \in Call : calls[d].grant # None => calls[d].grant.bearer[1] \in Session \ {s}
  BY <1>6, <1>7 DEF PageInv, Unmade, Absent, Kept, InHand, Names
<1>9. ASSUME NEW d \in Call
      PROVE  /\ SigningIn(d)' => calls'[d].account \in Account
             /\ calls'[d].grant # None =>
                   SigningIn(d)' /\ sessions'[calls'[d].grant.bearer[1]].account = calls'[d].account
  <2>1. CASE d # c
    BY <1>2, <1>5, <1>8, <2>1 DEF UserInv, SigningIn, Owner
  <2>2. CASE d = c /\ opens
    <3>1. calls'[d] = row /\ row.grant = g /\ g.bearer[1] = s
      BY <1>1, <1>2, <2>2
    <3>2. sessions'[s].account = row.account
      BY <1>1, <2>2, WebTypeUnfolds
    <3> QED BY <1>4, <3>1, <3>2 DEF SigningIn
  <2>3. CASE d = c /\ ~opens
    BY <1>1, <1>2, <1>4, <2>3 DEF SigningIn
  <2> QED BY <2>1, <2>2, <2>3
<1>10. tokens # None => sessions'[tokens.bearer[1]].account = Owner(tokens)
  BY <1>5, <1>8 DEF Owner
<1> QED BY <1>3, <1>9, <1>10 DEF UserInv, Owner

LEMMA UserFinishKeeps ==
    ASSUME WebTypeOK, PageInv, UserInv, NEW c \in Call, FinishSignIn(c) PROVE UserInv'
<1>1. PICK row : Becomes(c, row) /\ MovesOn(c, row)
  BY CallsMoveOn
<1>2. UNCHANGED <<flight, sessions>>
  BY DEF FinishSignIn, UnchangedServer
<1>3. CASE calls[c].reply # "ok"
  BY <1>1, <1>2, <1>3, UserMoves DEF FinishSignIn, SameOwners, PageStays
<1>4. CASE calls[c].reply = "ok"
  <2>1. /\ tokens' = calls[c].grant /\ user' = calls[c].account
        /\ crossed' = (flight.step # "none")
    BY <1>4 DEF FinishSignIn
  <2>2. SigningIn(c)
    BY DEF FinishSignIn, CallAt, SigningIn, SignsIn
  <2>3. /\ calls'[c] = row /\ \A d \in Call \ {c} : calls'[d] = calls[d]
    BY <1>1, BecomesTyped, WebTypeUnfolds DEF MovesOn
  <2>4. ASSUME NEW d \in Call
        PROVE  /\ SigningIn(d)' => calls'[d].account \in Account
               /\ calls'[d].grant # None =>
                     SigningIn(d)' /\ sessions'[calls'[d].grant.bearer[1]].account = calls'[d].account
    <3>1. CASE d # c
      BY <1>2, <2>3, <3>1 DEF UserInv, SigningIn, Owner
    <3>2. CASE d = c
      <4>1. row = Idle
        BY <1>1, <1>4, <2>3, WebTypeUnfolds DEF FinishSignIn, FormAfter, Done, Becomes
      <4> QED BY <2>3, <3>2, <4>1, IdleTyped DEF SigningIn, SignsIn
    <3> QED BY <3>1, <3>2
  <2>5. tokens' # None => user' \in Account /\ sessions'[tokens'.bearer[1]].account = user'
    BY <1>2, <2>1, <2>2 DEF UserInv, Owner
  <2> QED BY <1>2, <2>1, <2>4, <2>5 DEF UserInv, Owner
<1> QED BY <1>3, <1>4

LEMMA UserServeRefreshKeeps ==
    ASSUME WebTypeOK, PageInv, KeyInv, UserInv, ServeRefresh PROVE UserInv'
<1>1. PICK grant \in AccessToken \cup {None} :
                 /\ flight' = [flight EXCEPT !.step = "answered", !.grant = grant]
                 /\ grant # None => grant.bearer[1] = flight.token[1]
  BY RefreshAnswers
<1>2. SameOwners /\ flight.step # "none"
  BY RefreshAnswers DEF SameOwners
<1>3. UNCHANGED <<tokens, user, calls, crossed>>
  BY DEF ServeRefresh
<1>4. flight'.step = "answered" /\ flight'.token = flight.token /\ flight'.grant = grant
  BY <1>1, WebTypeUnfolds DEF FlightRow
<1> QED BY <1>1, <1>2, <1>3, <1>4, OwnersStay DEF UserInv, SigningIn, Owner

LEMMA UserLandKeeps ==
    ASSUME WebTypeOK, PageInv, UserInv, NEW grant \in {flight.grant, None}, LandWith(grant),
           UNCHANGED sessions, flight.step # "none"
    PROVE  UserInv'
<1>1. grant \in AccessToken \cup {None}
  BY WebTypeUnfolds DEF FlightRow
<1>2. \A c \in Call : \/ calls'[c] = calls[c]
                      \/ calls'[c].grant = None /\ ~SignsIn(calls'[c])
  BY <1>1, LandCalls
<1>3. /\ tokens' = grant /\ UNCHANGED <<user, crossed>>
      /\ flight'.grant = None /\ flight'.step = "none"
  BY DEF LandWith, NoFlight
<1>4. ~crossed' /\ tokens' # None => user' \in Account /\ sessions'[tokens'.bearer[1]].account = user'
  BY <1>3 DEF UserInv, Owner
<1> QED BY <1>2, <1>3, <1>4 DEF UserInv, SigningIn, Owner

LEMMA UserQuietKeeps ==
    ASSUME WebTypeOK, PageInv, UserInv,
           Hydrate \/ Expire \/ Reload \/ FinishRefresh \/ RefreshFails \/ UNCHANGED webVars
    PROVE  UserInv'
<1>1. CASE Hydrate
  <2>1. UNCHANGED <<tokens, flight, calls, sessions>> /\ user' = None
        /\ crossed' = (crossed \/ user # None)
    BY <1>1 DEF Hydrate, UnchangedServer
  <2>2. ~crossed' => ~crossed /\ tokens = None
    BY <2>1, MfaAssumption DEF UserInv
  <2> QED BY <2>1, <2>2 DEF UserInv, SigningIn, Owner
<1>2. CASE Expire \/ UNCHANGED webVars
  BY <1>2 DEF Expire, UnchangedPage, webVars, UserInv, SigningIn, Owner
<1>3. CASE Reload
  <2>1. tokens' = None /\ flight'.grant = None /\ flight'.step = "none" /\ UNCHANGED sessions
    BY <1>3 DEF Reload, UnchangedServer, NoFlight
  <2>2. \A c \in Call : calls'[c] = calls[c] \/ (calls'[c].grant = None /\ ~SignsIn(calls'[c]))
    BY <1>3, IdleTyped DEF Reload, SignsIn
  <2> QED BY <2>1, <2>2 DEF UserInv, SigningIn, Owner
<1>4. CASE FinishRefresh
  BY <1>4, UserLandKeeps DEF FinishRefresh, UnchangedServer
<1>5. CASE RefreshFails
  BY <1>5, UserLandKeeps DEF RefreshFails, UnchangedServer
<1> QED BY <1>1, <1>2, <1>3, <1>4, <1>5

LEMMA UserStep ==
    ASSUME WebTypeOK, PageInv, KeyInv, UserInv, [Next]_vars PROVE UserInv'
<1>1. CASE Browse \/ BrowserFault
  <2>1. WebNext \/ WebFault
    BY <1>1 DEF Browse, BrowserFault
  <2> QED BY <2>1, UserQuietKeeps, UserCallKeeps, UserRefreshKeeps, UserSignInKeeps,
             UserFinishKeeps, UserServeRefreshKeeps DEF WebNext, WebFault, WebStep
<1>2. CASE UNCHANGED webVars
  BY <1>2, UserQuietKeeps
<1>3. Browse \/ BrowserFault \/ UNCHANGED webVars
  BY DEF Next, Rotate, Authorize, Grant, Provide, ProviderFault, Crash, vars
<1> QED BY <1>1, <1>2, <1>3

LEMMA UserInitially == WebInit => WebTypeOK /\ UserInv
<1> SUFFICES ASSUME WebInit PROVE WebTypeOK /\ UserInv
  OBVIOUS
<1>1. Idle \in CallRow /\ [Idle EXCEPT !.step = "over"] \in CallRow
  BY DEF Idle, CallRow, Reply
<1>2. calls \in [Call -> CallRow]
  BY <1>1 DEF WebInit
<1>3. \A c \in Call : calls[c].grant = None /\ calls[c].step \in {"idle", "over"}
  BY DEF WebInit, Idle
<1>4. [state |-> "none", account |-> None] \in SessionRow
  BY DEF SessionRow
<1>5. WebTypeOK
  BY <1>2, <1>4, IdleTyped, WebTypeUnfolds DEF WebInit, Opened
<1>6. tokens = None /\ flight.grant = None /\ flight.step = "none"
  BY DEF WebInit, NoFlight
<1> QED BY <1>3, <1>5, <1>6 DEF UserInv, SigningIn, SignsIn

-----------------------------------------------------------------------------
LEMMA WebInvStep ==
    KeyInv /\ PageInv /\ WebTypeOK /\ UserInv /\ [Next]_vars
       => (KeyInv /\ PageInv /\ WebTypeOK /\ UserInv)'
<1> SUFFICES ASSUME KeyInv, PageInv, WebTypeOK, UserInv, [Next]_vars
             PROVE  KeyInv' /\ PageInv' /\ WebTypeOK' /\ UserInv'
  OBVIOUS
<1> QED BY KeyStepKeeps, StepsOfKeys, PageStep, WebTypesStep, UserStep

LEMMA WebInvInitially == Init => KeyInv /\ PageInv /\ WebTypeOK /\ UserInv
  BY KeyInitially, PageInitially, UserInitially DEF Init

(* The page sends the tokens of the user it shows (auth.tsx:45,            *)
(* api.ts:85), unless an answer that sets one of them crossed another.     *)
THEOREM UserMatchesTokensHolds == Spec => []UserMatchesTokens
<1>1. UserInv => UserMatchesTokens
  BY DEF UserInv, UserMatchesTokens, Owner
<1> QED BY <1>1, WebInvInitially, WebInvStep, PTL DEF Spec

-----------------------------------------------------------------------------
(* The types of the rest.                                                  *)
LEMMA KeyRangeKeeps ==
    ASSUME KeysTypeOK, [KeyStep]_keyVars, signed' \subseteq AccessToken PROVE KeysTypeOK'
<1> USE DEF KeysTypeOK
<1>1. ASSUME NEW r \in Rotation, BeginRotation(r) PROVE KeysTypeOK'
  BY <1>1 DEF BeginRotation
<1>2. ASSUME NEW r \in Rotation, EndRotation(r) PROVE KeysTypeOK'
  BY <1>2 DEF EndRotation
<1>3. ASSUME NEW b, Sign(NewToken(b)) PROVE KeysTypeOK'
  BY <1>3 DEF Sign
<1>4. CASE Restart
  <2>1. made' \in Nat /\ boots' \in Nat /\ completed' \in Nat /\ previous' = None /\ overlapped' = FALSE
    BY <1>4 DEF Restart
  <2>2. current' \in 1..made'
    BY <1>4, ConfiguredAssumption DEF Restart, FirstKey
  <2>3. rotations' \in [Rotation -> {"idle", "generating", "over"}]
    BY <1>4 DEF Restart
  <2> QED BY <2>1, <2>2, <2>3
<1>5. CASE UNCHANGED keyVars
  BY <1>5 DEF keyVars
<1> QED BY <1>1, <1>2, <1>3, <1>4, <1>5 DEF KeyStep

LEMMA SignedTyped ==
    ASSUME KeyInv, PageInv, WebTypeOK, signed \subseteq AccessToken, [Next]_vars
    PROVE  signed' \subseteq AccessToken
<1>1. CASE Browse \/ BrowserFault
  <2>1. ASSUME NEW c \in Call, ServeSignIn(c) PROVE signed' \subseteq AccessToken
    <3>1. UNCHANGED signed \/ \E g \in AccessToken : Sign(g)
      BY <2>1, SignInAnswers DEF keyVars
    <3> QED BY <3>1 DEF Sign
  <2>2. CASE ServeRefresh
    BY <2>2, RefreshAnswers
  <2>3. ASSUME NEW c \in Call, WebStep(c), ~ServeSignIn(c) PROVE UNCHANGED keyVars
    BY <2>3 DEF WebStep, SubmitLogin, SubmitCode, GoBack, FinishSignIn, Load, ServeLoad,
                FinishLoad, RefreshSession, SubmitLogout, ServeLogout, FinishLogout, UnchangedServer
  <2>4. CASE Hydrate \/ FinishRefresh \/ WebFault
    BY <2>4 DEF Hydrate, FinishRefresh, WebFault, RefreshFails, Expire, Reload, CallFails,
                UnchangedServer, keyVars
  <2>5. WebNext \/ WebFault
    BY <1>1 DEF Browse, BrowserFault
  <2> QED BY <2>1, <2>2, <2>3, <2>4, <2>5 DEF WebNext, keyVars
<1>2. CASE Provide
  <2>1. ASSUME NEW x \in Exchange PROVE NewToken(x) \in AccessToken
    BY <2>1, ExchangeAssumption DEF NewToken, AccessToken, KeyInv, KeyTypes
  <2>2. UNCHANGED signed \/ \E x \in Exchange : Sign(NewToken(x))
    BY <1>2 DEF Provide, RegistryStep, ExchangeStep, SignExchange, SignIdToken, keyVars
  <2> QED BY <2>1, <2>2 DEF Sign
<1>3. CASE Rotate
  BY <1>3 DEF Rotate, BeginRotation, EndRotation
<1>4. CASE Crash
  BY <1>4 DEF Crash, Restart
<1>5. CASE (\E c \in Code : Authorize(c) \/ Grant(c)) \/ ProviderFault \/ UNCHANGED vars
  BY <1>5 DEF Authorize, Grant, ProviderFault, vars, keyVars
<1> QED BY <1>1, <1>2, <1>3, <1>4, <1>5 DEF Next

RegistryTypes ==
    /\ application \in {"none", "active", "disabled", "deleted"}
    /\ clientSecret \in Secret \cup {None}
    /\ handed \in Secret \cup {None}

LEMMA RegistryTypesStep == RegistryTypes /\ [Next]_vars => RegistryTypes'
<1> SUFFICES ASSUME RegistryTypes, [Next]_vars PROVE RegistryTypes'
  OBVIOUS
<1> USE DEF RegistryTypes
<1>1. ASSUME NEW a \in Admin, RegistryStepOf(a) PROVE RegistryTypes'
  <2>1. a \in Secret
    BY DEF Secret
  <2>2. CASE CreateApplication(a) \/ UpdateApplication(a) \/ DeleteApplication(a)
    BY <2>2 DEF CreateApplication, UpdateApplication, DeleteApplication
  <2>3. CASE CreateOAuthClient(a) \/ UpdateSecret(a) \/ Answer(a)
    BY <2>1, <2>3 DEF CreateOAuthClient, UpdateSecret, StoreSecret, Answer
  <2>4. CASE BeginRotateSecret(a) \/ RecordAudit(a) \/ RegistryFails(a)
    BY <2>4 DEF BeginRotateSecret, RecordAudit, RegistryFails
  <2> QED BY <1>1, <2>2, <2>3, <2>4 DEF RegistryStepOf
<1>2. CASE LoseCalls
  BY <1>2 DEF LoseCalls
<1>3. CASE UNCHANGED registryVars
  BY <1>3 DEF registryVars
<1> QED BY <1>1, <1>2, <1>3, StepsOfRegistry

LEMMA SharedTyped == GrantInv /\ shared \subseteq Code /\ [Next]_vars => shared' \subseteq Code
<1> SUFFICES ASSUME GrantInv, shared \subseteq Code, [Next]_vars PROVE shared' \subseteq Code
  OBVIOUS
<1>1. ASSUME NEW x \in Exchange, GetCode(x) PROVE shared' \subseteq Code
  <2>1. exchanges[x] \in ExchangeCall /\ exchanges[x].step = "get"
    BY <1>1 DEF GrantInv, GrantTypes, GetCode, ExchangeAt
  <2>2. exchanges[x].code \in Code
    BY <2>1 DEF ExchangeCall
  <2> QED BY <1>1, <2>2 DEF GetCode
<1>2. ASSUME NEW x \in Exchange, ExchangeStepOf(x), ~GetCode(x) PROVE UNCHANGED shared
  BY <1>2 DEF ExchangeStepOf, BeginExchange, DeleteCode, LoadUser, CreateOAuthSession
<1>3. ASSUME NEW c \in Code, CodeStepOf(c) PROVE UNCHANGED shared
  BY <1>3 DEF CodeStepOf, Validate, IssueAuthorizationCode, DropCode
<1>4. CASE LoseCalls \/ UNCHANGED grantVars
  BY <1>4 DEF LoseCalls, grantVars
<1> QED BY <1>1, <1>2, <1>3, <1>4, StepsOfGrants

LEMMA IncidentsTyped == incidents \in Nat /\ [Next]_vars => incidents' \in Nat
<1> SUFFICES ASSUME incidents \in Nat, [Next]_vars PROVE incidents' \in Nat
  OBVIOUS
<1>1. Incident \/ UNCHANGED incidents
  BY DEF Next, Rotate, Authorize, Grant, Provide, Browse, ProviderFault, BrowserFault, Crash, vars
<1> QED BY <1>1 DEF Incident

RestTypes ==
    /\ KeysTypeOK
    /\ RegistryTypes
    /\ shared \subseteq Code
    /\ incidents \in Nat

LEMMA RestInitially == Init => RestTypes
<1> SUFFICES ASSUME Init PROVE RestTypes
  OBVIOUS
<1>1. KeysTypeOK
  <2>1. KeysInit
    BY DEF Init
  <2>2. rotations \in [Rotation -> {"idle", "generating", "over"}]
    BY <2>1 DEF KeysInit
  <2>3. current \in 1..made /\ previous = None /\ made \in Nat
    BY <2>1 DEF KeysInit, FirstKey
  <2> QED BY <2>1, <2>2, <2>3 DEF KeysInit, KeysTypeOK
<1>2. RegistryTypes /\ shared \subseteq Code
  BY DEF Init, ProviderInit, RegistryTypes, Secret
<1>3. incidents \in Nat
  BY ScenariosAssumption DEF Init
<1> QED BY <1>1, <1>2, <1>3 DEF RestTypes

(* Every variable of the provider, its keys and the page keeps its type.   *)
THEOREM FederationTypeCorrect == Spec => []TypeOK
<1> DEFINE FederationInv == /\ KeyInv /\ PageInv /\ WebTypeOK /\ UserInv
                            /\ SecretInv /\ GrantInv /\ RestTypes
<1>1. Init => FederationInv
  BY WebInvInitially, SecretInitially, GrantInitially, RestInitially DEF Init
<1>2. FederationInv /\ [Next]_vars => FederationInv'
  <2> SUFFICES ASSUME FederationInv, [Next]_vars PROVE FederationInv'
    OBVIOUS
  <2>1. KeyInv' /\ PageInv' /\ WebTypeOK' /\ UserInv'
    BY WebInvStep
  <2>2. SecretInv'
    BY StepsOfRegistry, RegistryStepKeeps, LoseCallsKeeps, SecretStutters
  <2>3. GrantInv'
    BY StepsOfGrants, CodeStepKeeps, ExchangeStepKeeps, LoseCallsKeepsGrants, GrantStutters
  <2>4. KeysTypeOK'
    <3>1. KeysTypeOK /\ signed \subseteq AccessToken
      BY DEF RestTypes, KeysTypeOK
    <3> QED BY <3>1, SignedTyped, StepsOfKeys, KeyRangeKeeps
  <2>5. RestTypes'
    BY <2>4, RegistryTypesStep, SharedTyped, IncidentsTyped DEF RestTypes
  <2> QED BY <2>1, <2>2, <2>3, <2>5
<1>3. FederationInv => TypeOK
  BY DEF SecretInv, GrantInv, GrantTypes, RestTypes, RegistryTypes, ProviderTypeOK, TypeOK
<1> QED BY <1>1, <1>2, <1>3, PTL DEF Spec
=============================================================================
