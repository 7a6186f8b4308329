--------------------------- MODULE ZohoSyncProofs ---------------------------
(***************************************************************************)
(* Proofs about ZohoSync, for any number of callers, users and rows: the   *)
(* lock keeps runs apart, a resolution of a conflict says what was done,   *)
(* every field keeps its type, every user keeps one row, and a run that    *)
(* nothing comes between leaves sheet and database as they ought to be.    *)
(***************************************************************************)
EXTENDS ZohoSync, SequenceTheorems, FiniteSetTheorems, WellFoundedInduction, TLAPS

(* As long as no run has outlived it, whoever is active has the lock.      *)
LockInv ==
    /\ step \in [Run -> RunStep]
    /\ "outrun" \notin mishaps =>
         /\ \A r, q \in Run : Active(r) /\ Active(q) => r = q
         /\ (\E r \in Run : Active(r)) => lock

(* A step of a run that is active already keeps it.                        *)
LEMMA MoveKeepsLock ==
    ASSUME LockInv, NEW r \in Run, NEW s \in RunStep, Active(r), Goto(r, s),
           lock' = lock, mishaps \subseteq mishaps'
    PROVE  LockInv'
<1>1. step' \in [Run -> RunStep]
  BY DEF LockInv, Goto
<1>2. \A q \in Run : Active(q)' => Active(q)
  BY DEF LockInv, Goto, Active
<1>. QED
  BY <1>1, <1>2 DEF LockInv

(* So does whatever leaves the steps and the lock alone.                   *)
LEMMA StandKeepsLock ==
    ASSUME LockInv, step' = step, lock' = lock, mishaps \subseteq mishaps'
    PROVE  LockInv'
BY DEF LockInv, Active

(* A run that ends leaves nobody active, whether it frees the lock or not. *)
LEMMA EndKeepsLock ==
    ASSUME LockInv, NEW r \in Run, Active(r), Goto(r, "idle"), mishaps' = mishaps
    PROVE  LockInv'
<1>1. step' \in [Run -> RunStep]
  BY DEF LockInv, Goto, RunStep
<1>2. \A q \in Run : Active(q)' => Active(q) /\ q # r
  BY DEF LockInv, Goto, Active
<1>3. "outrun" \notin mishaps => \A q \in Run : ~Active(q)'
  BY <1>2 DEF LockInv
<1>. QED
  BY <1>1, <1>3 DEF LockInv

(* The lock is acquired when nobody is active.                             *)
LEMMA AcquireKeepsLock ==
    ASSUME LockInv, NEW r \in Run, NEW kind \in Kind, Acquire(r, kind)
    PROVE  LockInv'
<1>1. ~lock /\ lock' /\ mishaps' = mishaps /\ Goto(r, "job")
  BY DEF Acquire
<1>2. step' \in [Run -> RunStep]
  BY <1>1 DEF LockInv, Goto, RunStep
<1>3. "outrun" \notin mishaps => \A q \in Run : ~Active(q)
  BY <1>1 DEF LockInv
<1>4. \A q \in Run : Active(q)' => Active(q) \/ q = r
  BY <1>1 DEF LockInv, Goto, Active
<1>. QED
  BY <1>1, <1>2, <1>3, <1>4 DEF LockInv

(* The steps of a run keep the invariant.                                  *)
LEMMA RunKeepsLock ==
    ASSUME LockInv, NEW r \in Run, RunStepOf(r)
    PROVE  LockInv'
<1>1. ASSUME NEW kind \in Kind, Acquire(r, kind) PROVE LockInv'
  BY <1>1, AcquireKeepsLock
<1>2. ASSUME NEW token \in Token, CreateJob(r, token) PROVE LockInv'
  BY <1>2, MoveKeepsLock DEF CreateJob, At, Active, RunStep
<1>3. CASE FetchRows(r)
  BY <1>3, MoveKeepsLock DEF FetchRows, At, Active, RunStep
<1>4. CASE ReadUsers(r)
  BY <1>4, MoveKeepsLock DEF ReadUsers, At, Active, RunStep
<1>5. CASE RecordPush(r)
  BY <1>5, MoveKeepsLock DEF RecordPush, At, Active, RunStep
<1>6. ASSUME NEW answer \in Answers, Flush(r, answer) PROVE LockInv'
  <2>1. Active(r) /\ lock' = lock /\ mishaps \subseteq mishaps'
    BY <1>6 DEF Flush, At, Active
  <2>2. PICK s \in {"recordPush", "flush"} : Goto(r, s)
    BY <1>6 DEF Flush
  <2>. QED  BY <2>1, <2>2, MoveKeepsLock DEF RunStep
<1>7. CASE FetchCells(r)
  BY <1>7, MoveKeepsLock DEF FetchCells, At, Active, RunStep
<1>8. CASE ReadDb(r)
  BY <1>8, MoveKeepsLock DEF ReadDb, At, Active, RunStep
<1>9. CASE ReadRecords(r)
  <2>1. Active(r) /\ lock' = lock /\ mishaps' = mishaps
    BY <1>9 DEF ReadRecords, At, Active
  <2>2. PICK s \in {"conflicts", "write"} : Goto(r, s)
    BY <1>9 DEF ReadRecords
  <2>. QED  BY <2>1, <2>2, MoveKeepsLock DEF RunStep
<1>10. CASE WriteCell(r)
  BY <1>10, MoveKeepsLock DEF WriteCell, At, Active, RunStep
<1>11. CASE RecordConflicts(r)
  <2>1. /\ Active(r) /\ Goto(r, "recordPull")
        /\ lock' = lock /\ mishaps' = mishaps
    BY <1>11 DEF RecordConflicts, At, Active
  <2>. QED  BY <2>1, MoveKeepsLock DEF RunStep
<1>12. CASE RecordPull(r)
  BY <1>12, MoveKeepsLock DEF RecordPull, At, Active, RunStep
<1>13. CASE FailToFetch(r)
  BY <1>13, MoveKeepsLock DEF FailToFetch, At, Active, RunStep
<1>14. ASSUME NEW status \in {"success", "failed"}, EndJob(r, status)
       PROVE  LockInv'
  BY <1>14, MoveKeepsLock DEF EndJob, At, Active, RunStep
<1>15. CASE Release(r)
  BY <1>15, EndKeepsLock DEF Release, At, Active
<1>. QED
  BY <1>1, <1>2, <1>3, <1>4, <1>5, <1>6, <1>7, <1>8, <1>9, <1>10, <1>11,
     <1>12, <1>13, <1>14, <1>15 DEF RunStepOf

(* The TTL takes the lock from an active run only as a mishap.             *)
LEMMA ExpiryKeepsLock ==
    ASSUME LockInv, LockExpires
    PROVE  LockInv'
<1>1. step' = step
  BY DEF LockExpires
<1>2. CASE \E r \in Run : Active(r)
  BY <1>1, <1>2 DEF LockExpires, LockInv
<1>3. CASE ~\E r \in Run : Active(r)
  BY <1>1, <1>3 DEF LockInv, Active
<1>. QED
  BY <1>2, <1>3

(* Neither resolutions nor changes touch the lock or the runs' steps.      *)
LEMMA OthersKeepLock ==
    ASSUME (\E q \in Resolver : ResolverStep(q)) \/ Change
    PROVE  step' = step /\ lock' = lock /\ mishaps \subseteq mishaps'
<1>1. ASSUME NEW q \in Resolver, ResolverStep(q)
      PROVE  step' = step /\ lock' = lock /\ mishaps \subseteq mishaps'
  BY <1>1 DEF ResolverStep, TakeConflict, ApplyConflict, Acknowledge, MarkResolved
<1>2. CASE Change
  BY <1>2 DEF Change, Edit, EditCell, RemoveRow, ChangeUser, CreateUser,
     DeleteUser, UpdateConfig
<1>. QED
  BY <1>1, <1>2

(* No step of anybody breaks it.                                           *)
LEMMA LockHolds == Spec => []LockInv
<1>1. Init => LockInv
  BY DEF Init, LockInv, Active, RunStep
<1>2. LockInv /\ [Next]_zohoVars => LockInv'
  <2>. SUFFICES ASSUME LockInv, [Next]_zohoVars PROVE LockInv'
    OBVIOUS
  <2>1. ASSUME NEW r \in Run, RunStepOf(r) PROVE LockInv'
    BY <2>1, RunKeepsLock
  <2>2. ASSUME NEW r \in Run, Stop(r) PROVE LockInv'
    BY <2>2, EndKeepsLock DEF Stop
  <2>3. CASE LockExpires
    BY <2>3, ExpiryKeepsLock
  <2>4. CASE (\E q \in Resolver : ResolverStep(q)) \/ Change
    BY <2>4, OthersKeepLock, StandKeepsLock
  <2>5. CASE UNCHANGED zohoVars
    BY <2>5, StandKeepsLock DEF zohoVars
  <2>. QED
    BY <2>1, <2>2, <2>3, <2>4, <2>5 DEF Next
<1>. QED
  BY <1>1, <1>2, PTL DEF Spec

(* Whatever the callers, and whichever of them die: as long as no run      *)
(* outlives the TTL of the lock, one run at a time is past it.             *)
THEOREM RunsExclude == Spec => []OneRunAtATime
<1>1. LockInv => OneRunAtATime
  BY DEF LockInv, OneRunAtATime
<1>. QED
  BY <1>1, LockHolds, PTL

-----------------------------------------------------------------------------
(* Resolutions.  A conflict in hand is one the table holds.                *)
InHand(q, c) == resolutions[q].conflict = c

(* What is known of the resolutions.                                       *)
HandsInv ==
    /\ verdicts \in [Conflict -> Verdict]
    /\ resolutions \in [Resolver -> Resolution]
    /\ \A q \in Resolver :
          /\ resolutions[q].step = "idle" <=> resolutions[q].conflict = None
          /\ resolutions[q].step = "apply" => resolutions[q].choice = "keep_sheet"
          /\ \A c \in Conflict : InHand(q, c) => verdicts[c].state # "none"

(* What is known of a conflict that nobody contested: one resolution at    *)
(* most has it in hand, and has written its value if it is past that and   *)
(* was asked to; nobody has written it before, or for another choice.      *)
Settled(c) ==
    /\ \A p, q \in Resolver : InHand(p, c) /\ InHand(q, c) => p = q
    /\ verdicts[c].state = "resolved" =>
         /\ \A q \in Resolver : ~InHand(q, c)
         /\ verdicts[c].applied <=> verdicts[c].resolution = "keep_sheet"
    /\ verdicts[c].state # "resolved" /\ (\A q \in Resolver : ~InHand(q, c)) =>
         ~verdicts[c].applied
    /\ \A q \in Resolver : InHand(q, c) =>
         (verdicts[c].applied <=>
             resolutions[q].step # "apply" /\ resolutions[q].choice = "keep_sheet")

ResolutionInv ==
    /\ HandsInv
    /\ \A c \in Conflict : ~verdicts[c].contested => Settled(c)

(* What touches neither the verdicts nor the resolutions keeps it.         *)
LEMMA StandKeepsResolution ==
    ASSUME ResolutionInv, UNCHANGED <<verdicts, resolutions>>
    PROVE  ResolutionInv'
BY DEF ResolutionInv, HandsInv, Settled, InHand

(* New conflicts are pending, in nobody's hand.                            *)
LEMMA RecordKeepsResolution ==
    ASSUME ResolutionInv, NEW r \in Run, RecordConflicts(r)
    PROVE  ResolutionInv'
<1>1. resolutions' = resolutions
  BY DEF RecordConflicts
<1>2. PICK new \in SUBSET Free :
        verdicts' = [c \in Conflict |->
            IF c \in new THEN [NoVerdict EXCEPT !.state = "pending"] ELSE verdicts[c]]
  BY DEF RecordConflicts
<1>3. \A c \in new : verdicts[c].state = "none" /\ c \in Conflict
  BY DEF Free
<1>4. DEFINE pending == [NoVerdict EXCEPT !.state = "pending"]
<1>5. /\ pending \in Verdict
      /\ pending.state = "pending"
      /\ pending.applied = FALSE
  BY DEF NoVerdict, Verdict
<1>. HIDE DEF pending
<1>6. /\ \A c \in new : verdicts'[c] = pending
      /\ \A c \in Conflict \ new : verdicts'[c] = verdicts[c]
  BY <1>2, <1>3 DEF pending
<1>7. verdicts' \in [Conflict -> Verdict]
  BY <1>2, <1>5 DEF ResolutionInv, HandsInv, pending
<1>8. \A c \in new, q \in Resolver : ~InHand(q, c)
  BY <1>3 DEF ResolutionInv, HandsInv
<1>9. HandsInv'
  BY <1>1, <1>6, <1>7, <1>8 DEF ResolutionInv, HandsInv, InHand
<1>10. ASSUME NEW c \in Conflict, ~verdicts'[c].contested PROVE Settled(c)'
  <2>1. CASE c \in new
    BY <2>1, <1>1, <1>5, <1>6, <1>8 DEF Settled, InHand
  <2>2. CASE c \notin new
    BY <2>2, <1>10, <1>1, <1>6 DEF Settled, InHand, ResolutionInv
  <2>. QED  BY <2>1, <2>2
<1>. QED
  BY <1>9, <1>10 DEF ResolutionInv

(* A resolution takes a pending conflict that nobody else has, or contests *)
(* it.                                                                     *)
LEMMA TakeKeepsResolution ==
    ASSUME ResolutionInv, NEW q \in Resolver, NEW c \in Conflict,
           NEW choice \in Choice, TakeConflict(q, c, choice)
    PROVE  ResolutionInv'
<1>. DEFINE x == [step |-> IF choice = "keep_sheet" THEN "apply" ELSE "acknowledge",
                  conflict |-> c, choice |-> choice]
<1>1. /\ resolutions[q].step = "idle"
      /\ verdicts[c].state = "pending"
      /\ resolutions' = [resolutions EXCEPT ![q] = x]
  BY DEF TakeConflict, Resolving
<1>2. /\ x \in Resolution /\ x.conflict = c /\ x.choice = choice
      /\ x.step = IF choice = "keep_sheet" THEN "apply" ELSE "acknowledge"
  BY DEF Resolution, Choice
<1>. HIDE DEF x
<1>3. /\ resolutions'[q] = x
      /\ \A p \in Resolver \ {q} : resolutions'[p] = resolutions[p]
      /\ resolutions' \in [Resolver -> Resolution]
  BY <1>1, <1>2 DEF ResolutionInv, HandsInv
<1>4. /\ verdicts' \in [Conflict -> Verdict]
      /\ \A d \in Conflict \ {c} : verdicts'[d] = verdicts[d]
      /\ verdicts'[c].state = "pending"
      /\ ~verdicts'[c].contested =>
            verdicts'[c] = verdicts[c] /\ \A p \in Resolver : ~InHand(p, c)
  <2>1. CASE \E p \in Resolver : resolutions[p].conflict = c
    <3>1. verdicts' = [verdicts EXCEPT ![c].contested = TRUE]
      BY <2>1 DEF TakeConflict
    <3>2. verdicts[c] \in Verdict
      BY DEF ResolutionInv, HandsInv
    <3>. QED  BY <3>1, <3>2, <1>1 DEF ResolutionInv, HandsInv, Verdict
  <2>2. CASE ~\E p \in Resolver : resolutions[p].conflict = c
    BY <2>2, <1>1 DEF TakeConflict, ResolutionInv, HandsInv, InHand
  <2>. QED  BY <2>1, <2>2
<1>5. c # None
  BY NoneAssumption
<1>6. HandsInv'
  BY <1>1, <1>2, <1>3, <1>4, <1>5 DEF ResolutionInv, HandsInv, InHand
<1>7. ASSUME NEW d \in Conflict, ~verdicts'[d].contested PROVE Settled(d)'
  <2>1. CASE d = c
    <3>1. /\ verdicts'[c] = verdicts[c]
          /\ \A p \in Resolver : ~InHand(p, c)
          /\ ~verdicts[c].contested
      BY <2>1, <1>4, <1>7
    <3>2. ~verdicts[c].applied
      BY <3>1, <1>1 DEF ResolutionInv, Settled
    <3>3. \A p \in Resolver : InHand(p, c)' => p = q
      BY <3>1, <1>3 DEF InHand
    <3>. QED  BY <2>1, <3>1, <3>2, <3>3, <1>1, <1>2, <1>3 DEF Settled, InHand
  <2>2. CASE d # c
    <3>1. Settled(d) /\ verdicts'[d] = verdicts[d]
      BY <2>2, <1>4, <1>7 DEF ResolutionInv
    <3>2. \A p \in Resolver : InHand(p, d)' <=> InHand(p, d)
      BY <2>2, <1>1, <1>2, <1>3, NoneAssumption DEF InHand, ResolutionInv, HandsInv
    <3>3. \A p \in Resolver : InHand(p, d) => resolutions'[p] = resolutions[p]
      BY <2>2, <1>2, <1>3, <3>2 DEF InHand
    <3>. QED  BY <3>1, <3>2, <3>3 DEF Settled
  <2>. QED  BY <2>1, <2>2
<1>. QED
  BY <1>6, <1>7 DEF ResolutionInv

(* Whoever is past its first statement has a conflict of the table in hand.*)
LEMMA HandIsConflict ==
    ASSUME ResolutionInv, NEW q \in Resolver, resolutions[q].step # "idle"
    PROVE  /\ resolutions[q].conflict \in Conflict
           /\ resolutions[q].conflict # None
           /\ verdicts[resolutions[q].conflict].state # "none"
<1>1. /\ resolutions[q].conflict \in Conflict \cup {None}
      /\ resolutions[q].conflict # None
  BY DEF ResolutionInv, HandsInv, Resolution
<1>. QED
  BY <1>1 DEF ResolutionInv, HandsInv, InHand

(* A resolution that ends without a verdict, its value being refused, has  *)
(* written nothing.                                                        *)
LEMMA RefuseKeepsResolution ==
    ASSUME ResolutionInv, NEW q \in Resolver, resolutions[q].step = "apply",
           resolutions' = [resolutions EXCEPT ![q] = NoResolution],
           verdicts' = verdicts
    PROVE  ResolutionInv'
<1>1. NoResolution \in Resolution /\ NoResolution.step = "idle" /\ NoResolution.conflict = None
  BY DEF NoResolution, Resolution, Choice
<1>. HIDE DEF NoResolution
<1>2. /\ resolutions'[q] = NoResolution
      /\ \A p \in Resolver \ {q} : resolutions'[p] = resolutions[p]
      /\ resolutions' \in [Resolver -> Resolution]
  BY <1>1 DEF ResolutionInv, HandsInv
<1>3. \A p \in Resolver, c \in Conflict : InHand(p, c)' <=> p # q /\ InHand(p, c)
  BY <1>1, <1>2, NoneAssumption DEF InHand
<1>4. HandsInv'
  BY <1>1, <1>2, <1>3, NoneAssumption DEF ResolutionInv, HandsInv
<1>5. ASSUME NEW c \in Conflict, ~verdicts[c].contested PROVE Settled(c)'
  <2>1. Settled(c)
    BY <1>5 DEF ResolutionInv
  <2>2. CASE InHand(q, c)
    BY <2>1, <2>2, <1>2, <1>3 DEF Settled
  <2>3. CASE ~InHand(q, c)
    BY <2>1, <2>3, <1>2, <1>3 DEF Settled
  <2>. QED  BY <2>2, <2>3
<1>. QED
  BY <1>4, <1>5 DEF ResolutionInv

(* A step within a resolution: the verdict of its conflict keeps its state.*)
LEMMA AdvanceKeepsResolution ==
    ASSUME ResolutionInv, NEW q \in Resolver, resolutions[q].step # "idle",
           NEW s \in {"acknowledge", "mark"},
           resolutions' = [resolutions EXCEPT ![q].step = s],
           \/ /\ resolutions[q].step = "apply"
              /\ verdicts' = [verdicts EXCEPT ![resolutions[q].conflict].applied = TRUE]
           \/ /\ resolutions[q].step # "apply"
              /\ verdicts' = verdicts
    PROVE  ResolutionInv'
<1>. DEFINE c == resolutions[q].conflict
            x == [resolutions[q] EXCEPT !.step = s]
<1>1. c \in Conflict /\ c # None /\ verdicts[c].state # "none"
  BY HandIsConflict
<1>2. resolutions[q] \in Resolution
  BY DEF ResolutionInv, HandsInv
<1>3. /\ x \in Resolution /\ x.step = s /\ x.conflict = c
      /\ x.choice = resolutions[q].choice
  BY <1>2 DEF Resolution
<1>4. resolutions' = [resolutions EXCEPT ![q] = x]
  OBVIOUS
<1>. HIDE DEF x
<1>5. /\ resolutions'[q] = x
      /\ \A p \in Resolver \ {q} : resolutions'[p] = resolutions[p]
      /\ resolutions' \in [Resolver -> Resolution]
  BY <1>3, <1>4 DEF ResolutionInv, HandsInv
<1>6. \A p \in Resolver, d \in Conflict : InHand(p, d)' <=> InHand(p, d)
  BY <1>3, <1>5 DEF InHand
<1>7. /\ verdicts' \in [Conflict -> Verdict]
      /\ \A d \in Conflict \ {c} : verdicts'[d] = verdicts[d]
      /\ verdicts'[c].state = verdicts[c].state
      /\ verdicts'[c].contested = verdicts[c].contested
      /\ verdicts'[c].resolution = verdicts[c].resolution
      /\ verdicts'[c].applied =
            IF resolutions[q].step = "apply" THEN TRUE ELSE verdicts[c].applied
  <2>1. verdicts[c] \in Verdict
    BY <1>1 DEF ResolutionInv, HandsInv
  <2>2. CASE resolutions[q].step = "apply"
    <3>1. verdicts' = [verdicts EXCEPT ![c].applied = TRUE]
      BY <2>2
    <3>. QED  BY <3>1, <2>1, <2>2, <1>1 DEF ResolutionInv, HandsInv, Verdict
  <2>3. CASE resolutions[q].step # "apply"
    BY <2>3 DEF ResolutionInv, HandsInv
  <2>. QED  BY <2>2, <2>3
<1>8. resolutions[q].step = "apply" => resolutions[q].choice = "keep_sheet"
  BY DEF ResolutionInv, HandsInv
<1>9. HandsInv'
  <2>1. \A p \in Resolver :
          /\ resolutions'[p].step = "idle" <=> resolutions'[p].conflict = None
          /\ resolutions'[p].step = "apply" => resolutions'[p].choice = "keep_sheet"
    BY <1>1, <1>3, <1>5 DEF ResolutionInv, HandsInv
  <2>2. \A d \in Conflict : verdicts'[d].state = verdicts[d].state
    BY <1>7
  <2>. QED  BY <2>1, <2>2, <1>5, <1>6, <1>7 DEF ResolutionInv, HandsInv
<1>10. ASSUME NEW d \in Conflict, ~verdicts'[d].contested PROVE Settled(d)'
  <2>1. Settled(d)
    BY <1>7, <1>10 DEF ResolutionInv
  <2>2. CASE d = c
    <3>1. \A p \in Resolver : InHand(p, c) <=> p = q
      BY <2>1, <2>2 DEF Settled, InHand
    <3>2. verdicts[c].state # "resolved"
      BY <2>1, <2>2, <3>1 DEF Settled
    <3>3. verdicts[c].applied <=>
             resolutions[q].step # "apply" /\ resolutions[q].choice = "keep_sheet"
      BY <2>1, <2>2, <3>1 DEF Settled
    <3>4. verdicts'[c].applied <=> resolutions'[q].choice = "keep_sheet"
      BY <3>3, <1>3, <1>5, <1>7, <1>8
    <3>5. resolutions'[q].step # "apply"
      BY <1>3, <1>5
    <3>. QED  BY <2>2, <3>1, <3>2, <3>4, <3>5, <1>6, <1>7 DEF Settled
  <2>3. CASE d # c
    <3>1. ~InHand(q, d)
      BY <2>3 DEF InHand
    <3>2. verdicts'[d] = verdicts[d]
      BY <2>3, <1>7
    <3>. QED  BY <2>1, <3>1, <3>2, <1>5, <1>6 DEF Settled
  <2>. QED  BY <2>2, <2>3
<1>. QED
  BY <1>9, <1>10 DEF ResolutionInv

(* The verdict is given, and the conflict out of hand.                     *)
LEMMA MarkKeepsResolution ==
    ASSUME ResolutionInv, NEW q \in Resolver, MarkResolved(q)
    PROVE  ResolutionInv'
<1>. DEFINE c == resolutions[q].conflict
            v == [verdicts[c] EXCEPT !.state = "resolved",
                                     !.resolution = resolutions[q].choice]
<1>1. /\ resolutions[q].step = "mark"
      /\ verdicts' = [verdicts EXCEPT ![c] = v]
      /\ resolutions' = [resolutions EXCEPT ![q] = NoResolution]
  BY DEF MarkResolved, Resolving
<1>2. c \in Conflict /\ c # None
  BY <1>1, HandIsConflict
<1>3. verdicts[c] \in Verdict /\ resolutions[q].choice \in Choice
  BY <1>2 DEF ResolutionInv, HandsInv, Resolution
<1>4. /\ v \in Verdict /\ v.state = "resolved"
      /\ v.resolution = resolutions[q].choice
      /\ v.applied = verdicts[c].applied
      /\ v.contested = verdicts[c].contested
  BY <1>3 DEF Verdict
<1>. HIDE DEF v
<1>5. NoResolution \in Resolution /\ NoResolution.step = "idle" /\ NoResolution.conflict = None
  BY DEF NoResolution, Resolution, Choice
<1>. HIDE DEF NoResolution
<1>6. /\ resolutions'[q] = NoResolution
      /\ \A p \in Resolver \ {q} : resolutions'[p] = resolutions[p]
      /\ resolutions' \in [Resolver -> Resolution]
  BY <1>1, <1>5 DEF ResolutionInv, HandsInv
<1>7. /\ verdicts'[c] = v
      /\ \A d \in Conflict \ {c} : verdicts'[d] = verdicts[d]
      /\ verdicts' \in [Conflict -> Verdict]
  BY <1>1, <1>2, <1>4 DEF ResolutionInv, HandsInv
<1>8. \A p \in Resolver, d \in Conflict : InHand(p, d)' <=> p # q /\ InHand(p, d)
  BY <1>5, <1>6, NoneAssumption DEF InHand
<1>9. HandsInv'
  BY <1>4, <1>5, <1>6, <1>7, <1>8, NoneAssumption DEF ResolutionInv, HandsInv
<1>10. ASSUME NEW d \in Conflict, ~verdicts'[d].contested PROVE Settled(d)'
  <2>1. Settled(d)
    BY <1>4, <1>7, <1>10 DEF ResolutionInv
  <2>2. CASE d = c
    <3>1. \A p \in Resolver : InHand(p, c) <=> p = q
      BY <2>1, <2>2 DEF Settled, InHand
    <3>2. verdicts[c].applied <=> resolutions[q].choice = "keep_sheet"
      BY <2>1, <2>2, <3>1, <1>1 DEF Settled
    <3>3. \A p \in Resolver : ~InHand(p, d)'
      BY <2>2, <3>1, <1>8
    <3>. QED  BY <2>2, <3>2, <3>3, <1>4, <1>7 DEF Settled
  <2>3. CASE d # c
    <3>1. ~InHand(q, d)
      BY <2>3 DEF InHand
    <3>2. verdicts'[d] = verdicts[d]
      BY <2>3, <1>7
    <3>. QED  BY <2>1, <3>1, <3>2, <1>6, <1>8 DEF Settled
  <2>. QED  BY <2>2, <2>3
<1>. QED
  BY <1>9, <1>10 DEF ResolutionInv

(* The statements of a resolution keep the invariant.                      *)
LEMMA ResolverKeepsResolution ==
    ASSUME ResolutionInv, NEW q \in Resolver, ResolverStep(q)
    PROVE  ResolutionInv'
<1>1. ASSUME NEW c \in Conflict, NEW choice \in Verdicts, TakeConflict(q, c, choice)
      PROVE  ResolutionInv'
  <2>1. choice \in Choice
    BY ConfigAssumption
  <2>. QED  BY <1>1, <2>1, TakeKeepsResolution
<1>2. CASE ApplyConflict(q)
  <2>1. resolutions[q].step = "apply"
    BY <1>2 DEF ApplyConflict, Resolving
  <2>2. CASE Applicable(resolutions[q].conflict)
    <3>1. /\ verdicts' = [verdicts EXCEPT ![resolutions[q].conflict].applied = TRUE]
          /\ resolutions' = [resolutions EXCEPT ![q].step = "acknowledge"]
      BY <1>2, <2>2 DEF ApplyConflict
    <3>. QED  BY <2>1, <3>1, AdvanceKeepsResolution
  <2>3. CASE ~Applicable(resolutions[q].conflict)
    <3>1. /\ resolutions' = [resolutions EXCEPT ![q] = NoResolution]
          /\ verdicts' = verdicts
      BY <1>2, <2>3 DEF ApplyConflict
    <3>. QED  BY <2>1, <3>1, RefuseKeepsResolution
  <2>. QED  BY <2>2, <2>3
<1>3. CASE Acknowledge(q)
  <2>1. /\ resolutions[q].step = "acknowledge"
        /\ verdicts' = verdicts
        /\ resolutions' = [resolutions EXCEPT ![q].step = "mark"]
    BY <1>3 DEF Acknowledge, Resolving, table
  <2>. QED  BY <2>1, AdvanceKeepsResolution
<1>4. CASE MarkResolved(q)
  BY <1>4, MarkKeepsResolution
<1>. QED
  BY <1>1, <1>2, <1>3, <1>4 DEF ResolverStep

(* A run leaves them alone, but for the conflicts it finds.                *)
LEMMA RunKeepsResolution ==
    ASSUME ResolutionInv, NEW r \in Run, RunStepOf(r)
    PROVE  ResolutionInv'
<1>1. CASE RecordConflicts(r)
  BY <1>1, RecordKeepsResolution
<1>2. CASE ~RecordConflicts(r)
  <2>1. UNCHANGED <<verdicts, resolutions>>
    BY <1>2 DEF RunStepOf, Acquire, CreateJob, FetchRows, ReadUsers, RecordPush,
       Flush, FetchCells, ReadDb, ReadRecords, WriteCell, RecordPull,
       FailToFetch, EndJob, Release, data, table
  <2>. QED  BY <2>1, StandKeepsResolution
<1>. QED
  BY <1>1, <1>2

(* No step of anybody breaks it.                                           *)
LEMMA ResolutionHolds == Spec => []ResolutionInv
<1>1. Init => ResolutionInv
  <2>. SUFFICES ASSUME Init PROVE ResolutionInv
    OBVIOUS
  <2>1. NoVerdict \in Verdict /\ NoVerdict.state = "none" /\ NoVerdict.applied = FALSE
    BY DEF NoVerdict, Verdict
  <2>2. NoResolution \in Resolution /\ NoResolution.step = "idle" /\ NoResolution.conflict = None
    BY DEF NoResolution, Resolution, Choice
  <2>3. /\ verdicts \in [Conflict -> Verdict]
        /\ resolutions \in [Resolver -> Resolution]
        /\ \A c \in Conflict : verdicts[c] = NoVerdict
        /\ \A q \in Resolver : resolutions[q] = NoResolution
    BY <2>1, <2>2 DEF Init
  <2>. QED
    BY <2>1, <2>2, <2>3, NoneAssumption DEF ResolutionInv, HandsInv, Settled, InHand
<1>2. ResolutionInv /\ [Next]_zohoVars => ResolutionInv'
  <2>. SUFFICES ASSUME ResolutionInv, [Next]_zohoVars PROVE ResolutionInv'
    OBVIOUS
  <2>1. ASSUME NEW r \in Run, RunStepOf(r) PROVE ResolutionInv'
    BY <2>1, RunKeepsResolution
  <2>2. ASSUME NEW r \in Run, Stop(r) PROVE ResolutionInv'
    BY <2>2, StandKeepsResolution DEF Stop, data, table
  <2>3. ASSUME NEW q \in Resolver, ResolverStep(q) PROVE ResolutionInv'
    BY <2>3, ResolverKeepsResolution
  <2>4. CASE LockExpires
    BY <2>4, StandKeepsResolution DEF LockExpires, data, table
  <2>5. CASE Change
    BY <2>5, StandKeepsResolution DEF Change, Edit, EditCell, RemoveRow, ChangeUser,
       CreateUser, DeleteUser, UpdateConfig, table
  <2>6. CASE UNCHANGED zohoVars
    BY <2>6, StandKeepsResolution DEF zohoVars, data, table
  <2>. QED
    BY <2>1, <2>2, <2>3, <2>4, <2>5, <2>6 DEF Next
<1>. QED
  BY <1>1, <1>2, PTL DEF Spec

(* However many administrators resolve conflicts, a conflict that no two   *)
(* had in hand at a time says what was done about its user.                *)
THEOREM VerdictsAreTrue == Spec => []ResolutionIsTrue
<1>1. ResolutionInv => ResolutionIsTrue
  BY DEF ResolutionInv, ResolutionIsTrue, Settled
<1>. QED
  BY <1>1, ResolutionHolds, PTL

-----------------------------------------------------------------------------
(* Sequences by position: what a recursive function takes of one.          *)

(* Induction over the naturals, as the absence of a least counterexample.  *)
LEMMA NatSets ==
    ASSUME NEW S, 0 \in S, \A n \in S \cap Nat : n + 1 \in S
    PROVE  Nat \subseteq S
<1> DEFINE T == Nat \ S
<1> SUFFICES ASSUME T # {} PROVE FALSE
  OBVIOUS
<1>1. IsWellFoundedOn(OpToRel(<, Nat), Nat)
  BY Zenon, NatLessThanWellFounded
<1>2. T \subseteq Nat
  OBVIOUS
<1>3. PICK n \in T : \A m \in T : ~(<<m, n>> \in OpToRel(<, Nat))
  <2> HIDE DEF T
  <2> QED BY Zenon, <1>1, <1>2, WFMin
<1>4. \A m \in T : ~(m < n)
  BY <1>3 DEF OpToRel
<1>5. n # 0 /\ n - 1 \in Nat
  OBVIOUS
<1>6. n - 1 \in S
  BY <1>4, <1>5
<1> QED BY <1>5, <1>6

(* h lists the positions up to i that are in kept, in their order.         *)
Lists(h, kept, i) ==
    /\ h \in Seq(kept \cap 1..i)
    /\ \A m, n \in 1..Len(h) : m < n => h[m] < h[n]
    /\ \A k \in kept \cap 1..i : \E n \in 1..Len(h) : h[n] = k

(* No position is listed before the first.                                 *)
LEMMA ListsNone == ASSUME NEW kept PROVE Lists(<<>>, kept, 0)
BY DEF Lists

(* The next position is listed or passed over.                             *)
LEMMA ListsNext ==
    ASSUME NEW kept, NEW i \in Nat, NEW h, Lists(h, kept, i)
    PROVE  /\ i + 1 \in kept => Lists(Append(h, i + 1), kept, i + 1)
           /\ i + 1 \notin kept => Lists(h, kept, i + 1)
<1> DEFINE S == kept \cap 1..i
           T == kept \cap 1..(i + 1)
<1>1. h \in Seq(S)
  BY DEF Lists
<1>2. S \subseteq T
  OBVIOUS
<1>3. h \in Seq(T)
  <2> HIDE DEF S, T
  <2> QED BY <1>1, <1>2, SeqMonotonic
<1>4. Len(h) \in Nat /\ \A n \in 1..Len(h) : h[n] \in S
  <2> HIDE DEF S
  <2> QED BY <1>1, LenProperties, ElementOfSeq
<1>5. ASSUME i + 1 \in kept PROVE Lists(Append(h, i + 1), kept, i + 1)
  <2> DEFINE g == Append(h, i + 1)
  <2>1. i + 1 \in T
    BY <1>5
  <2>2. /\ g \in Seq(T) /\ Len(g) = Len(h) + 1
        /\ \A n \in 1..Len(h) : g[n] = h[n]
        /\ g[Len(h) + 1] = i + 1
    <3> HIDE DEF T
    <3> QED BY <1>3, <2>1, AppendProperties
  <2> HIDE DEF g
  <2>3. \A m, n \in 1..Len(g) : m < n => g[m] < g[n]
    <3> SUFFICES ASSUME NEW m \in 1..Len(g), NEW n \in 1..Len(g), m < n
                 PROVE  g[m] < g[n]
      OBVIOUS
    <3>1. m \in 1..Len(h) /\ g[m] = h[m] /\ h[m] \in 1..i
      BY <1>4, <2>2
    <3>2. CASE n \in 1..Len(h)
      BY <3>1, <3>2, <2>2 DEF Lists
    <3>3. CASE n = Len(h) + 1
      BY <3>1, <3>3, <2>2
    <3> QED BY <1>4, <2>2, <3>2, <3>3
  <2>4. \A k \in T : \E n \in 1..Len(g) : g[n] = k
    <3> SUFFICES ASSUME NEW k \in T PROVE \E n \in 1..Len(g) : g[n] = k
      OBVIOUS
    <3>1. CASE k = i + 1
      BY <3>1, <2>2, <1>4
    <3>2. CASE k \in S
      <4>1. PICK n \in 1..Len(h) : h[n] = k
        BY <3>2 DEF Lists
      <4> QED BY <4>1, <2>2, <1>4
    <3> QED BY <3>1, <3>2
  <2> QED BY <2>2, <2>3, <2>4 DEF Lists, g
<1>6. ASSUME i + 1 \notin kept PROVE Lists(h, kept, i + 1)
  <2>1. T = S
    BY <1>6
  <2> QED BY <2>1 DEF Lists
<1> QED BY <1>5, <1>6

(* What is listed, and how.                                                *)
LEMMA ListsFacts ==
    ASSUME NEW kept, NEW i \in Nat, NEW h, Lists(h, kept, i)
    PROVE  /\ Len(h) \in Nat /\ DOMAIN h = 1..Len(h)
           /\ \A n \in 1..Len(h) : h[n] \in kept /\ h[n] \in 1..i
<1> DEFINE S == kept \cap 1..i
<1>1. h \in Seq(S)
  BY DEF Lists
<1>2. Len(h) \in Nat /\ DOMAIN h = 1..Len(h) /\ \A n \in 1..Len(h) : h[n] \in S
  <2> HIDE DEF S
  <2> QED BY <1>1, LenProperties, ElementOfSeq
<1> QED BY <1>2

(* No position is listed twice.                                            *)
LEMMA ListsOnce ==
    ASSUME NEW kept, NEW i \in Nat, NEW h, Lists(h, kept, i),
           NEW m \in 1..Len(h), NEW n \in 1..Len(h), h[m] = h[n]
    PROVE  m = n
<1>1. h[m] \in Nat /\ m \in Nat /\ n \in Nat
  <2>1. Len(h) \in Nat /\ \A k \in 1..Len(h) : h[k] \in kept /\ h[k] \in 1..i
    BY ListsFacts
  <2> QED BY <2>1
<1>2. (m < n => h[m] < h[n]) /\ (n < m => h[n] < h[m])
  BY DEF Lists
<1>3. ~(m < n) /\ ~(n < m)
  BY <1>1, <1>2
<1> QED BY <1>1, <1>3

(* The elements at listed positions.                                       *)
Taken(seq, h) == [n \in 1..Len(h) |-> seq[h[n]]]

(* Taking one more position appends its element.                           *)
LEMMA TakenNext ==
    ASSUME NEW S, NEW seq \in Seq(S), NEW kept, NEW i \in Nat, NEW h,
           Lists(h, kept, i), i + 1 \in kept, i + 1 <= Len(seq)
    PROVE  /\ Taken(seq, h) \in Seq(S)
           /\ Taken(seq, Append(h, i + 1)) = Append(Taken(seq, h), seq[i + 1])
<1> DEFINE s == Taken(seq, h)
           g == Append(h, i + 1)
           t == Taken(seq, g)
<1>0. Len(seq) \in Nat /\ \A k \in 1..(i + 1) : seq[k] \in S
  BY LenProperties, ElementOfSeq
<1>1. Len(h) \in Nat /\ \A n \in 1..Len(h) : h[n] \in kept \cap 1..i
  BY ListsFacts
<1>2. \A n \in 1..Len(h) : seq[h[n]] \in S
  BY <1>0, <1>1
<1>3. s \in Seq(S) /\ Len(s) = Len(h) /\ \A n \in 1..Len(h) : s[n] = seq[h[n]]
  BY <1>1, <1>2 DEF Taken
<1>4. Lists(g, kept, i + 1)
  BY ListsNext
<1>5. Len(g) \in Nat /\ \A n \in 1..Len(g) : g[n] \in kept \cap 1..(i + 1)
  <2> HIDE DEF g
  <2>1. i + 1 \in Nat
    OBVIOUS
  <2> QED BY <1>4, <2>1, ListsFacts
<1>6. t \in Seq(S) /\ Len(t) = Len(g) /\ \A n \in 1..Len(g) : t[n] = seq[g[n]]
  <2> HIDE DEF g
  <2> QED BY <1>0, <1>5 DEF Taken
<1>7. /\ Len(g) = Len(h) + 1 /\ g[Len(h) + 1] = i + 1
      /\ \A n \in 1..Len(h) : g[n] = h[n]
  <2>1. h \in Seq(Nat) /\ i + 1 \in Nat
    <3>1. h \in Seq(kept \cap 1..i) /\ kept \cap 1..i \subseteq Nat
      BY DEF Lists
    <3> QED BY <3>1, SeqMonotonic
  <2> QED BY <2>1, AppendProperties
<1>8. /\ Append(s, seq[i + 1]) \in Seq(S)
      /\ Len(Append(s, seq[i + 1])) = Len(s) + 1
      /\ \A n \in 1..Len(s) : Append(s, seq[i + 1])[n] = s[n]
      /\ Append(s, seq[i + 1])[Len(s) + 1] = seq[i + 1]
  <2> HIDE DEF s
  <2>1. seq[i + 1] \in S
    BY <1>0
  <2> QED BY <1>3, <2>1, AppendProperties
<1> DEFINE v == Append(s, seq[i + 1])
<1> HIDE DEF s, t, g, v
<1>9. t = v
  <2>1. Len(t) = Len(v) /\ v \in Seq(S) /\ \A n \in 1..Len(t) : t[n] = v[n]
    BY <1>1, <1>3, <1>6, <1>7, <1>8 DEF v
  <2> QED BY <1>6, <2>1, SeqEqual
<1> QED BY <1>3, <1>9 DEF s, t, g, v

(* f is what Only makes of the positions up to i.                          *)
IsUpTo(f, seq, kept, i) ==
    f = [n \in 0..i |->
           IF n = 0 THEN <<>>
           ELSE IF n \in kept THEN Append(f[n-1], seq[n]) ELSE f[n-1]]

(* There is a function as Only defines it.                                 *)
LEMMA UpToExists ==
    ASSUME NEW seq, NEW kept
    PROVE  \A i \in Nat : \E f : IsUpTo(f, seq, kept, i)
<1> DEFINE T == {i \in Nat : \E f : IsUpTo(f, seq, kept, i)}
<1>1. 0 \in T
  <2> DEFINE f == [n \in 0..0 |-> <<>>]
  <2>1. IsUpTo(f, seq, kept, 0)
    BY DEF IsUpTo
  <2> QED BY <2>1
<1>2. ASSUME NEW i \in T \cap Nat PROVE i + 1 \in T
  <2>1. PICK f : IsUpTo(f, seq, kept, i)
    OBVIOUS
  <2> DEFINE e == IF i + 1 \in kept THEN Append(f[i], seq[i + 1]) ELSE f[i]
  <2> DEFINE g == [n \in 0..(i + 1) |-> IF n = i + 1 THEN e ELSE f[n]]
  <2> HIDE DEF e
  <2>2. \A n \in 0..(i + 1) :
           g[n] = IF n = 0 THEN <<>>
                  ELSE IF n \in kept THEN Append(g[n-1], seq[n]) ELSE g[n-1]
    <3> SUFFICES ASSUME NEW n \in 0..(i + 1)
                 PROVE  g[n] = IF n = 0 THEN <<>>
                               ELSE IF n \in kept THEN Append(g[n-1], seq[n]) ELSE g[n-1]
      OBVIOUS
    <3>1. CASE n = i + 1
      <4>1. g[n] = e /\ n # 0 /\ n - 1 = i /\ g[n-1] = f[i]
        BY <3>1
      <4> QED BY <3>1, <4>1 DEF e
    <3>2. CASE n = 0
      <4>1. g[n] = f[n]
        BY <3>2
      <4> QED BY <2>1, <3>2, <4>1 DEF IsUpTo
    <3>3. CASE n \in 1..i
      <4>1. g[n] = f[n] /\ g[n-1] = f[n-1]
        BY <3>3
      <4>2. n \in 0..i /\ n # 0
        BY <3>3
      <4>3. f[n] = IF n \in kept THEN Append(f[n-1], seq[n]) ELSE f[n-1]
        BY <2>1, <4>2 DEF IsUpTo
      <4> HIDE DEF g
      <4> QED BY <4>1, <4>2, <4>3
    <3> QED BY <3>1, <3>2, <3>3
  <2>3. g = [n \in 0..(i + 1) |-> g[n]]
    OBVIOUS
  <2>4. IsUpTo(g, seq, kept, i + 1)
    <3> HIDE DEF g
    <3> QED BY <2>2, <2>3 DEF IsUpTo
  <2> QED BY <2>4
<1>3. Nat \subseteq T
  <2> HIDE DEF T
  <2> QED BY <1>1, <1>2, NatSets
<1> QED BY <1>3

(* Only takes the elements at the positions there are in kept.             *)
LEMMA OnlyTakes ==
    ASSUME NEW S, NEW seq \in Seq(S), NEW kept
    PROVE  \E h : /\ Lists(h, kept, Len(seq))
                  /\ Only(seq, kept) = Taken(seq, h)
                  /\ Only(seq, kept) \in Seq(S)
<1> DEFINE L == Len(seq)
           F == CHOOSE f : IsUpTo(f, seq, kept, L)
<1>0. L \in Nat /\ \A n \in 1..L : seq[n] \in S
  BY LenProperties, ElementOfSeq
<1> HIDE DEF L
<1>1. IsUpTo(F, seq, kept, L)
  BY <1>0, UpToExists
<1>2. Only(seq, kept) = F[L]
  BY DEF Only, IsUpTo, L
<1> HIDE DEF F
<1> DEFINE T == {i \in Nat : i <= L =>
                    \E h : /\ Lists(h, kept, i)
                           /\ F[i] = Taken(seq, h)
                           /\ F[i] \in Seq(S)}
<1>3. 0 \in T
  <2>1. F[0] = <<>>
    BY <1>0, <1>1 DEF IsUpTo
  <2>2. Taken(seq, <<>>) = <<>> /\ <<>> \in Seq(S)
    BY DEF Taken
  <2> QED BY <2>1, <2>2, ListsNone
<1>4. ASSUME NEW i \in T \cap Nat PROVE i + 1 \in T
  <2> SUFFICES ASSUME i + 1 <= L
               PROVE  \E h : /\ Lists(h, kept, i + 1)
                             /\ F[i + 1] = Taken(seq, h)
                             /\ F[i + 1] \in Seq(S)
    OBVIOUS
  <2>1. PICK h : Lists(h, kept, i) /\ F[i] = Taken(seq, h) /\ F[i] \in Seq(S)
    BY <1>0
  <2>2. F[i + 1] = IF i + 1 \in kept THEN Append(F[i], seq[i + 1]) ELSE F[i]
    <3>1. i + 1 \in 0..L /\ i + 1 # 0 /\ (i + 1) - 1 = i
      BY <1>0
    <3> QED BY <1>1, <3>1 DEF IsUpTo
  <2>3. CASE i + 1 \in kept
    <3>1. seq[i + 1] \in S /\ \A k \in kept \cap 1..(i + 1) : seq[k] \in S
      BY <1>0
    <3>2. Lists(Append(h, i + 1), kept, i + 1)
      BY <2>1, <2>3, ListsNext
    <3>3. Taken(seq, Append(h, i + 1)) = Append(Taken(seq, h), seq[i + 1])
      <4>1. i \in Nat /\ i + 1 <= Len(seq)
        BY DEF L
      <4> HIDE DEF T
      <4> QED BY <2>1, <2>3, <4>1, TakenNext
    <3>4. Append(F[i], seq[i + 1]) \in Seq(S)
      BY <2>1, <3>1, AppendProperties
    <3> QED BY <2>1, <2>2, <2>3, <3>2, <3>3, <3>4
  <2>4. CASE i + 1 \notin kept
    BY <2>1, <2>2, <2>4, ListsNext
  <2> QED BY <2>3, <2>4
<1>5. Nat \subseteq T
  <2> HIDE DEF T
  <2> QED BY <1>3, <1>4, NatSets
<1> QED BY <1>0, <1>2, <1>5 DEF L

(* f is what FlattenSeq makes of the sequences up to i.                    *)
IsFlatUpTo(f, seqs, i) ==
    f = [n \in 1..i |-> IF n = 1 THEN seqs[n] ELSE f[n-1] \o seqs[n]]

(* There is a function as FlattenSeq defines it.                           *)
LEMMA FlatExists ==
    ASSUME NEW seqs
    PROVE  \A i \in Nat : \E f : IsFlatUpTo(f, seqs, i)
<1> DEFINE T == {i \in Nat : \E f : IsFlatUpTo(f, seqs, i)}
<1>1. 0 \in T
  <2> DEFINE f == [n \in 1..0 |-> seqs[n]]
  <2>1. IsFlatUpTo(f, seqs, 0)
    BY DEF IsFlatUpTo
  <2> QED BY <2>1
<1>2. ASSUME NEW i \in T \cap Nat PROVE i + 1 \in T
  <2>1. PICK f : IsFlatUpTo(f, seqs, i)
    OBVIOUS
  <2> DEFINE e == IF i + 1 = 1 THEN seqs[i + 1] ELSE f[i] \o seqs[i + 1]
             g == [n \in 1..(i + 1) |-> IF n = i + 1 THEN e ELSE f[n]]
  <2> HIDE DEF e
  <2>2. \A n \in 1..(i + 1) : g[n] = IF n = 1 THEN seqs[n] ELSE g[n-1] \o seqs[n]
    <3> SUFFICES ASSUME NEW n \in 1..(i + 1)
                 PROVE  g[n] = IF n = 1 THEN seqs[n] ELSE g[n-1] \o seqs[n]
      OBVIOUS
    <3>1. CASE n = i + 1
      <4>1. g[n] = e /\ n - 1 = i /\ (n # 1 => g[n-1] = f[i])
        BY <3>1
      <4> QED BY <3>1, <4>1 DEF e
    <3>2. CASE n \in 1..i
      <4>1. g[n] = f[n] /\ (n # 1 => g[n-1] = f[n-1])
        BY <3>2
      <4>2. f[n] = IF n = 1 THEN seqs[n] ELSE f[n-1] \o seqs[n]
        BY <2>1, <3>2 DEF IsFlatUpTo
      <4> HIDE DEF g
      <4> QED BY <4>1, <4>2
    <3> QED BY <3>1, <3>2
  <2>3. g = [n \in 1..(i + 1) |-> g[n]]
    OBVIOUS
  <2>4. IsFlatUpTo(g, seqs, i + 1)
    <3> HIDE DEF g
    <3> QED BY <2>2, <2>3 DEF IsFlatUpTo
  <2> QED BY <2>4
<1>3. Nat \subseteq T
  <2> HIDE DEF T
  <2> QED BY <1>1, <1>2, NatSets
<1> QED BY <1>3

(* Sequences of one element or none: their elements, in order.             *)
LEMMA FlattenTakes ==
    ASSUME NEW S, NEW seqs \in Seq(Seq(S)), seqs # <<>>,
           \A n \in DOMAIN seqs : seqs[n] = <<>> \/ \E x \in S : seqs[n] = <<x>>
    PROVE  \E h : /\ Lists(h, {n \in DOMAIN seqs : seqs[n] # <<>>}, Len(seqs))
                  /\ FlattenSeq(seqs) = [n \in 1..Len(h) |-> seqs[h[n]][1]]
                  /\ FlattenSeq(seqs) \in Seq(S)
<1> DEFINE L == Len(seqs)
           F == CHOOSE f : IsFlatUpTo(f, seqs, L)
           K == {n \in DOMAIN seqs : seqs[n] # <<>>}
           H == [n \in 1..L |-> seqs[n][1]]
           V == {H[n] : n \in 1..L}
<1>0. L \in Nat \ {0} /\ DOMAIN seqs = 1..L
  BY LenProperties, EmptySeq
<1> HIDE DEF L
<1>1. IsFlatUpTo(F, seqs, L)
  BY <1>0, FlatExists
<1>2. FlattenSeq(seqs) = F[L]
  <2>1. FlattenSeq(seqs) = LET flatten == CHOOSE f : IsFlatUpTo(f, seqs, L) IN flatten[L]
    BY <1>0 DEF FlattenSeq, IsFlatUpTo, L
  <2> QED BY <2>1
<1> HIDE DEF F
<1>3. H \in Seq(V) /\ Len(H) = L
  BY <1>0
<1>4. \A n \in K : H[n] \in S /\ seqs[n] = <<H[n]>>
  BY <1>0
<1> HIDE DEF K, H, V
<1> DEFINE T == {i \in Nat : i + 1 <= L =>
                    \E h : /\ Lists(h, K, i + 1)
                           /\ F[i + 1] = Taken(H, h)
                           /\ F[i + 1] \in Seq(S)}
<1>5. 0 \in T
  <2>1. F[1] = seqs[1]
    BY <1>0, <1>1 DEF IsFlatUpTo
  <2>2. CASE 1 \in K
    <3> DEFINE h == <<1>>
    <3>1. Lists(h, K, 1)
      BY <2>2 DEF Lists
    <3>2. Taken(H, h) = <<H[1]>>
      BY DEF Taken
    <3>3. F[1] = Taken(H, h) /\ F[1] \in Seq(S)
      BY <1>4, <2>1, <2>2, <3>2
    <3> QED BY <3>1, <3>3
  <2>3. CASE 1 \notin K
    <3> DEFINE h == <<>>
    <3>1. Lists(h, K, 1)
      BY <2>3 DEF Lists
    <3>2. Taken(H, h) = <<>>
      BY DEF Taken
    <3>3. F[1] = <<>>
      BY <1>0, <2>1, <2>3 DEF K
    <3>4. F[1] = Taken(H, h) /\ F[1] \in Seq(S)
      BY <3>2, <3>3
    <3> HIDE DEF h
    <3>5. 0 + 1 = 1
      OBVIOUS
    <3> QED BY <3>1, <3>4, <3>5
  <2> QED BY <2>2, <2>3
<1>6. ASSUME NEW i \in T \cap Nat PROVE i + 1 \in T
  <2> DEFINE k == i + 1
  <2> SUFFICES ASSUME k + 1 <= L
               PROVE  \E h : /\ Lists(h, K, k + 1)
                             /\ F[k + 1] = Taken(H, h)
                             /\ F[k + 1] \in Seq(S)
    OBVIOUS
  <2>1. PICK h : Lists(h, K, k) /\ F[k] = Taken(H, h) /\ F[k] \in Seq(S)
    BY <1>0
  <2>2. F[k + 1] = F[k] \o seqs[k + 1]
    <3>1. k + 1 \in 1..L /\ k + 1 # 1 /\ (k + 1) - 1 = k
      BY <1>0
    <3> HIDE DEF k
    <3> QED BY <1>1, <3>1 DEF IsFlatUpTo
  <2>k. k \in Nat /\ k + 1 <= Len(H)
    BY <1>3
  <2> HIDE DEF k
  <2>3. CASE k + 1 \in K
    <3>1. H[k + 1] \in S /\ seqs[k + 1] = <<H[k + 1]>>
      BY <1>4, <2>3
    <3>2. Lists(Append(h, k + 1), K, k + 1)
      BY <2>1, <2>3, <2>k, ListsNext
    <3>3. Taken(H, Append(h, k + 1)) = Append(Taken(H, h), H[k + 1])
      <4> HIDE DEF T
      <4> QED BY <1>3, <2>1, <2>3, <2>k, TakenNext
    <3>4. /\ Append(F[k], H[k + 1]) \in Seq(S)
          /\ Append(F[k], H[k + 1]) = F[k] \o <<H[k + 1]>>
      BY <2>1, <3>1, AppendProperties, AppendIsConcat
    <3> QED BY <2>1, <2>2, <3>1, <3>2, <3>3, <3>4
  <2>4. CASE k + 1 \notin K
    <3>1. seqs[k + 1] = <<>>
      BY <1>0, <1>3, <2>4, <2>k DEF K
    <3>2. F[k] \o <<>> = F[k]
      BY <2>1, ConcatEmptySeq
    <3>3. Lists(h, K, k + 1)
      BY <2>1, <2>4, <2>k, ListsNext
    <3> QED BY <2>1, <2>2, <3>1, <3>2, <3>3
  <2> QED BY <2>3, <2>4
<1>7. Nat \subseteq T
  <2> HIDE DEF T
  <2> QED BY <1>5, <1>6, NatSets
<1>8. PICK h : Lists(h, K, L) /\ F[L] = Taken(H, h) /\ F[L] \in Seq(S)
  <2>1. L - 1 \in T /\ (L - 1) + 1 = L
    <3> HIDE DEF T
    <3> QED BY <1>0, <1>7
  <2> QED BY <1>0, <2>1
<1>9. Taken(H, h) = [n \in 1..Len(h) |-> seqs[h[n]][1]]
  <2>1. \A n \in 1..Len(h) : h[n] \in 1..L
    BY <1>0, <1>8, ListsFacts
  <2> QED BY <2>1 DEF Taken, H
<1> QED BY <1>2, <1>8, <1>9 DEF K, L

-----------------------------------------------------------------------------
(* The fields of runs, and the greatest of positions.                      *)

(* The greatest of some positions.                                         *)
LEMMA MaxOfPositions ==
    ASSUME NEW n \in Nat, NEW s \in SUBSET (1..n), s # {}
    PROVE  Max(s) \in s /\ \A m \in s : m <= Max(s)
<1> DEFINE T == {i \in Nat : \A t \in SUBSET (1..i) : t # {} =>
                    \E x \in t : \A y \in t : x >= y}
<1>1. 0 \in T
  <2>1. 1..0 = {}
    OBVIOUS
  <2>2. \A t \in SUBSET (1..0) : t = {}
    BY <2>1
  <2> QED BY <2>2
<1>2. ASSUME NEW i \in T \cap Nat PROVE i + 1 \in T
  <2> SUFFICES ASSUME NEW t \in SUBSET (1..(i + 1)), t # {}
               PROVE  \E x \in t : \A y \in t : x >= y
    OBVIOUS
  <2>1. CASE i + 1 \in t
    BY <2>1
  <2>2. CASE i + 1 \notin t
    <3>1. t \in SUBSET (1..i)
      BY <2>2
    <3> QED BY <3>1
  <2> QED BY <2>1, <2>2
<1>3. Nat \subseteq T
  <2> HIDE DEF T
  <2> QED BY <1>1, <1>2, NatSets
<1>4. \E x \in s : \A y \in s : x >= y
  BY <1>3
<1>5. Max(s) \in s /\ \A y \in s : Max(s) >= y
  BY <1>4 DEF Max
<1> QED BY <1>5

(* The smaller of two numbers.                                             *)
LEMMA MinOfTwo ==
    ASSUME NEW a \in Nat, NEW b \in Nat
    PROVE  Min({a, b}) = IF a <= b THEN a ELSE b
<1>1. (IF a <= b THEN a ELSE b) \in {a, b} /\ \A y \in {a, b} : (IF a <= b THEN a ELSE b) <= y
  OBVIOUS
<1>2. \A x \in {a, b} : (\A y \in {a, b} : x <= y) => x = IF a <= b THEN a ELSE b
  OBVIOUS
<1> QED BY <1>1, <1>2 DEF Min

(* What sheetMap holds for a user.                                         *)
LEMMA RowIndexFacts ==
    ASSUME NEW rows \in Seq(Row), NEW u
    PROVE  /\ RowIndex(u, rows) \in Nat
           /\ RowIndex(u, rows) = 0 <=> RowsOf(u, rows) = {}
           /\ RowIndex(u, rows) # 0 => RowIndex(u, rows) \in RowsOf(u, rows)
<1>1. Len(rows) \in Nat /\ DOMAIN rows = 1..Len(rows)
  BY LenProperties
<1>2. RowsOf(u, rows) \in SUBSET (1..Len(rows))
  BY <1>1 DEF RowsOf
<1>3. RowsOf(u, rows) # {} => Max(RowsOf(u, rows)) \in RowsOf(u, rows)
  BY <1>1, <1>2, MaxOfPositions
<1> QED BY <1>1, <1>2, <1>3 DEF RowIndex

(* What a run has read or is to write, each by itself.                     *)
LEMMA RunFields ==
    ASSUME NEW l \in RunState
    PROVE  /\ \A v \in Seq(Row) : [l EXCEPT !.rows = v] \in RunState
           /\ \A v \in Direction : [l EXCEPT !.direction = v] \in RunState
           /\ \A v \in Seq(Op) : [l EXCEPT !.ops = v] \in RunState
           /\ \A v \in SUBSET User : [l EXCEPT !.pushed = v] \in RunState
           /\ \A v \in [User -> Value \cup {None}] : [l EXCEPT !.users = v] \in RunState
           /\ \A v \in Seq(Row) : [l EXCEPT !.writes = v] \in RunState
           /\ \A v \in Seq(Found) : [l EXCEPT !.found = v] \in RunState
           /\ \A v \in Seq(Mark) : [l EXCEPT !.marks = v] \in RunState
           /\ \A v \in {"none", "running", "success", "failed"} : [l EXCEPT !.job = v] \in RunState
           /\ \A v \in BOOLEAN : [l EXCEPT !.configured = v] \in RunState
           /\ \A v \in BOOLEAN : [l EXCEPT !.quiet = v] \in RunState
           /\ \A v \in BOOLEAN : [l EXCEPT !.aligned = v] \in RunState
           /\ \A v \in SUBSET Row : [l EXCEPT !.due = v] \in RunState
           /\ \A v \in [User -> Value \cup {None}] : [l EXCEPT !.before = v] \in RunState
           /\ \A v \in Kind : [l EXCEPT !.kind = v] \in RunState
BY DEF RunState

(* A run that has read nothing.                                            *)
LEMMA NoRunType == NoRun \in RunState
<1> DEFINE none == [u \in User |-> None]
<1>1. none \in [User -> Value \cup {None}]
  OBVIOUS
<1> HIDE DEF none
<1> DEFINE rs == Seq(Row)
           os == Seq(Op)
           fs == Seq(Found)
           ms == Seq(Mark)
<1>2. <<>> \in rs /\ <<>> \in os /\ <<>> \in fs /\ <<>> \in ms
  BY EmptySeq
<1> HIDE DEF rs, os, fs, ms
<1>3. {} \in SUBSET User /\ {} \in SUBSET Row
  OBVIOUS
<1>4. [kind |-> "push", direction |-> "never", rows |-> <<>>, ops |-> <<>>,
          pushed |-> {}, users |-> none, writes |-> <<>>,
          found |-> <<>>, marks |-> <<>>, job |-> "none",
          configured |-> FALSE, quiet |-> FALSE, aligned |-> TRUE, due |-> {},
          before |-> none] \in
      [kind : Kind, direction : Direction, rows : rs,
     ops : os, pushed : SUBSET User,
     users : [User -> Value \cup {None}],
     writes : rs, found : fs, marks : ms,
     job : {"none", "running", "success", "failed"},
     configured : BOOLEAN, quiet : BOOLEAN, aligned : BOOLEAN, due : SUBSET Row,
     before : [User -> Value \cup {None}]]
  <2> HIDE <1>1
  <2>1. none \in [User -> Value \cup {None}]
    BY <1>1
  <2> QED BY <1>2, <1>3, <2>1 DEF Kind, Direction
<1> QED BY <1>4 DEF NoRun, RunState, none, rs, os, fs, ms

(* A run that is to write has something to write.                          *)
RunsReady ==
    \A r \in Run :
        /\ At(r, "write") => runs[r].writes # <<>>
        /\ At(r, "flush") => runs[r].ops # <<>>

TypeInv == TypeOK /\ RunsReady

(* A run goes on.                                                          *)
LEMMA RunMoves ==
    ASSUME TypeOK, RunsReady, NEW r \in Run, NEW l \in RunState, NEW s \in RunStep,
           Set(r, l), Goto(r, s),
           s = "write" => l.writes # <<>>, s = "flush" => l.ops # <<>>
    PROVE  runs' \in [Run -> RunState] /\ step' \in [Run -> RunStep] /\ RunsReady'
<1>1. runs \in [Run -> RunState] /\ step \in [Run -> RunStep]
  BY DEF TypeOK
<1>2. runs' \in [Run -> RunState] /\ step' \in [Run -> RunStep]
  BY <1>1 DEF Set, Goto
<1>3. ASSUME NEW q \in Run
      PROVE  /\ At(q, "write")' => runs'[q].writes # <<>>
             /\ At(q, "flush")' => runs'[q].ops # <<>>
  <2>1. CASE q = r
    BY <1>1, <2>1 DEF Set, Goto, At
  <2>2. CASE q # r
    BY <1>1, <2>2 DEF Set, Goto, At, RunsReady
  <2> QED BY <2>1, <2>2
<1> QED BY <1>2, <1>3 DEF RunsReady

(* Whatever moves elsewhere, the runs keep what they have read.            *)
LEMMA DisturbKeepsRuns ==
    ASSUME TypeOK, RunsReady, Disturb, step' = step
    PROVE  runs' \in [Run -> RunState] /\ RunsReady'
<1>1. \A q \in Run : runs'[q] = [runs[q] EXCEPT !.quiet = FALSE]
  BY DEF Disturb
<1>2. \A q \in Run : runs'[q] \in RunState
  BY <1>1, RunFields DEF TypeOK
<1>3. \A q \in Run : runs[q] \in RunState
  BY DEF TypeOK
<1>4. \A q \in Run : runs'[q].writes = runs[q].writes /\ runs'[q].ops = runs[q].ops
  BY <1>1, <1>3 DEF RunState
<1>5. runs' \in [Run -> RunState]
  BY <1>2 DEF Disturb
<1> QED BY <1>4, <1>5 DEF RunsReady, At

(* The initial states.                                                     *)
LEMMA InitTypes == ASSUME Init PROVE TypeInv
<1>1. Created[1] \in User /\ Blank \in Value
  <2>1. Len(Created) \in Nat /\ Len(Created) # 0
    BY CreatedAssumption, LenProperties, EmptySeq
  <2> QED BY <2>1, CreatedAssumption, ElementOfSeq, ValueAssumption
<1>2. config \in [direction : Direction, policy : Policy]
  BY ConfigAssumption DEF Init
<1>3. db \in [User -> UserRow]
  <2>1. [state : {"none", "live"}, value : Initial] \subseteq UserRow
    BY ValueAssumption DEF UserRow
  <2> HIDE DEF UserRow
  <2> QED BY <2>1 DEF Init
<1>4. sheet \in Seq(Row)
  <2> DEFINE R == Row
  <2>1. <<>> \in Seq(R)
    <3> HIDE DEF R
    <3> QED BY EmptySeq
  <2> QED BY <2>1 DEF Init
<1>5. records \in [User -> Record]
  BY DEF Init, Record
<1>6. conflicts \in [Conflict -> Found]
  BY <1>1 DEF Init, NoConflict, Found
<1>7. verdicts \in [Conflict -> Verdict]
  BY DEF Init, NoVerdict, Verdict
<1>8. step \in [Run -> RunStep]
  BY DEF Init, RunStep
<1>9. runs \in [Run -> RunState]
  <2> HIDE DEF NoRun, RunState
  <2> QED BY NoRunType DEF Init
<1>10. resolutions \in [Resolver -> Resolution]
  BY DEF Init, NoResolution, Resolution, Choice
<1>11. disturbances \in 0..MaxDisturbances
  BY FaultAssumption DEF Init
<1>12. RunsReady
  BY DEF Init, RunsReady, At
<1>14. TypeOK
  BY <1>2, <1>3, <1>4, <1>5, <1>6, <1>7, <1>8, <1>9, <1>10, <1>11 DEF TypeOK, Init
<1> QED BY <1>12, <1>14 DEF TypeInv

(* The statements that write nothing but what the run remembers.           *)
LEMMA AcquireTypes ==
    ASSUME TypeInv, NEW r \in Run, NEW kind \in Kind, Acquire(r, kind)
    PROVE  runs' \in [Run -> RunState] /\ step' \in [Run -> RunStep] /\ RunsReady'
<1>1. ChangedInSheet \in SUBSET Row
  BY DEF ChangedInSheet
<1>2. Synchronised \in [User -> Value \cup {None}]
  <2>1. \A u \in User : db[u].value \in Value
    BY DEF TypeInv, TypeOK, UserRow
  <2> QED BY <2>1 DEF Synchronised
<1> DEFINE l == [NoRun EXCEPT !.kind = kind,
                              !.quiet = \A p \in Run \ {r} : ~Active(p),
                              !.due = ChangedInSheet,
                              !.before = Synchronised]
<1>3. l \in RunState
  <2> DEFINE l1 == [NoRun EXCEPT !.kind = kind]
             b == \A p \in Run \ {r} : ~Active(p)
             l2 == [l1 EXCEPT !.quiet = b]
             l3 == [l2 EXCEPT !.due = ChangedInSheet]
             l4 == [l3 EXCEPT !.before = Synchronised]
  <2>1. l1 \in RunState
    BY NoRunType, RunFields
  <2>2. b \in BOOLEAN
    OBVIOUS
  <2> HIDE DEF l1, b
  <2>3. l2 \in RunState
    BY <2>1, <2>2, RunFields
  <2> HIDE DEF l2
  <2>4. l3 \in RunState
    BY <1>1, <2>3, RunFields
  <2> HIDE DEF l3
  <2>5. l4 \in RunState
    BY <1>2, <2>4, RunFields
  <2>6. l4 = l
    BY NoRunType DEF l1, l2, l3, b
  <2> QED BY <2>5, <2>6
<1> HIDE DEF l
<1>4. \A q \in Run : runs[q] \in RunState
  BY DEF TypeInv, TypeOK
<1>5. \A q \in Run : runs'[q] = IF q = r THEN l ELSE [runs[q] EXCEPT !.quiet = FALSE]
  BY DEF Acquire, l
<1>6. \A q \in Run : runs'[q] \in RunState
  BY <1>3, <1>4, <1>5, RunFields
<1>7. \A q \in Run \ {r} : runs'[q].writes = runs[q].writes /\ runs'[q].ops = runs[q].ops
  BY <1>4, <1>5 DEF RunState
<1>8. runs' \in [Run -> RunState]
  BY <1>6 DEF Acquire
<1>9. step' \in [Run -> RunStep] /\ step'[r] = "job" /\ \A q \in Run \ {r} : step'[q] = step[q]
  BY DEF Acquire, Goto, TypeInv, TypeOK, RunStep
<1> QED BY <1>7, <1>8, <1>9 DEF TypeInv, RunsReady, At

-----------------------------------------------------------------------------
(* What is pushed.                                                         *)

(* What is done about one user: nothing, or one operation.                 *)
LEMMA OpsForOne ==
    ASSUME TypeOK, NEW u \in User, NEW rows \in Seq(Row), NEW direction
    PROVE  \/ OpsFor(u, rows, direction) = <<>>
           \/ \E op \in Op : OpsFor(u, rows, direction) = <<op>>
<1> DEFINE i == RowIndex(u, rows)
           value == IF Pushes(direction) THEN db[u].value ELSE None
           op(kind, v) == [kind |-> kind, row |-> i, user |-> u, value |-> v]
<1>1. i \in Nat
  BY RowIndexFacts
<1>2. value \in Value \cup {None} /\ None \in Value \cup {None}
  BY DEF TypeOK, UserRow
<1>3. db[u].state \in {"none", "live", "deleted"}
  BY DEF TypeOK, UserRow
<1> HIDE DEF i, value
<1>4. \A kind \in {"add", "update", "delete"}, v \in Value \cup {None} : op(kind, v) \in Op
  BY <1>1 DEF Op
<1>5. OpsFor(u, rows, direction) \in
        {<<>>, <<op("delete", None)>>, <<op("add", value)>>, <<op("update", value)>>}
  BY <1>1, <1>3 DEF OpsFor, Live, i, value
<1> HIDE DEF op
<1> QED BY <1>2, <1>4, <1>5

(* The operations of a run: those of the users it does something about, in *)
(* the order of Created.                                                   *)
OpsOf(rows, direction) == [i \in DOMAIN Created |-> OpsFor(Created[i], rows, direction)]
(* The users something is done about, by their position in Created.        *)
Busy(rows, direction) == {n \in DOMAIN Created : OpsFor(Created[n], rows, direction) # <<>>}

OpsList(ops, h, rows, direction) ==
    /\ ops = [n \in 1..Len(h) |-> OpsFor(Created[h[n]], rows, direction)[1]]
    /\ ops \in Seq(Op)

(* FlattenSeq leaves those operations, in that order.                      *)
LEMMA OpsTaken ==
    ASSUME TypeOK, NEW rows \in Seq(Row), NEW direction
    PROVE  \E h : /\ Lists(h, Busy(rows, direction), Len(Created))
                  /\ OpsList(FlattenSeq(OpsOf(rows, direction)), h, rows, direction)
<1> DEFINE seqs == OpsOf(rows, direction)
           f(n) == OpsFor(Created[n], rows, direction)
           S == Op
           L == Len(Created)
<1>1. L \in Nat \ {0} /\ DOMAIN Created = 1..L /\ \A n \in 1..L : Created[n] \in User
  BY CreatedAssumption, LenProperties, EmptySeq, ElementOfSeq
<1>2. \A n \in 1..L : f(n) = <<>> \/ \E x \in S : f(n) = <<x>>
  BY <1>1, OpsForOne
<1>3. seqs = [n \in 1..L |-> f(n)]
  BY <1>1 DEF OpsOf
<1> HIDE DEF seqs, f, S, L
<1>4. \A n \in 1..L : f(n) \in Seq(S)
  <2>1. <<>> \in Seq(S) /\ \A x \in S : <<x>> \in Seq(S)
    OBVIOUS
  <2> QED BY <1>2, <2>1
<1>5. seqs \in Seq(Seq(S)) /\ Len(seqs) = L /\ DOMAIN seqs = 1..L /\ seqs # <<>>
  BY <1>1, <1>3, <1>4
<1>6. \A n \in DOMAIN seqs : seqs[n] = <<>> \/ \E x \in S : seqs[n] = <<x>>
  BY <1>2, <1>3
<1>7. PICK h : /\ Lists(h, {n \in DOMAIN seqs : seqs[n] # <<>>}, Len(seqs))
               /\ FlattenSeq(seqs) = [n \in 1..Len(h) |-> seqs[h[n]][1]]
               /\ FlattenSeq(seqs) \in Seq(S)
  BY <1>5, <1>6, FlattenTakes
<1>8. {n \in DOMAIN seqs : seqs[n] # <<>>} = {n \in DOMAIN Created : f(n) # <<>>}
  BY <1>1, <1>3, <1>5
<1>9. Lists(h, {n \in DOMAIN Created : f(n) # <<>>}, L)
  BY <1>5, <1>7, <1>8
<1>10. [n \in 1..Len(h) |-> seqs[h[n]][1]] = [n \in 1..Len(h) |-> f(h[n])[1]]
  <2>1. \A n \in 1..Len(h) : h[n] \in 1..L
    BY <1>1, <1>9, ListsFacts
  <2> QED BY <1>3, <2>1
<1>11. OpsList(FlattenSeq(OpsOf(rows, direction)), h, rows, direction)
  BY <1>7, <1>10 DEF seqs, f, S, OpsList
<1>12. Lists(h, Busy(rows, direction), Len(Created))
  BY <1>9 DEF f, L, Busy
<1> QED BY <1>11, <1>12

(* What is pushed is a sequence of operations.                             *)
LEMMA ReadUsersTypes ==
    ASSUME TypeInv, NEW r \in Run, ReadUsers(r)
    PROVE  runs' \in [Run -> RunState] /\ step' \in [Run -> RunStep] /\ RunsReady'
<1> DEFINE ops == FlattenSeq(OpsOf(runs[r].rows, runs[r].direction))
           l1 == [runs[r] EXCEPT !.rows = <<>>]
           l == [l1 EXCEPT !.ops = ops]
           s == IF ops = <<>> THEN "recordPush" ELSE "flush"
<1>1. runs[r] \in RunState /\ runs[r].rows \in Seq(Row) /\ TypeOK /\ RunsReady
  BY DEF TypeInv, TypeOK, RunState
<1>2. ops \in Seq(Op)
  BY <1>1, OpsTaken DEF OpsList
<1>3. Set(r, l) /\ Goto(r, s)
  BY DEF ReadUsers, OpsOf
<1>4. <<>> \in Seq(Row)
  <2> DEFINE R == Row
  <2>1. <<>> \in Seq(R)
    <3> HIDE DEF R
    <3> QED BY EmptySeq
  <2> QED BY <2>1
<1> HIDE DEF ops
<1>5. l1 \in RunState
  BY <1>1, <1>4, RunFields
<1> HIDE DEF l1
<1>6. l \in RunState /\ l.ops = ops
  <2>1. l \in RunState
    BY <1>2, <1>5, RunFields
  <2> QED BY <1>5, <2>1 DEF RunState
<1> HIDE DEF l
<1>7. s \in RunStep /\ s # "write" /\ (s = "flush" => l.ops # <<>>)
  BY <1>6 DEF RunStep
<1> HIDE DEF s
<1> QED BY <1>1, <1>3, <1>6, <1>7, RunMoves

-----------------------------------------------------------------------------
(* Batches, and what they make of the rows.                                *)

(* A batch is the beginning of the operations, the rest is the end.        *)
LEMMA BatchFacts ==
    ASSUME NEW ops \in Seq(Op), ops # <<>>
    PROVE  /\ BatchOf(ops) \in Seq(Op) /\ RestOf(ops) \in Seq(Op)
           /\ Len(BatchOf(ops)) \in Nat \ {0} /\ Len(BatchOf(ops)) <= Len(ops)
           /\ \A n \in 1..Len(BatchOf(ops)) : BatchOf(ops)[n] = ops[n]
           /\ Len(RestOf(ops)) \in Nat
           /\ Len(BatchOf(ops)) + Len(RestOf(ops)) = Len(ops)
           /\ \A n \in 1..Len(RestOf(ops)) :
                 RestOf(ops)[n] = ops[Len(BatchOf(ops)) + n]
<1> DEFINE S == Op
           L == Len(ops)
           m == Min({BatchSize, L})
<1>1. L \in Nat \ {0} /\ \A n \in 1..L : ops[n] \in S
  BY LenProperties, EmptySeq, ElementOfSeq
<1>2. BatchSize \in Nat \ {0}
  BY BatchAssumption
<1> HIDE DEF L, S
<1>3. m = IF BatchSize <= L THEN BatchSize ELSE L
  BY <1>1, <1>2, MinOfTwo
<1>4. m \in Nat \ {0} /\ m <= L
  BY <1>1, <1>2, <1>3
<1> HIDE DEF m
<1>5. /\ SubSeq(ops, 1, m) \in Seq(S)
      /\ Len(SubSeq(ops, 1, m)) = m
      /\ \A n \in 1..m : SubSeq(ops, 1, m)[n] = ops[n]
  <2>1. \A n \in 1..m : ops[n] \in S
    BY <1>1, <1>4
  <2>2. 1 \in Int /\ m \in Int
    BY <1>4
  <2>3. /\ SubSeq(ops, 1, m) \in Seq(S)
        /\ Len(SubSeq(ops, 1, m)) = IF 1 <= m THEN m - 1 + 1 ELSE 0
        /\ \A n \in 1..(m - 1 + 1) : SubSeq(ops, 1, m)[n] = ops[1 + n - 1]
    BY <2>1, <2>2, SubSeqProperties
  <2> QED BY <1>4, <2>3
<1>6. BatchOf(ops) = SubSeq(ops, 1, m)
  BY DEF BatchOf, m, L
<1>7. CASE BatchSize < L
  <2>1. m = BatchSize
    BY <1>1, <1>2, <1>3, <1>7
  <2>2. \A n \in (m + 1)..L : ops[n] \in S
    BY <1>1, <1>4
  <2>3. m + 1 \in Int /\ L \in Int
    BY <1>1, <1>4
  <2>4. /\ SubSeq(ops, m + 1, L) \in Seq(S)
        /\ Len(SubSeq(ops, m + 1, L)) = IF m + 1 <= L THEN L - (m + 1) + 1 ELSE 0
        /\ \A n \in 1..(L - (m + 1) + 1) : SubSeq(ops, m + 1, L)[n] = ops[m + 1 + n - 1]
    BY <2>2, <2>3, SubSeqProperties
  <2>5. RestOf(ops) = SubSeq(ops, m + 1, L)
    BY <2>1 DEF RestOf, L
  <2>6. /\ RestOf(ops) \in Seq(S) /\ Len(RestOf(ops)) = L - m
        /\ \A n \in 1..(L - m) : RestOf(ops)[n] = ops[m + n]
    BY <1>1, <1>4, <1>7, <2>1, <2>4, <2>5
  <2> QED BY <1>1, <1>4, <1>5, <1>6, <1>7, <2>1, <2>6 DEF L, S
<1>8. CASE ~(BatchSize < L)
  <2>1. m = L
    BY <1>1, <1>2, <1>3, <1>8
  <2>2. RestOf(ops) = <<>>
    <3>1. BatchSize + 1 \in Int /\ L \in Int /\ L < BatchSize + 1
      BY <1>1, <1>2, <1>8
    <3> QED BY <3>1, SubSeqEmpty DEF RestOf, L
  <2>3. RestOf(ops) \in Seq(S) /\ Len(RestOf(ops)) = 0
    BY <2>2, EmptySeq
  <2> QED BY <1>1, <1>4, <1>5, <1>6, <2>1, <2>3 DEF L, S
<1> QED BY <1>7, <1>8

(* What an operation makes of a row: with a value, or with the row's own.  *)
CellOf(op, row) == [user |-> op.user, value |-> IF op.value = None THEN row.value ELSE op.value]

(* The fields of an operation, and the rows it may make.                   *)
LEMMA OpFields ==
    ASSUME NEW op \in Op
    PROVE  /\ op.kind \in {"add", "update", "delete"} /\ op.row \in Nat
           /\ op.user \in User /\ op.value \in Value \cup {None}
           /\ \A v \in Value : [user |-> op.user, value |-> v] \in Row
           /\ [user |-> op.user, value |-> IF op.value = None THEN Blank ELSE op.value] \in Row
           /\ \A row \in Row : [user |-> op.user,
                                value |-> IF op.value = None THEN row.value ELSE op.value] \in Row
BY ValueAssumption, NoneAssumption DEF Op, Row

(* What an operation appends, and the operations of a batch that do.       *)
NewCell(op) == [user |-> op.user, value |-> IF op.value = None THEN Blank ELSE op.value]
(* The operations that do not delete.                                      *)
Adding(batch) == {n \in DOMAIN batch : batch[n].kind # "delete"}

(* new is rows, and below them what the listed operations append.          *)
Extends(new, rows, batch, h) ==
    /\ new \in Seq(Row) /\ Len(new) = Len(rows) + Len(h)
    /\ \A i \in 1..Len(rows) : new[i] = rows[i]
    /\ \A n \in 1..Len(h) : new[Len(rows) + n] = NewCell(batch[h[n]])

(* The rows the operations of a batch add are those that do not delete.    *)
LEMMA AddedFacts ==
    ASSUME NEW rows \in Seq(Row), NEW batch \in Seq(Op)
    PROVE  \E h : /\ Lists(h, Adding(batch), Len(batch))
                  /\ Extends(Added(rows, batch), rows, batch, h)
<1> DEFINE K == Adding(batch)
           w == Only(batch, K)
           c(op) == NewCell(op)
           S == Op
           T == Row
           x == [i \in DOMAIN w |-> c(w[i])]
<1> HIDE DEF K
<1>1. PICK h : Lists(h, K, Len(batch)) /\ w = Taken(batch, h) /\ w \in Seq(S)
  <2> HIDE DEF S
  <2>1. batch \in Seq(S)
    BY DEF S
  <2> QED BY <2>1, OnlyTakes
<1>2. Len(batch) \in Nat /\ Len(rows) \in Nat
  BY LenProperties
<1>3. Len(h) \in Nat /\ \A n \in 1..Len(h) : h[n] \in 1..Len(batch)
  BY <1>1, <1>2, ListsFacts
<1>4. \A n \in 1..Len(h) : batch[h[n]] \in S
  BY <1>3, ElementOfSeq
<1>5. \A n \in 1..Len(h) : c(batch[h[n]]) \in T
  BY <1>4, OpFields DEF NewCell
<1> HIDE DEF c, S, T
<1>6. DOMAIN w = 1..Len(h) /\ \A n \in 1..Len(h) : w[n] = batch[h[n]]
  BY <1>1 DEF Taken
<1>7. x = [i \in 1..Len(h) |-> c(batch[h[i]])]
  BY <1>6
<1> HIDE DEF x
<1>8. x \in Seq(T) /\ Len(x) = Len(h) /\ \A n \in 1..Len(h) : x[n] = c(batch[h[n]])
  BY <1>3, <1>5, <1>7
<1>9. Added(rows, batch) = rows \o x
  BY DEF Added, x, w, c, K, NewCell, Adding
<1>10. rows \in Seq(T)
  BY DEF T
<1>11. /\ rows \o x \in Seq(T) /\ Len(rows \o x) = Len(rows) + Len(x)
       /\ \A i \in 1..(Len(rows) + Len(x)) :
             (rows \o x)[i] = IF i <= Len(rows) THEN rows[i] ELSE x[i - Len(rows)]
  BY <1>8, <1>10, ConcatProperties
<1>12. \A i \in 1..Len(rows) : (rows \o x)[i] = rows[i]
  BY <1>2, <1>3, <1>8, <1>11
<1>13. \A n \in 1..Len(h) : (rows \o x)[Len(rows) + n] = c(batch[h[n]])
  BY <1>2, <1>3, <1>8, <1>11
<1>14. /\ Added(rows, batch) \in Seq(T)
       /\ Len(Added(rows, batch)) = Len(rows) + Len(h)
       /\ \A i \in 1..Len(rows) : Added(rows, batch)[i] = rows[i]
       /\ \A n \in 1..Len(h) : Added(rows, batch)[Len(rows) + n] = c(batch[h[n]])
  BY <1>8, <1>9, <1>11, <1>12, <1>13
<1>15. Lists(h, K, Len(batch))
  BY <1>1
<1>16. Extends(Added(rows, batch), rows, batch, h)
  BY <1>14 DEF c, T, Extends
<1> QED BY <1>15, <1>16 DEF K

(* Updates leave the rows where they are.                                  *)
LEMMA UpdatedFacts ==
    ASSUME NEW rows \in Seq(Row), NEW batch \in Seq(Op)
    PROVE  /\ Updated(rows, batch) \in Seq(Row)
           /\ Len(Updated(rows, batch)) = Len(rows)
           /\ \A i \in 1..Len(rows) :
                 LET for == {n \in DOMAIN batch : batch[n].row = i /\ batch[n].kind # "delete"}
                 IN  \/ for = {} /\ Updated(rows, batch)[i] = rows[i]
                     \/ \E n \in for : Updated(rows, batch)[i] = CellOf(batch[n], rows[i])
<1> DEFINE for(i) == {n \in DOMAIN batch : batch[n].row = i /\ batch[n].kind # "delete"}
           S == Op
           T == Row
           x == Updated(rows, batch)
<1>1. Len(batch) \in Nat /\ DOMAIN batch = 1..Len(batch) /\ Len(rows) \in Nat
      /\ DOMAIN rows = 1..Len(rows)
  BY LenProperties
<1>2. \A n \in DOMAIN batch : batch[n] \in Op
  BY <1>1, ElementOfSeq
<1>3. \A i \in 1..Len(rows) : rows[i] \in Row
  BY ElementOfSeq
<1>4. \A i \in 1..Len(rows) : for(i) # {} => Max(for(i)) \in for(i)
  <2> SUFFICES ASSUME NEW i \in 1..Len(rows), for(i) # {} PROVE Max(for(i)) \in for(i)
    OBVIOUS
  <2>1. for(i) \in SUBSET (1..Len(batch))
    BY <1>1
  <2> HIDE DEF for
  <2> QED BY <1>1, <2>1, MaxOfPositions
<1>5. x = [i \in DOMAIN rows |->
             IF for(i) = {} THEN rows[i] ELSE CellOf(batch[Max(for(i))], rows[i])]
  BY DEF Updated, CellOf
<1>6. \A n \in DOMAIN batch, i \in 1..Len(rows) : CellOf(batch[n], rows[i]) \in Row
  BY <1>2, <1>3, OpFields DEF CellOf
<1>7. \A i \in 1..Len(rows) : for(i) \subseteq DOMAIN batch
  OBVIOUS
<1> HIDE DEF x, for, T
<1>8. \A i \in 1..Len(rows) : \/ for(i) = {} /\ x[i] = rows[i]
                              \/ \E n \in for(i) : x[i] = CellOf(batch[n], rows[i])
  BY <1>1, <1>4, <1>5
<1>9. \A i \in 1..Len(rows) : x[i] \in Row
  BY <1>3, <1>6, <1>7, <1>8
<1>10. x = [i \in 1..Len(rows) |-> x[i]]
  BY <1>1, <1>5
<1>11. x \in Seq(T) /\ Len(x) = Len(rows)
  <2>1. \A i \in 1..Len(rows) : x[i] \in T
    BY <1>9 DEF T
  <2>2. x \in [1..Len(rows) -> T]
    BY <1>10, <2>1
  <2> QED BY <1>1, <2>2
<1> QED BY <1>8, <1>11 DEF x, for, T

(* Deleting leaves the rows no operation names, in their order.            *)
Left(rows, batch) == {i \in DOMAIN rows : \A n \in DOMAIN batch : batch[n].row # i}

(* They are what Deleted takes.                                            *)
LEMMA DeletedFacts ==
    ASSUME NEW rows \in Seq(Row), NEW batch \in Seq(Op)
    PROVE  \E h : /\ Lists(h, Left(rows, batch), Len(rows))
                  /\ Deleted(rows, batch) = Taken(rows, h)
                  /\ Deleted(rows, batch) \in Seq(Row)
<1> DEFINE K == Left(rows, batch)
           S == Row
<1>1. rows \in Seq(S)
  OBVIOUS
<1> HIDE DEF K, S
<1>2. PICK h : Lists(h, K, Len(rows)) /\ Only(rows, K) = Taken(rows, h) /\ Only(rows, K) \in Seq(S)
  BY <1>1, OnlyTakes
<1> QED BY <1>2 DEF Deleted, Left, K, S

(* Whatever the first operation asks for, rows come of it.                 *)
LEMMA WrittenType ==
    ASSUME NEW rows \in Seq(Row), NEW batch \in Seq(Op), Len(batch) \in Nat \ {0}
    PROVE  Written(rows, batch) \in Seq(Row)
<1>1. batch[1].kind \in {"add", "update", "delete"}
  <2>1. batch[1] \in Op
    BY ElementOfSeq
  <2> QED BY <2>1, OpFields
<1>2. Added(rows, batch) \in Seq(Row)
  BY AddedFacts DEF Extends
<1>3. Updated(rows, batch) \in Seq(Row)
  BY UpdatedFacts
<1>4. Deleted(rows, batch) \in Seq(Row)
  BY DeletedFacts
<1> QED BY <1>1, <1>2, <1>3, <1>4 DEF Written

-----------------------------------------------------------------------------
(* Steps keep the types.                                                   *)

(* A batch leaves rows in the sheet and operations to follow.              *)
LEMMA FlushTypes ==
    ASSUME TypeInv, NEW r \in Run, NEW answer \in Answers, Flush(r, answer)
    PROVE  /\ runs' \in [Run -> RunState] /\ step' \in [Run -> RunStep] /\ RunsReady'
           /\ sheet' \in Seq(Row)
<1> DEFINE ops == runs[r].ops
           batch == BatchOf(ops)
           rest == RestOf(ops)
           pushed == IF answer \in {"done", "repeated"}
                     THEN runs[r].pushed \cup {op.user : op \in ToSet(batch)}
                     ELSE runs[r].pushed
           quiet == runs[r].quiet /\ answer = "done"
           aligned == runs[r].aligned /\ ~Mixed(batch) /\ ~Shifts(batch, rest)
           l1 == [runs[r] EXCEPT !.ops = rest]
           l2 == [l1 EXCEPT !.pushed = pushed]
           l3 == [l2 EXCEPT !.quiet = quiet]
           l == [l3 EXCEPT !.aligned = aligned]
           s == IF rest = <<>> THEN "recordPush" ELSE "flush"
<1>1. /\ runs[r] \in RunState /\ ops \in Seq(Op) /\ runs[r].pushed \in SUBSET User
      /\ runs[r].quiet \in BOOLEAN /\ runs[r].aligned \in BOOLEAN
      /\ TypeOK /\ RunsReady /\ sheet \in Seq(Row)
  BY DEF TypeInv, TypeOK, RunState
<1>2. ops # <<>>
  BY <1>1 DEF RunsReady, Flush
<1>3. batch \in Seq(Op) /\ rest \in Seq(Op) /\ Len(batch) \in Nat \ {0}
  BY <1>1, <1>2, BatchFacts
<1>4. pushed \in SUBSET User
  <2>1. \A i \in DOMAIN batch : batch[i] \in Op
    BY <1>3, LenProperties, ElementOfSeq
  <2>2. {op.user : op \in ToSet(batch)} \subseteq User
    BY <2>1, OpFields DEF ToSet
  <2> QED BY <1>1, <2>2
<1>5. quiet \in BOOLEAN /\ aligned \in BOOLEAN
  OBVIOUS
<1>6. Set(r, l) /\ Goto(r, s)
  <2>1. Goto(r, s)
    BY DEF Flush
  <2>2. Set(r, [runs[r] EXCEPT !.ops = rest, !.pushed = pushed,
                               !.quiet = quiet, !.aligned = aligned])
    <3>1. runs[r] = [runs[r] EXCEPT !.ops = ops]
      BY <1>1 DEF RunState
    <3> QED BY <1>1 DEF Flush, Set, RunState
  <2>3. [runs[r] EXCEPT !.ops = rest, !.pushed = pushed,
                        !.quiet = quiet, !.aligned = aligned] = l
    <3> HIDE DEF rest, pushed, quiet, aligned
    <3> QED BY <1>1 DEF RunState
  <2> QED BY <2>1, <2>2, <2>3
<1>7. sheet' \in Seq(Row)
  <2>1. Written(sheet, batch) \in Seq(Row)
    BY <1>1, <1>3, WrittenType
  <2>2. Written(Written(sheet, batch), batch) \in Seq(Row)
    BY <1>3, <2>1, WrittenType
  <2>3. answer \in Answer
    BY FaultAssumption
  <2> QED BY <1>1, <2>1, <2>2, <2>3 DEF Flush, Answer
<1> HIDE DEF batch, rest, pushed, quiet, aligned
<1>8. l1 \in RunState /\ l1.ops = rest
  <2>1. l1 \in RunState
    BY <1>1, <1>3, RunFields
  <2> QED BY <1>1, <2>1 DEF RunState
<1> HIDE DEF l1
<1>9. l2 \in RunState /\ l2.ops = rest
  <2>1. l2 \in RunState
    BY <1>4, <1>8, RunFields
  <2> QED BY <1>8, <2>1 DEF RunState
<1> HIDE DEF l2
<1>10. l3 \in RunState /\ l3.ops = rest
  <2>1. l3 \in RunState
    BY <1>5, <1>9, RunFields
  <2> QED BY <1>9, <2>1 DEF RunState
<1> HIDE DEF l3
<1>11. l \in RunState /\ l.ops = rest
  <2>1. l \in RunState
    BY <1>5, <1>10, RunFields
  <2> QED BY <1>10, <2>1 DEF RunState
<1> HIDE DEF l
<1>12. s \in RunStep /\ s # "write" /\ (s = "flush" => l.ops # <<>>)
  BY <1>11 DEF RunStep
<1> HIDE DEF s
<1> QED BY <1>1, <1>6, <1>7, <1>11, <1>12, RunMoves

(* The statements that end nowhere a list is needed.                       *)
LEMMA PlainMoves ==
    ASSUME TypeInv, NEW r \in Run, NEW l \in RunState,
           NEW s \in RunStep \ {"write", "flush"}, Set(r, l), Goto(r, s)
    PROVE  runs' \in [Run -> RunState] /\ step' \in [Run -> RunStep] /\ RunsReady'
BY RunMoves DEF TypeInv

(* Empty lists.                                                            *)
LEMMA EmptyRows == <<>> \in Seq(Row) /\ <<>> \in Seq(Found) /\ <<>> \in Seq(Mark)
<1> DEFINE R == Row
           F == Found
           M == Mark
<1>1. <<>> \in Seq(R) /\ <<>> \in Seq(F) /\ <<>> \in Seq(M)
  <2> HIDE DEF R, F, M
  <2> QED BY EmptySeq
<1> QED BY <1>1

(* The statements that read, and those that end a run.                     *)
LEMMA PlainTypes ==
    ASSUME TypeInv, NEW r \in Run,
           \/ \E token \in Token : CreateJob(r, token)
           \/ FetchRows(r) \/ RecordPush(r) \/ FetchCells(r) \/ ReadDb(r)
           \/ FailToFetch(r) \/ EndJob(r, "success") \/ EndJob(r, "failed")
           \/ Release(r) \/ Stop(r)
    PROVE  runs' \in [Run -> RunState] /\ step' \in [Run -> RunStep] /\ RunsReady'
<1>0. runs[r] \in RunState /\ runs \in [Run -> RunState]
  BY DEF TypeInv, TypeOK
<1>c. sheet \in Seq(Row) /\ config.direction \in Direction
  BY DEF TypeInv, TypeOK
<1>1. ASSUME NEW token \in Token, CreateJob(r, token)
      PROVE  runs' \in [Run -> RunState] /\ step' \in [Run -> RunStep] /\ RunsReady'
  <2> DEFINE l1 == [runs[r] EXCEPT !.job = "running"]
             l == [l1 EXCEPT !.configured = token]
             s == IF ~token THEN "success"
                  ELSE IF runs[r].kind = "pull" THEN "fetchCells" ELSE "fetchRows"
  <2>1. Set(r, l) /\ Goto(r, s)
    BY <1>1 DEF CreateJob
  <2>2. l1 \in RunState
    BY <1>0, RunFields
  <2> HIDE DEF l1
  <2>3. l \in RunState
    BY <2>2, RunFields DEF Token
  <2>4. s \in RunStep \ {"write", "flush"}
    BY DEF RunStep
  <2> HIDE DEF l, s
  <2> QED BY <2>1, <2>3, <2>4, PlainMoves
<1>2. CASE FetchRows(r) \/ FetchCells(r)
  <2> DEFINE l1 == [runs[r] EXCEPT !.rows = sheet]
             l == [l1 EXCEPT !.direction = config.direction]
             s == IF FetchRows(r) THEN "readUsers" ELSE "readDb"
  <2>1. Set(r, l) /\ Goto(r, s)
    BY <1>2 DEF FetchRows, FetchCells, At
  <2>2. l1 \in RunState
    BY <1>0, <1>c, RunFields
  <2> HIDE DEF l1
  <2>3. l \in RunState
    BY <1>c, <2>2, RunFields
  <2>4. s \in RunStep \ {"write", "flush"}
    BY DEF RunStep
  <2> HIDE DEF l, s
  <2> QED BY <2>1, <2>3, <2>4, PlainMoves
<1>3. CASE RecordPush(r)
  <2> DEFINE l == [runs[r] EXCEPT !.pushed = {}]
             s == IF runs[r].kind = "push" THEN "success" ELSE "fetchCells"
  <2>1. Set(r, l) /\ Goto(r, s)
    BY <1>3 DEF RecordPush
  <2>2. l \in RunState
    BY <1>0, RunFields
  <2>3. s \in RunStep \ {"write", "flush"}
    BY DEF RunStep
  <2> HIDE DEF l, s
  <2> QED BY <2>1, <2>2, <2>3, PlainMoves
<1>4. CASE ReadDb(r)
  <2> DEFINE v == [u \in User |-> IF Live(u) THEN db[u].value ELSE None]
             l == [runs[r] EXCEPT !.users = v]
  <2>1. Set(r, l) /\ Goto(r, "readRecords")
    BY <1>4 DEF ReadDb
  <2>2. v \in [User -> Value \cup {None}]
    BY DEF TypeInv, TypeOK, UserRow
  <2> HIDE DEF v
  <2>3. l \in RunState
    BY <1>0, <2>2, RunFields
  <2>4. "readRecords" \in RunStep \ {"write", "flush"}
    BY DEF RunStep
  <2> HIDE DEF l
  <2> QED BY <2>1, <2>3, <2>4, PlainMoves
<1>5. CASE FailToFetch(r)
  <2>1. runs' = runs /\ Goto(r, "failed")
    BY <1>5 DEF FailToFetch
  <2>2. Set(r, runs[r])
    BY <1>0, <2>1 DEF Set
  <2>3. "failed" \in RunStep \ {"write", "flush"}
    BY DEF RunStep
  <2> QED BY <1>0, <2>1, <2>2, <2>3, PlainMoves
<1>6. ASSUME NEW status \in {"success", "failed"}, EndJob(r, status)
      PROVE  runs' \in [Run -> RunState] /\ step' \in [Run -> RunStep] /\ RunsReady'
  <2> DEFINE l == [runs[r] EXCEPT !.job = status]
  <2>1. Set(r, l) /\ Goto(r, "release")
    BY <1>6 DEF EndJob
  <2>2. l \in RunState
    BY <1>0, RunFields
  <2>3. "release" \in RunStep \ {"write", "flush"}
    BY DEF RunStep
  <2> HIDE DEF l
  <2> QED BY <2>1, <2>2, <2>3, PlainMoves
<1>7. CASE Release(r) \/ Stop(r)
  <2>1. Set(r, NoRun) /\ Goto(r, "idle")
    BY <1>7 DEF Release, Stop
  <2>2. "idle" \in RunStep \ {"write", "flush"}
    BY DEF RunStep
  <2> QED BY <2>1, <2>2, NoRunType, PlainMoves
<1> QED BY <1>1, <1>2, <1>3, <1>4, <1>5, <1>6, <1>7

(* What becomes of a row is one of six outcomes, whichever row of a user.  *)
LEMMA ReadRecordsTypes ==
    ASSUME TypeInv, NEW r \in Run, ReadRecords(r)
    PROVE  runs' \in [Run -> RunState] /\ step' \in [Run -> RunStep] /\ RunsReady'
<1> DEFINE rows == runs[r].rows
           outcome(row) == Outcome(row, runs[r].users, runs[r].direction)
           having(outcomes) == Only(rows, {i \in DOMAIN rows : outcome(rows[i]) \in outcomes})
           writes == having({"apply"})
           marks == Only(rows, {i \in DOMAIN rows : outcome(rows[i]) # "unknown"})
           clashing == having({"unknown", "conflict"})
           found == [i \in DOMAIN clashing |->
                    [user |-> clashing[i].user, value |-> clashing[i].value,
                     field |-> IF outcome(clashing[i]) = "unknown"
                               THEN "(user)" ELSE "column"]]
           baseline(row) ==
            IF outcome(row) \in {"noop", "db_wins", "apply"} THEN row.value
            ELSE records[row.user].baseline
           new == [i \in DOMAIN marks |-> [user |-> marks[i].user, value |-> baseline(marks[i])]]
           s == IF writes = <<>> THEN "conflicts" ELSE "write"
           l1 == [runs[r] EXCEPT !.rows = <<>>]
           l2 == [l1 EXCEPT !.users = NoRun.users]
           l3 == [l2 EXCEPT !.writes = writes]
           l4 == [l3 EXCEPT !.found = found]
           l == [l4 EXCEPT !.marks = new]
<1>1. runs[r] \in RunState /\ rows \in Seq(Row) /\ TypeOK /\ RunsReady
  BY DEF TypeInv, TypeOK, RunState
<1>2. Set(r, l) /\ Goto(r, s)
  <2>1. Goto(r, s)
    BY DEF ReadRecords
  <2>2. Set(r, [runs[r] EXCEPT !.rows = <<>>, !.users = NoRun.users,
                               !.writes = writes, !.found = found, !.marks = new])
    BY DEF ReadRecords
  <2>3. [runs[r] EXCEPT !.rows = <<>>, !.users = NoRun.users,
                        !.writes = writes, !.found = found, !.marks = new] = l
    <3> HIDE DEF writes, found, new
    <3> QED BY <1>1 DEF RunState
  <2> QED BY <2>1, <2>2, <2>3
<1>3. \A K : Only(rows, K) \in Seq(Row)
  <2> DEFINE R == Row
  <2>1. rows \in Seq(R)
    BY <1>1
  <2> SUFFICES ASSUME NEW K PROVE Only(rows, K) \in Seq(R)
    OBVIOUS
  <2> HIDE DEF R, rows
  <2> QED BY <2>1, OnlyTakes
<1>4. writes \in Seq(Row) /\ marks \in Seq(Row) /\ clashing \in Seq(Row)
  BY <1>3
<1> HIDE DEF writes, marks, clashing
<1>5. found \in Seq(Found)
  <2> DEFINE c(row) == [user |-> row.user, value |-> row.value,
                     field |-> IF outcome(row) = "unknown" THEN "(user)" ELSE "column"]
             F == Found
  <2>1. \A row \in Row : c(row) \in F
    <3> HIDE DEF outcome
    <3> QED BY DEF Row, Found
  <2>2. /\ Len(clashing) \in Nat /\ DOMAIN clashing = 1..Len(clashing)
        /\ \A i \in 1..Len(clashing) : clashing[i] \in Row
    BY <1>4, LenProperties, ElementOfSeq
  <2>3. found = [i \in 1..Len(clashing) |-> c(clashing[i])]
    BY <2>2
  <2> HIDE DEF c, F, found
  <2>4. found \in Seq(F)
    BY <2>1, <2>2, <2>3
  <2> QED BY <2>4 DEF F
<1>6. new \in Seq(Mark)
  <2> DEFINE c(row) == [user |-> row.user, value |-> baseline(row)]
             F == Mark
  <2>1. \A row \in Row : c(row) \in F
    <3> SUFFICES ASSUME NEW row \in Row PROVE c(row) \in F
      OBVIOUS
    <3>1. row.user \in User /\ row.value \in Value
      BY DEF Row
    <3>2. records[row.user].baseline \in Value \cup {None}
      BY <1>1, <3>1 DEF TypeOK, Record
    <3> HIDE DEF outcome
    <3>3. baseline(row) \in Value \cup {None}
      BY <3>1, <3>2
    <3> HIDE DEF baseline
    <3> QED BY <3>1, <3>3 DEF Mark
  <2>2. /\ Len(marks) \in Nat /\ DOMAIN marks = 1..Len(marks)
        /\ \A i \in 1..Len(marks) : marks[i] \in Row
    BY <1>4, LenProperties, ElementOfSeq
  <2>3. new = [i \in 1..Len(marks) |-> c(marks[i])]
    BY <2>2
  <2> HIDE DEF c, F, new
  <2>4. new \in Seq(F)
    BY <2>1, <2>2, <2>3
  <2> QED BY <2>4 DEF F
<1>7. NoRun.users \in [User -> Value \cup {None}]
  BY NoRunType DEF RunState
<1> HIDE DEF found, new
<1>8. l1 \in RunState
  BY <1>1, EmptyRows, RunFields
<1> HIDE DEF l1
<1>9. l2 \in RunState
  BY <1>7, <1>8, RunFields
<1> HIDE DEF l2
<1>10. l3 \in RunState /\ l3.writes = writes
  <2>1. l3 \in RunState
    BY <1>4, <1>9, RunFields
  <2> QED BY <1>9, <2>1 DEF RunState
<1> HIDE DEF l3
<1>11. l4 \in RunState /\ l4.writes = writes
  <2>1. l4 \in RunState
    BY <1>5, <1>10, RunFields
  <2> QED BY <1>10, <2>1 DEF RunState
<1> HIDE DEF l4
<1>12. l \in RunState /\ l.writes = writes
  <2>1. l \in RunState
    BY <1>6, <1>11, RunFields
  <2> QED BY <1>11, <2>1 DEF RunState
<1> HIDE DEF l
<1>13. s \in RunStep /\ s # "flush" /\ (s = "write" => l.writes # <<>>)
  BY <1>12 DEF RunStep
<1> HIDE DEF s
<1> QED BY <1>1, <1>2, <1>12, <1>13, RunMoves

(* A value from the sheet is a value of a user.                            *)
LEMMA WriteCellTypes ==
    ASSUME TypeInv, NEW r \in Run, WriteCell(r)
    PROVE  /\ runs' \in [Run -> RunState] /\ step' \in [Run -> RunStep] /\ RunsReady'
           /\ db' \in [User -> UserRow]
<1> DEFINE w == runs[r].writes
           row == Head(w)
           rest == Tail(w)
           l == [runs[r] EXCEPT !.writes = rest]
           s == IF rest = <<>> THEN "conflicts" ELSE "write"
           R == Row
<1>1. runs[r] \in RunState /\ w \in Seq(R) /\ w # <<>> /\ TypeOK /\ RunsReady
  BY DEF TypeInv, TypeOK, RunState, RunsReady, WriteCell
<1>2. row \in R /\ rest \in Seq(R)
  <2> HIDE DEF R, w
  <2> QED BY <1>1, HeadTailProperties
<1>3. Set(r, l) /\ Goto(r, s)
  BY DEF WriteCell
<1>4. db' \in [User -> UserRow]
  <2>1. row.user \in User /\ row.value \in Value
    BY <1>2 DEF Row
  <2>2. db' = [db EXCEPT ![row.user].value = row.value]
    BY DEF WriteCell
  <2> HIDE DEF row
  <2> QED BY <1>1, <2>1, <2>2 DEF TypeOK, UserRow
<1> HIDE DEF rest
<1>5. l \in RunState /\ l.writes = rest
  <2>1. l \in RunState
    BY <1>1, <1>2, RunFields
  <2> QED BY <1>1, <2>1 DEF RunState
<1> HIDE DEF l
<1>6. s \in RunStep /\ s # "flush" /\ (s = "write" => l.writes # <<>>)
  BY <1>5 DEF RunStep
<1> HIDE DEF s
<1> QED BY <1>1, <1>3, <1>4, <1>5, <1>6, RunMoves

(* New conflicts are among those the run has found.                        *)
LEMMA RecordConflictsTypes ==
    ASSUME TypeInv, NEW r \in Run, RecordConflicts(r)
    PROVE  /\ runs' \in [Run -> RunState] /\ step' \in [Run -> RunStep] /\ RunsReady'
           /\ conflicts' \in [Conflict -> Found] /\ verdicts' \in [Conflict -> Verdict]
<1> DEFINE l == [runs[r] EXCEPT !.found = <<>>]
           found == runs[r].found
           kept == 1..Min({Len(found), Cardinality(Free)})
           id == CHOOSE f \in [kept -> Free] : IsInjective(f)
           new == {c \in Free : \E i \in kept : id[i] = c}
<1>1. runs[r] \in RunState /\ found \in Seq(Found) /\ TypeOK
  BY DEF TypeInv, TypeOK, RunState
<1>2. Set(r, l) /\ Goto(r, "recordPull")
  BY DEF RecordConflicts
<1>3. l \in RunState
  BY <1>1, EmptyRows, RunFields
<1>4. "recordPull" \in RunStep \ {"write", "flush"}
  BY DEF RunStep
<1>5. runs' \in [Run -> RunState] /\ step' \in [Run -> RunStep] /\ RunsReady'
  <2> HIDE DEF l
  <2> QED BY <1>2, <1>3, <1>4, PlainMoves
<1>6. kept \subseteq 1..Len(found) /\ Len(found) \in Nat
  <2>1. Len(found) \in Nat
    BY <1>1, LenProperties
  <2>2. Cardinality(Free) \in Nat
    <3>1. IsFiniteSet(Free)
      <4>1. Free \subseteq Conflict
        BY DEF Free
      <4> QED BY <4>1, ConflictAssumption, FS_Subset
    <3> QED BY <3>1, FS_CardinalityType
  <2> HIDE DEF found
  <2>3. Min({Len(found), Cardinality(Free)}) =
          IF Len(found) <= Cardinality(Free) THEN Len(found) ELSE Cardinality(Free)
    BY <2>1, <2>2, MinOfTwo
  <2> QED BY <2>1, <2>2, <2>3
<1>7. conflicts' = [c \in Conflict |->
          IF c \in new THEN found[CHOOSE i \in kept : id[i] = c] ELSE conflicts[c]]
  BY DEF RecordConflicts
<1>8. verdicts' = [c \in Conflict |->
          IF c \in new THEN [NoVerdict EXCEPT !.state = "pending"] ELSE verdicts[c]]
  BY DEF RecordConflicts
<1>9. \A c \in new : (CHOOSE i \in kept : id[i] = c) \in kept
  <2> HIDE DEF id, kept
  <2> QED OBVIOUS
<1> HIDE DEF id, kept, new
<1>10. \A c \in new : found[CHOOSE i \in kept : id[i] = c] \in Found
  <2> SUFFICES ASSUME NEW c \in new PROVE found[CHOOSE i \in kept : id[i] = c] \in Found
    OBVIOUS
  <2> DEFINE i == CHOOSE i \in kept : id[i] = c
  <2>1. i \in 1..Len(found)
    BY <1>6, <1>9
  <2> HIDE DEF i
  <2>2. found[i] \in Found
    BY <1>1, <2>1, ElementOfSeq
  <2> QED BY <2>2 DEF i
<1>11. conflicts' \in [Conflict -> Found]
  <2> HIDE DEF Found, found
  <2> QED BY <1>1, <1>7, <1>10 DEF TypeOK
<1>12. verdicts' \in [Conflict -> Verdict]
  <2>1. [NoVerdict EXCEPT !.state = "pending"] \in Verdict
    BY DEF NoVerdict, Verdict
  <2> QED BY <1>1, <1>8, <2>1 DEF TypeOK
<1> QED BY <1>5, <1>11, <1>12

(* Baselines come from the marks.                                          *)
LEMMA RecordPullTypes ==
    ASSUME TypeInv, NEW r \in Run, RecordPull(r)
    PROVE  /\ runs' \in [Run -> RunState] /\ step' \in [Run -> RunStep] /\ RunsReady'
           /\ records' \in [User -> Record]
<1> DEFINE l == [runs[r] EXCEPT !.marks = <<>>]
           marks == runs[r].marks
           s == IF Twice(marks) THEN "failed" ELSE "success"
<1>1. runs[r] \in RunState /\ marks \in Seq(Mark) /\ TypeOK
  BY DEF TypeInv, TypeOK, RunState
<1>2. Set(r, l) /\ Goto(r, s)
  BY DEF RecordPull
<1>3. l \in RunState
  BY <1>1, EmptyRows, RunFields
<1>4. s \in RunStep \ {"write", "flush"}
  BY DEF RunStep
<1>5. runs' \in [Run -> RunState] /\ step' \in [Run -> RunStep] /\ RunsReady'
  <2> HIDE DEF l, s
  <2> QED BY <1>2, <1>3, <1>4, PlainMoves
<1>6. \A i \in DOMAIN marks : marks[i].value \in Value \cup {None}
  <2>1. \A i \in DOMAIN marks : marks[i] \in Mark
    BY <1>1, LenProperties, ElementOfSeq
  <2> QED BY <2>1 DEF Mark
<1>7. CASE Twice(marks)
  BY <1>1, <1>5, <1>7 DEF RecordPull, TypeOK
<1>8. CASE ~Twice(marks)
  <2>1. records' = [u \in User |->
                    IF \E i \in DOMAIN marks : marks[i].user = u
                    THEN [known |-> TRUE,
                          baseline |-> marks[CHOOSE i \in DOMAIN marks : marks[i].user = u].value]
                    ELSE records[u]]
    BY <1>8 DEF RecordPull
  <2>2. \A u \in User : (\E i \in DOMAIN marks : marks[i].user = u) =>
           marks[CHOOSE i \in DOMAIN marks : marks[i].user = u].value \in Value \cup {None}
    <3> HIDE DEF marks
    <3> QED BY <1>6
  <2> HIDE DEF marks
  <2>3. \A u \in User : (IF \E i \in DOMAIN marks : marks[i].user = u
                    THEN [known |-> TRUE,
                          baseline |-> marks[CHOOSE i \in DOMAIN marks : marks[i].user = u].value]
                    ELSE records[u]) \in Record
    BY <1>1, <2>2 DEF TypeOK, Record
  <2> HIDE DEF Record
  <2> QED BY <1>5, <2>1, <2>3
<1> QED BY <1>7, <1>8

(* Disturbances keep to their bound.                                       *)
LEMMA DisturbanceTypes ==
    ASSUME TypeOK, Disturbance \/ UNCHANGED disturbances
    PROVE  disturbances' \in 0..MaxDisturbances
BY FaultAssumption DEF TypeOK, Disturbance

(* The steps of runs keep the types.                                       *)
LEMMA RunKeepsTypes ==
    ASSUME TypeInv, HandsInv, NEW r \in Run, RunStepOf(r) \/ Stop(r)
    PROVE  TypeInv'
<1>0. TypeOK
  BY DEF TypeInv
<1>r. ASSUME runs' \in [Run -> RunState], step' \in [Run -> RunStep], RunsReady',
             sheet' \in Seq(Row), db' \in [User -> UserRow], records' \in [User -> Record],
             conflicts' \in [Conflict -> Found], verdicts' \in [Conflict -> Verdict],
             config' = config, resolutions' = resolutions, lock' \in BOOLEAN,
             Disturbance \/ UNCHANGED disturbances,
             mishaps' \subseteq mishaps \cup {"repeated", "mixed", "shifted"}
      PROVE  TypeInv'
  <2>1. disturbances' \in 0..MaxDisturbances
    BY <1>0, <1>r, DisturbanceTypes
  <2>2. mishaps' \subseteq {"outrun", "repeated", "mixed", "shifted", "removed"}
    BY <1>0, <1>r DEF TypeOK
  <2>3. config' \in [direction : Direction, policy : Policy]
    BY <1>0, <1>r DEF TypeOK
  <2>4. resolutions' \in [Resolver -> Resolution]
    BY <1>0, <1>r DEF TypeOK
  <2> QED BY <1>r, <2>1, <2>2, <2>3, <2>4 DEF TypeInv, TypeOK
<1>d. /\ sheet \in Seq(Row) /\ db \in [User -> UserRow] /\ records \in [User -> Record]
      /\ conflicts \in [Conflict -> Found] /\ verdicts \in [Conflict -> Verdict]
      /\ lock \in BOOLEAN
  BY <1>0 DEF TypeOK
<1>1. ASSUME NEW kind \in Kind, Acquire(r, kind) PROVE TypeInv'
  <2>1. runs' \in [Run -> RunState] /\ step' \in [Run -> RunStep] /\ RunsReady'
    BY <1>1, AcquireTypes
  <2>2. /\ UNCHANGED <<data, resolutions, mishaps>> /\ lock' = TRUE
        /\ Disturbance \/ UNCHANGED disturbances
    BY <1>1 DEF Acquire, DisturbanceIf
  <2> QED BY <1>r, <1>d, <2>1, <2>2 DEF data, table
<1>2. CASE \/ \E token \in Token : CreateJob(r, token)
           \/ FetchRows(r) \/ RecordPush(r) \/ FetchCells(r) \/ ReadDb(r)
           \/ FailToFetch(r) \/ EndJob(r, "success") \/ EndJob(r, "failed")
           \/ Release(r) \/ Stop(r)
  <2>1. runs' \in [Run -> RunState] /\ step' \in [Run -> RunStep] /\ RunsReady'
    BY <1>2, PlainTypes
  <2>2. CASE RecordPush(r)
    <3>1. /\ UNCHANGED <<config, db, sheet, table, lock, resolutions, disturbances, mishaps>>
          /\ records' = [u \in User |-> IF u \in runs[r].pushed
                                  THEN [records[u] EXCEPT !.known = TRUE]
                                  ELSE records[u]]
      BY <2>2 DEF RecordPush
    <3>2. records' \in [User -> Record]
      BY <1>d, <3>1 DEF Record
    <3> QED BY <1>r, <1>d, <2>1, <3>1, <3>2 DEF table
  <2>3. CASE ~RecordPush(r)
    <3>1. /\ UNCHANGED <<data, resolutions, mishaps>> /\ (lock' = lock \/ lock' = FALSE)
          /\ Disturbance \/ UNCHANGED disturbances
      BY <1>2, <2>3 DEF CreateJob, FetchRows, FetchCells, ReadDb, FailToFetch, EndJob,
         Release, Stop, DisturbanceIf
    <3> QED BY <1>r, <1>d, <2>1, <3>1 DEF data, table
  <2> QED BY <2>2, <2>3
<1>3. CASE ReadUsers(r)
  <2>1. runs' \in [Run -> RunState] /\ step' \in [Run -> RunStep] /\ RunsReady'
    BY <1>3, ReadUsersTypes
  <2>2. UNCHANGED <<data, lock, resolutions, disturbances, mishaps>>
    BY <1>3 DEF ReadUsers
  <2> QED BY <1>r, <1>d, <2>1, <2>2 DEF data, table
<1>4. ASSUME NEW answer \in Answers, Flush(r, answer) PROVE TypeInv'
  <2>1. /\ runs' \in [Run -> RunState] /\ step' \in [Run -> RunStep] /\ RunsReady'
        /\ sheet' \in Seq(Row)
    BY <1>4, FlushTypes
  <2>2. /\ UNCHANGED <<config, db, records, table, lock, resolutions>>
        /\ Disturbance \/ UNCHANGED disturbances
        /\ mishaps' \subseteq mishaps \cup {"repeated", "mixed", "shifted"}
    BY <1>4 DEF Flush, DisturbanceIf
  <2> QED BY <1>r, <1>d, <2>1, <2>2 DEF table
<1>5. CASE ReadRecords(r)
  <2>1. runs' \in [Run -> RunState] /\ step' \in [Run -> RunStep] /\ RunsReady'
    BY <1>5, ReadRecordsTypes
  <2>2. UNCHANGED <<data, lock, resolutions, disturbances, mishaps>>
    BY <1>5 DEF ReadRecords
  <2> QED BY <1>r, <1>d, <2>1, <2>2 DEF data, table
<1>6. CASE WriteCell(r)
  <2>1. /\ runs' \in [Run -> RunState] /\ step' \in [Run -> RunStep] /\ RunsReady'
        /\ db' \in [User -> UserRow]
    BY <1>6, WriteCellTypes
  <2>2. UNCHANGED <<config, sheet, records, table, lock, resolutions, disturbances, mishaps>>
    BY <1>6 DEF WriteCell
  <2> QED BY <1>r, <1>d, <2>1, <2>2 DEF table
<1>7. CASE RecordConflicts(r)
  <2>1. /\ runs' \in [Run -> RunState] /\ step' \in [Run -> RunStep] /\ RunsReady'
        /\ conflicts' \in [Conflict -> Found] /\ verdicts' \in [Conflict -> Verdict]
    BY <1>7, RecordConflictsTypes
  <2>2. UNCHANGED <<config, db, sheet, records, lock, resolutions, disturbances, mishaps>>
    BY <1>7 DEF RecordConflicts
  <2> QED BY <1>r, <1>d, <2>1, <2>2
<1>8. CASE RecordPull(r)
  <2>1. /\ runs' \in [Run -> RunState] /\ step' \in [Run -> RunStep] /\ RunsReady'
        /\ records' \in [User -> Record]
    BY <1>8, RecordPullTypes
  <2>2. UNCHANGED <<config, db, sheet, table, lock, resolutions, disturbances, mishaps>>
    BY <1>8 DEF RecordPull
  <2> QED BY <1>r, <1>d, <2>1, <2>2 DEF table
<1> QED BY <1>1, <1>2, <1>3, <1>4, <1>5, <1>6, <1>7, <1>8 DEF RunStepOf

(* What everybody else does.                                               *)
LEMMA OthersKeepTypes ==
    ASSUME TypeInv, ResolutionInv, ResolutionInv',
           (\E q \in Resolver : ResolverStep(q)) \/ Change
    PROVE  TypeInv'
<1>0. TypeOK /\ RunsReady
  BY DEF TypeInv
<1>1. step' = step /\ lock' = lock
  BY OthersKeepLock
<1>2. Disturb /\ (Disturbance \/ UNCHANGED disturbances)
  <2>1. ASSUME NEW q \in Resolver, ResolverStep(q)
        PROVE  Disturb /\ (Disturbance \/ UNCHANGED disturbances)
    BY <2>1 DEF ResolverStep, TakeConflict, ApplyConflict, Acknowledge, MarkResolved
  <2>2. ASSUME Change PROVE Disturb /\ Disturbance
    BY <2>2 DEF Change, EditCell, RemoveRow, ChangeUser, CreateUser, DeleteUser, UpdateConfig, Edit
  <2> QED BY <2>1, <2>2
<1>3. runs' \in [Run -> RunState] /\ RunsReady'
  BY <1>0, <1>1, <1>2, DisturbKeepsRuns
<1>4. disturbances' \in 0..MaxDisturbances
  BY <1>0, <1>2, DisturbanceTypes
<1>5. verdicts' \in [Conflict -> Verdict] /\ resolutions' \in [Resolver -> Resolution]
  BY DEF ResolutionInv, HandsInv
<1>d. /\ sheet \in Seq(Row) /\ db \in [User -> UserRow] /\ records \in [User -> Record]
      /\ conflicts \in [Conflict -> Found]
      /\ config \in [direction : Direction, policy : Policy]
      /\ mishaps \subseteq {"outrun", "repeated", "mixed", "shifted", "removed"}
  BY <1>0 DEF TypeOK
<1>f. \A c \in Conflict : conflicts[c].user \in User /\ conflicts[c].value \in Value
  BY <1>d DEF Found
<1>6. /\ sheet' \in Seq(Row) /\ db' \in [User -> UserRow] /\ records' \in [User -> Record]
      /\ conflicts' = conflicts
      /\ config' \in [direction : Direction, policy : Policy]
      /\ mishaps' \subseteq {"outrun", "repeated", "mixed", "shifted", "removed"}
  <2>1. ASSUME NEW q \in Resolver, ResolverStep(q)
        PROVE  /\ UNCHANGED <<sheet, conflicts, config, mishaps>>
               /\ db' \in [User -> UserRow] /\ records' \in [User -> Record]
    <3>1. CASE \E c \in Conflict, choice \in Verdicts : TakeConflict(q, c, choice)
      BY <1>d, <3>1 DEF TakeConflict
    <3> DEFINE c == resolutions[q].conflict
    <3>h. resolutions[q].step # "idle" => c \in Conflict
      BY HandIsConflict
    <3>2. CASE ApplyConflict(q)
      <4>1. c \in Conflict
        BY <3>2, <3>h DEF ApplyConflict, Resolving
      <4>2. db' = db \/ db' = [db EXCEPT ![conflicts[c].user].value = conflicts[c].value]
        BY <3>2 DEF ApplyConflict
      <4>3. UNCHANGED <<sheet, conflicts, config, mishaps, records>>
        BY <3>2 DEF ApplyConflict
      <4> DEFINE u == conflicts[c].user
                 v == conflicts[c].value
      <4>4. u \in User /\ v \in Value
        BY <1>f, <4>1
      <4>5. db' = db \/ db' = [db EXCEPT ![u].value = v]
        BY <4>2
      <4> HIDE DEF u, v
      <4>6. db' \in [User -> UserRow]
        BY <1>d, <4>4, <4>5 DEF UserRow
      <4> QED BY <1>d, <4>3, <4>6
    <3>3. CASE Acknowledge(q)
      <4>1. c \in Conflict
        BY <3>3, <3>h DEF Acknowledge, Resolving
      <4> DEFINE u == conflicts[c].user
                 v == conflicts[c].value
      <4>2. records' = IF records[u].known /\ conflicts[c].field = "column"
                       THEN [records EXCEPT ![u].baseline = v] ELSE records
        BY <3>3 DEF Acknowledge
      <4>3. UNCHANGED <<sheet, conflicts, config, mishaps, db>>
        BY <3>3 DEF Acknowledge, table
      <4>4. u \in User /\ v \in Value
        BY <1>f, <4>1
      <4> HIDE DEF u, v
      <4>5. records' \in [User -> Record]
        BY <1>d, <4>2, <4>4 DEF Record
      <4> QED BY <1>d, <4>3, <4>5
    <3>4. CASE MarkResolved(q)
      BY <1>d, <3>4 DEF MarkResolved
    <3> QED BY <2>1, <3>1, <3>2, <3>3, <3>4 DEF ResolverStep
  <2>2. CASE Change
    <3>0. conflicts' = conflicts /\ records' = records
      BY <2>2 DEF Change, EditCell, RemoveRow, ChangeUser, CreateUser, DeleteUser,
         UpdateConfig, Edit, table
    <3>1. ASSUME NEW i \in DOMAIN sheet, RemoveRow(i)
          PROVE  /\ sheet' \in Seq(Row) /\ UNCHANGED <<config, db>>
                 /\ mishaps' = mishaps \cup {"removed"}
      <4> DEFINE R == Row
                 a == SubSeq(sheet, 1, i-1)
                 b == SubSeq(sheet, i+1, Len(sheet))
      <4>1. Len(sheet) \in Nat /\ i \in 1..Len(sheet) /\ \A n \in 1..Len(sheet) : sheet[n] \in R
        BY <1>d, LenProperties, ElementOfSeq
      <4> HIDE DEF R
      <4>2. a \in Seq(R)
        <5>1. 1 \in Int /\ i-1 \in Int /\ \A n \in 1..(i-1) : sheet[n] \in R
          BY <4>1
        <5> QED BY <5>1, SubSeqProperties
      <4>3. b \in Seq(R)
        <5>1. i+1 \in Int /\ Len(sheet) \in Int /\ \A n \in (i+1)..Len(sheet) : sheet[n] \in R
          BY <4>1
        <5> QED BY <5>1, SubSeqProperties
      <4>4. sheet' = a \o b
        BY <3>1 DEF RemoveRow, RemoveAt
      <4> HIDE DEF a, b
      <4>5. sheet' \in Seq(R)
        BY <4>2, <4>3, <4>4, ConcatProperties
      <4> QED BY <3>1, <4>5 DEF RemoveRow, R
    <3>2. ASSUME NEW i \in DOMAIN sheet, NEW v \in Value, EditCell(i, v)
          PROVE  sheet' \in Seq(Row) /\ UNCHANGED <<config, db, mishaps>>
      <4> DEFINE R == Row
      <4>1. i \in 1..Len(sheet) /\ sheet[i] \in Row
        BY <1>d, LenProperties, ElementOfSeq
      <4>2. [sheet[i] EXCEPT !.value = v] \in R
        BY <4>1 DEF Row
      <4>3. sheet' = [sheet EXCEPT ![i] = [sheet[i] EXCEPT !.value = v]]
        BY <3>2 DEF EditCell
      <4>4. sheet \in Seq(R)
        BY <1>d
      <4> HIDE DEF R
      <4>5. sheet' \in Seq(R)
        BY <4>1, <4>2, <4>3, <4>4, ExceptSeq
      <4> QED BY <3>2, <4>5 DEF EditCell, R
    <3>3. ASSUME NEW u \in User, DeleteUser(u) \/ \E v \in Accepted : ChangeUser(u, v)
          PROVE  UNCHANGED <<sheet, config, mishaps>> /\ db' \in [User -> UserRow]
      <4>1. CASE DeleteUser(u)
        BY <1>d, <4>1 DEF DeleteUser, UserRow
      <4>2. ASSUME NEW v \in Accepted, ChangeUser(u, v)
            PROVE  UNCHANGED <<sheet, config, mishaps>> /\ db' \in [User -> UserRow]
        BY <1>d, <4>2, ValueAssumption DEF ChangeUser, UserRow
      <4> QED BY <3>3, <4>1, <4>2
    <3>4. ASSUME NEW i \in DOMAIN Created, CreateUser(i)
          PROVE  UNCHANGED <<sheet, config, mishaps>> /\ db' \in [User -> UserRow]
      BY <1>d, <3>4 DEF CreateUser, UserRow
    <3>5. ASSUME NEW new \in [direction : Directions, policy : Policies], UpdateConfig(new)
          PROVE  /\ UNCHANGED <<sheet, db, mishaps>>
                 /\ config' \in [direction : Direction, policy : Policy]
      BY <3>5, ConfigAssumption DEF UpdateConfig
    <3> QED BY <1>d, <2>2, <3>0, <3>1, <3>2, <3>3, <3>4, <3>5 DEF Change
  <2> QED BY <1>d, <2>1, <2>2
<1> QED BY <1>0, <1>1, <1>3, <1>4, <1>5, <1>6 DEF TypeInv, TypeOK

(* Every step keeps the types.                                             *)
LEMMA TypesNext ==
    ASSUME TypeInv, ResolutionInv, ResolutionInv', [Next]_zohoVars
    PROVE  TypeInv'
<1>1. ASSUME NEW r \in Run, RunStepOf(r) \/ Stop(r) PROVE TypeInv'
  BY <1>1, RunKeepsTypes DEF ResolutionInv
<1>2. CASE (\E q \in Resolver : ResolverStep(q)) \/ Change
  BY <1>2, OthersKeepTypes
<1>3. CASE LockExpires
  <2>1. /\ UNCHANGED <<data, step, runs, resolutions>> /\ lock' = FALSE
        /\ Disturbance \/ UNCHANGED disturbances
        /\ mishaps' \subseteq mishaps \cup {"outrun"}
    BY <1>3 DEF LockExpires
  <2>2. disturbances' \in 0..MaxDisturbances
    BY <2>1, DisturbanceTypes DEF TypeInv
  <2>3. mishaps' \subseteq {"outrun", "repeated", "mixed", "shifted", "removed"}
    BY <2>1 DEF TypeInv, TypeOK
  <2>4. RunsReady'
    BY <2>1 DEF TypeInv, RunsReady, At
  <2> QED BY <2>1, <2>2, <2>3, <2>4 DEF TypeInv, TypeOK, data, table
<1>4. CASE UNCHANGED zohoVars
  BY <1>4 DEF TypeInv, TypeOK, RunsReady, At, zohoVars, data, table
<1> QED BY <1>1, <1>2, <1>3, <1>4 DEF Next

(* No step of anybody breaks it.                                           *)
LEMMA TypesHold == Spec => []TypeInv
<1>1. Init => TypeInv
  BY InitTypes
<1>2. TypeInv /\ ResolutionInv /\ ResolutionInv' /\ [Next]_zohoVars => TypeInv'
  BY TypesNext
<1> QED BY <1>1, <1>2, ResolutionHolds, PTL DEF Spec

(* Every field keeps to its kind: what is taken from sequences of rows and *)
(* operations, in order, is a sequence of them again.                      *)
THEOREM SyncTypeCorrect == Spec => []TypeOK
<1>1. TypeInv => TypeOK
  BY DEF TypeInv
<1> QED BY <1>1, TypesHold, PTL

-----------------------------------------------------------------------------
(* One row for each user.                                                  *)

(* The rows of the sheet and what runs remember of them.                   *)
HasRow(u, rows) == \E i \in DOMAIN rows : rows[i].user = u
(* No user has two rows.                                                   *)
OneEach(rows) == \A i, j \in DOMAIN rows : rows[i].user = rows[j].user => i = j

(* A user who was there, and has a row unless he has been deleted.         *)
Served(u, users, rows) ==
    users[u].state # "none" /\ (users[u].state = "live" => HasRow(u, rows))

(* What an operation asks for can be done where the sheet is now.          *)
OpFits(op, users, rows) ==
    /\ users[op.user].state # "none"
    /\ op.kind = "add" => ~HasRow(op.user, rows)
    /\ op.kind # "add" => op.row \in DOMAIN rows /\ rows[op.row].user = op.user
    /\ op.kind = "delete" => users[op.user].state = "deleted"

(* So can what all of them ask for, each for a user of its own.            *)
OpsFit(ops, users, rows) ==
    /\ \A m, n \in DOMAIN ops : ops[m].user = ops[n].user => m = n
    /\ \A n \in DOMAIN ops : OpFits(ops[n], users, rows)

(* The rows are of the same users, whatever their values.                  *)
SameUsers(rows, others) ==
    /\ DOMAIN rows = DOMAIN others
    /\ \A i \in DOMAIN rows : rows[i].user = others[i].user

(* Positions of a batch are those of the operations it begins.             *)
LEMMA BatchDomains ==
    ASSUME NEW ops \in Seq(Op), ops # <<>>
    PROVE  /\ DOMAIN ops = 1..Len(ops) /\ Len(ops) \in Nat
           /\ DOMAIN BatchOf(ops) = 1..Len(BatchOf(ops))
           /\ DOMAIN RestOf(ops) = 1..Len(RestOf(ops))
           /\ \A n \in DOMAIN BatchOf(ops) :
                 /\ n \in DOMAIN ops /\ n <= Len(BatchOf(ops))
                 /\ BatchOf(ops)[n] = ops[n] /\ ops[n] \in Op
           /\ \A n \in DOMAIN RestOf(ops) :
                 /\ Len(BatchOf(ops)) + n \in DOMAIN ops
                 /\ RestOf(ops)[n] = ops[Len(BatchOf(ops)) + n]
                 /\ RestOf(ops)[n] \in Op
<1>1. /\ BatchOf(ops) \in Seq(Op) /\ RestOf(ops) \in Seq(Op)
      /\ Len(BatchOf(ops)) \in Nat \ {0} /\ Len(BatchOf(ops)) <= Len(ops)
      /\ \A n \in 1..Len(BatchOf(ops)) : BatchOf(ops)[n] = ops[n]
      /\ Len(RestOf(ops)) \in Nat
      /\ Len(BatchOf(ops)) + Len(RestOf(ops)) = Len(ops)
      /\ \A n \in 1..Len(RestOf(ops)) :
            RestOf(ops)[n] = ops[Len(BatchOf(ops)) + n]
  BY BatchFacts
<1>2. /\ DOMAIN ops = 1..Len(ops) /\ Len(ops) \in Nat
      /\ \A n \in 1..Len(ops) : ops[n] \in Op
  BY LenProperties, ElementOfSeq
<1>3. DOMAIN BatchOf(ops) = 1..Len(BatchOf(ops)) /\ DOMAIN RestOf(ops) = 1..Len(RestOf(ops))
  BY <1>1, LenProperties
<1>4. ASSUME NEW n \in DOMAIN BatchOf(ops)
      PROVE  /\ n \in DOMAIN ops /\ n <= Len(BatchOf(ops))
             /\ BatchOf(ops)[n] = ops[n] /\ ops[n] \in Op
  BY <1>1, <1>2, <1>3
<1>5. ASSUME NEW n \in DOMAIN RestOf(ops)
      PROVE  /\ Len(BatchOf(ops)) + n \in DOMAIN ops
             /\ RestOf(ops)[n] = ops[Len(BatchOf(ops)) + n]
             /\ RestOf(ops)[n] \in Op
  BY <1>1, <1>2, <1>3
<1> QED BY <1>2, <1>3, <1>4, <1>5

(* The operations of a batch and those after it are of different users.    *)
LEMMA RestFits ==
    ASSUME NEW ops \in Seq(Op), ops # <<>>, NEW users, NEW rows, OpsFit(ops, users, rows)
    PROVE  /\ OpsFit(RestOf(ops), users, rows)
           /\ \A m \in DOMAIN BatchOf(ops), n \in DOMAIN RestOf(ops) :
                 BatchOf(ops)[m].user # RestOf(ops)[n].user
           /\ OpsFit(BatchOf(ops), users, rows)
<1> DEFINE batch == BatchOf(ops)
           rest == RestOf(ops)
           k == Len(batch)
<1>1. /\ \A n \in DOMAIN batch : n \in DOMAIN ops /\ n <= k /\ batch[n] = ops[n]
      /\ \A n \in DOMAIN rest : k + n \in DOMAIN ops /\ rest[n] = ops[k + n]
      /\ DOMAIN rest \subseteq Nat \ {0} /\ k \in Nat /\ DOMAIN batch \subseteq Nat
  <2>1. /\ \A n \in DOMAIN batch : n \in DOMAIN ops /\ n <= k /\ batch[n] = ops[n]
        /\ \A n \in DOMAIN rest : k + n \in DOMAIN ops /\ rest[n] = ops[k + n]
        /\ DOMAIN batch = 1..k /\ DOMAIN rest = 1..Len(rest)
    BY BatchDomains
  <2>2. k \in Nat /\ Len(rest) \in Nat
    BY BatchFacts
  <2> HIDE DEF batch, rest, k
  <2> QED BY <2>1, <2>2
<1> HIDE DEF batch, rest, k
<1>2. OpsFit(rest, users, rows)
  BY <1>1 DEF OpsFit
<1>3. OpsFit(batch, users, rows)
  BY <1>1 DEF OpsFit
<1>4. \A m \in DOMAIN batch, n \in DOMAIN rest : batch[m].user # rest[n].user
  <2> SUFFICES ASSUME NEW m \in DOMAIN batch, NEW n \in DOMAIN rest,
                      batch[m].user = rest[n].user
               PROVE  FALSE
    OBVIOUS
  <2>1. m = k + n
    BY <1>1 DEF OpsFit
  <2> QED BY <1>1, <2>1
<1> QED BY <1>2, <1>3, <1>4 DEF batch, rest

(* Adding rows for users who have none.                                    *)
LEMMA AddFits ==
    ASSUME NEW rows \in Seq(Row), NEW batch \in Seq(Op), NEW users,
           OpsFit(batch, users, rows),
           \A n \in DOMAIN batch : batch[n].kind = "add", OneEach(rows),
           NEW new, new = Added(rows, batch)
    PROVE  /\ OneEach(new)
           /\ \A i \in DOMAIN rows : i \in DOMAIN new /\ new[i] = rows[i]
           /\ \A n \in DOMAIN batch : HasRow(batch[n].user, new)
           /\ \A i \in DOMAIN new \ DOMAIN rows :
                 \E n \in DOMAIN batch : new[i].user = batch[n].user
<1> DEFINE L == Len(rows)
           K == Adding(batch)
<1>0. PICK h : Lists(h, K, Len(batch)) /\ Extends(new, rows, batch, h)
  BY AddedFacts
<1>1. /\ new \in Seq(Row) /\ Len(new) = L + Len(h)
      /\ \A i \in 1..L : new[i] = rows[i]
      /\ \A n \in 1..Len(h) : new[L + n] = NewCell(batch[h[n]])
  BY <1>0 DEF Extends
<1>2. /\ L \in Nat /\ DOMAIN rows = 1..L
      /\ Len(batch) \in Nat /\ DOMAIN batch = 1..Len(batch)
  BY LenProperties
<1>3. DOMAIN new = 1..Len(new)
  BY <1>1, LenProperties
<1>4. /\ Len(h) \in Nat /\ \A n \in 1..Len(h) : h[n] \in K /\ h[n] \in 1..Len(batch)
      /\ \A m, n \in 1..Len(h) : h[m] = h[n] => m = n
  <2> HIDE DEF K
  <2>1. Len(h) \in Nat /\ \A n \in 1..Len(h) : h[n] \in K /\ h[n] \in 1..Len(batch)
    BY <1>0, <1>2, ListsFacts
  <2>2. ASSUME NEW m \in 1..Len(h), NEW n \in 1..Len(h), h[m] = h[n] PROVE m = n
    BY <1>0, <1>2, <2>2, ListsOnce
  <2> QED BY <2>1, <2>2
<1>5. \A n \in DOMAIN batch : \E m \in 1..Len(h) : h[m] = n
  <2>1. K = DOMAIN batch
    BY DEF Adding
  <2> QED BY <1>0, <1>2, <2>1 DEF Lists
<1> HIDE DEF L, K
<1>6. ASSUME NEW n \in 1..Len(h) PROVE new[L + n].user = batch[h[n]].user
  <2>1. new[L + n] = NewCell(batch[h[n]])
    BY <1>1
  <2> QED BY <2>1 DEF NewCell
<1>7. \A i \in DOMAIN new \ DOMAIN rows :
         \E n \in 1..Len(h) : i = L + n /\ new[i].user = batch[h[n]].user
  <2> SUFFICES ASSUME NEW i \in DOMAIN new \ DOMAIN rows
               PROVE  \E n \in 1..Len(h) : i = L + n /\ new[i].user = batch[h[n]].user
    OBVIOUS
  <2>1. i - L \in 1..Len(h) /\ i = L + (i - L)
    BY <1>1, <1>2, <1>3, <1>4
  <2> QED BY <1>6, <2>1
<1>8. \A i \in DOMAIN rows : i \in DOMAIN new /\ new[i] = rows[i]
  BY <1>1, <1>2, <1>3, <1>4
<1>9. \A n \in DOMAIN batch : HasRow(batch[n].user, new)
  <2> SUFFICES ASSUME NEW n \in DOMAIN batch PROVE HasRow(batch[n].user, new)
    OBVIOUS
  <2>1. PICK m \in 1..Len(h) : h[m] = n
    BY <1>5
  <2>2. L + m \in DOMAIN new /\ new[L + m].user = batch[n].user
    BY <1>1, <1>2, <1>3, <1>4, <1>6, <2>1
  <2> QED BY <2>2 DEF HasRow
<1>10. ASSUME NEW i \in DOMAIN new, NEW j \in DOMAIN new, new[i].user = new[j].user
       PROVE  i = j
  <2>1. CASE i \in DOMAIN rows /\ j \in DOMAIN rows
    BY <1>8, <1>10, <2>1 DEF OneEach
  <2>2. ASSUME NEW a \in DOMAIN rows, NEW b \in DOMAIN new \ DOMAIN rows
        PROVE  new[a].user # new[b].user
    <3>1. PICK n \in 1..Len(h) : new[b].user = batch[h[n]].user
      BY <1>7
    <3>2. h[n] \in DOMAIN batch
      BY <1>2, <1>4
    <3>3. ~HasRow(batch[h[n]].user, rows)
      BY <3>2 DEF OpsFit, OpFits
    <3> QED BY <1>8, <3>1, <3>3 DEF HasRow
  <2>3. CASE i \notin DOMAIN rows /\ j \notin DOMAIN rows
    <3>1. PICK m \in 1..Len(h) : i = L + m /\ new[i].user = batch[h[m]].user
      BY <1>7, <2>3
    <3>2. PICK n \in 1..Len(h) : j = L + n /\ new[j].user = batch[h[n]].user
      BY <1>7, <2>3
    <3>3. h[m] \in DOMAIN batch /\ h[n] \in DOMAIN batch
      BY <1>2, <1>4
    <3>4. h[m] = h[n]
      BY <1>10, <3>1, <3>2, <3>3 DEF OpsFit
    <3>5. m = n
      BY <1>4, <3>4
    <3> QED BY <3>1, <3>2, <3>5
  <2> QED BY <1>10, <2>1, <2>2, <2>3
<1>11. OneEach(new)
  BY <1>10 DEF OneEach
<1>12. \A i \in DOMAIN new \ DOMAIN rows : \E n \in DOMAIN batch : new[i].user = batch[n].user
  BY <1>2, <1>4, <1>7
<1> QED BY <1>8, <1>9, <1>11, <1>12

(* Updating rows of the users they are of.                                 *)
LEMMA UpdateFits ==
    ASSUME NEW rows \in Seq(Row), NEW batch \in Seq(Op), NEW users,
           OpsFit(batch, users, rows),
           \A n \in DOMAIN batch : batch[n].kind = "update"
    PROVE  SameUsers(Updated(rows, batch), rows)
<1> DEFINE new == Updated(rows, batch)
<1>1. /\ new \in Seq(Row) /\ Len(new) = Len(rows)
      /\ \A i \in 1..Len(rows) :
            LET for == {n \in DOMAIN batch : batch[n].row = i /\ batch[n].kind # "delete"}
            IN  \/ for = {} /\ new[i] = rows[i]
                \/ \E n \in for : new[i] = CellOf(batch[n], rows[i])
  BY UpdatedFacts
<1>2. DOMAIN rows = 1..Len(rows) /\ DOMAIN new = 1..Len(rows)
  BY <1>1, LenProperties
<1> HIDE DEF new
<1>3. ASSUME NEW i \in DOMAIN rows PROVE new[i].user = rows[i].user
  <2>1. CASE new[i] = rows[i]
    BY <2>1
  <2>2. ASSUME NEW n \in DOMAIN batch, batch[n].row = i, new[i] = CellOf(batch[n], rows[i])
        PROVE  new[i].user = rows[i].user
    <3>1. new[i].user = batch[n].user
      BY <2>2 DEF CellOf
    <3>2. rows[i].user = batch[n].user
      BY <2>2 DEF OpsFit, OpFits
    <3> QED BY <3>1, <3>2
  <2> QED BY <1>1, <1>2, <2>1, <2>2
<1> QED BY <1>2, <1>3 DEF SameUsers, new

(* Deleting rows of deleted users.                                         *)
LEMMA DeleteFits ==
    ASSUME NEW rows \in Seq(Row), NEW batch \in Seq(Op), NEW users,
           OpsFit(batch, users, rows),
           \A n \in DOMAIN batch : batch[n].kind = "delete", OneEach(rows)
    PROVE  LET new == Deleted(rows, batch) IN
           /\ OneEach(new)
           /\ \A u \in User : HasRow(u, rows) /\ users[u].state = "live" => HasRow(u, new)
<1> DEFINE new == Deleted(rows, batch)
           K == Left(rows, batch)
<1>1. PICK h : Lists(h, K, Len(rows)) /\ new = Taken(rows, h) /\ new \in Seq(Row)
  BY DeletedFacts
<1>2. Len(rows) \in Nat /\ DOMAIN rows = 1..Len(rows)
  BY LenProperties
<1>3. /\ Len(h) \in Nat /\ \A n \in 1..Len(h) : h[n] \in K /\ h[n] \in 1..Len(rows)
      /\ \A m, n \in 1..Len(h) : h[m] = h[n] => m = n
  <2>1. Lists(h, K, Len(rows))
    BY <1>1
  <2> HIDE DEF K
  <2>2. Len(h) \in Nat /\ \A n \in 1..Len(h) : h[n] \in K /\ h[n] \in 1..Len(rows)
    BY <1>2, <2>1, ListsFacts
  <2>3. ASSUME NEW m \in 1..Len(h), NEW n \in 1..Len(h), h[m] = h[n] PROVE m = n
    BY <1>2, <2>1, <2>3, ListsOnce
  <2> QED BY <2>2, <2>3
<1>4. \A k \in K : \E n \in 1..Len(h) : h[n] = k
  <2>1. K \subseteq 1..Len(rows)
    BY <1>2 DEF Left
  <2>2. Lists(h, K, Len(rows))
    BY <1>1
  <2> HIDE DEF K
  <2> QED BY <2>1, <2>2 DEF Lists
<1>5. DOMAIN new = 1..Len(h) /\ \A n \in 1..Len(h) : new[n] = rows[h[n]]
  BY <1>1 DEF Taken
<1> HIDE DEF new
<1>6. OneEach(new)
  <2> SUFFICES ASSUME NEW i \in DOMAIN new, NEW j \in DOMAIN new, new[i].user = new[j].user
               PROVE  i = j
    BY DEF OneEach
  <2>1. h[i] \in DOMAIN rows /\ h[j] \in DOMAIN rows /\ rows[h[i]].user = rows[h[j]].user
    BY <1>2, <1>3, <1>5
  <2>2. h[i] = h[j]
    BY <2>1 DEF OneEach
  <2> QED BY <1>3, <1>5, <2>2
<1>7. ASSUME NEW u \in User, HasRow(u, rows), users[u].state = "live" PROVE HasRow(u, new)
  <2>1. PICK i \in DOMAIN rows : rows[i].user = u
    BY <1>7 DEF HasRow
  <2>2. \A n \in DOMAIN batch : batch[n].row # i
    <3> SUFFICES ASSUME NEW n \in DOMAIN batch, batch[n].row = i PROVE FALSE
      OBVIOUS
    <3>1. rows[i].user = batch[n].user /\ users[batch[n].user].state = "deleted"
      BY DEF OpsFit, OpFits
    <3> QED BY <1>7, <2>1, <3>1
  <2>3. i \in K
    BY <2>2 DEF Left
  <2>4. PICK n \in 1..Len(h) : h[n] = i
    BY <1>4, <2>3
  <2> QED BY <1>5, <2>1, <2>4 DEF HasRow
<1> QED BY <1>6, <1>7 DEF new

(* What a run remembers fits the sheet as it is, whatever has happened to  *)
(* the values meanwhile.                                                   *)
RunFits(r) ==
    /\ At(r, "readUsers") => SameUsers(runs[r].rows, sheet)
    /\ At(r, "flush") => OpsFit(runs[r].ops, db, sheet)
    /\ step[r] \in {"flush", "recordPush"} =>
          \A u \in runs[r].pushed : Served(u, db, sheet)
    /\ step[r] \in {"job", "fetchRows", "readUsers"} => runs[r].pushed = {}
    /\ step[r] \in {"readDb", "readRecords"} =>
          \A i \in DOMAIN runs[r].rows : HasRow(runs[r].rows[i].user, sheet)
    /\ At(r, "readRecords") =>
          \A u \in User : runs[r].users[u] # None => db[u].state # "none"
    /\ step[r] \in {"write", "conflicts", "recordPull"} =>
          \A i \in DOMAIN runs[r].marks : Served(runs[r].marks[i].user, db, sheet)

(* What holds of the sheet, its records and the runs.                      *)
SheetFits ==
    /\ OneEach(sheet)
    /\ \A u \in User : records[u].known => Served(u, db, sheet)
    /\ \A r \in Run : RunFits(r)

(* It holds as long as nothing has gone wrong.                             *)
SheetInv == mishaps = {} => SheetFits

(* Users are created once and deleted once.                                *)
Ages ==
    \A u \in User :
        \/ db'[u].state = db[u].state
        \/ db[u].state = "none" /\ db'[u].state = "live"
        \/ db[u].state = "live" /\ db'[u].state = "deleted"

(* The rows are where they were, each of the same user.                    *)
Stays == DOMAIN sheet' = DOMAIN sheet /\ \A i \in DOMAIN sheet : sheet'[i].user = sheet[i].user

(* Who has a row has it where the rows stay.                               *)
LEMMA HasRowStays ==
    ASSUME Stays, NEW u
    PROVE  HasRow(u, sheet)' <=> HasRow(u, sheet)
BY DEF HasRow, Stays

(* Whoever is served is, unless the row of a live user goes.               *)
LEMMA ServedStays ==
    ASSUME Ages, NEW u \in User, Served(u, db, sheet),
           HasRow(u, sheet) /\ db[u].state = "live" => HasRow(u, sheet)'
    PROVE  Served(u, db, sheet)'
BY DEF Ages, Served

(* As the system ages, a run that stands still keeps fitting.              *)
LEMMA StandFits ==
    ASSUME TypeOK, Ages, Stays, NEW r \in Run, RunFits(r), step'[r] = step[r],
           runs'[r].rows = runs[r].rows, runs'[r].ops = runs[r].ops,
           runs'[r].pushed = runs[r].pushed, runs'[r].users = runs[r].users,
           runs'[r].marks = runs[r].marks
    PROVE  RunFits(r)'
<1>0. /\ runs[r].rows \in Seq(Row) /\ runs[r].ops \in Seq(Op)
      /\ runs[r].pushed \subseteq User /\ runs[r].marks \in Seq(Mark)
  <2>1. runs[r] \in RunState
    BY DEF TypeOK
  <2> QED BY <2>1 DEF RunState
<1>1. ASSUME NEW u \in User, Served(u, db, sheet) PROVE Served(u, db, sheet)'
  BY <1>1, HasRowStays, ServedStays
<1>2. At(r, "readUsers")' => SameUsers(runs[r].rows, sheet)'
  BY DEF RunFits, At, SameUsers, Stays
<1>3. ASSUME At(r, "flush")' PROVE OpsFit(runs[r].ops, db, sheet)'
  <2>1. OpsFit(runs[r].ops, db, sheet)
    BY <1>3 DEF RunFits, At
  <2>2. \A n \in DOMAIN runs[r].ops : runs[r].ops[n] \in Op
    BY <1>0, LenProperties, ElementOfSeq
  <2>3. ASSUME NEW op \in Op, OpFits(op, db, sheet) PROVE OpFits(op, db, sheet)'
    <3>1. op.user \in User
      BY OpFields
    <3>2. db'[op.user].state # "none" /\ (op.kind = "delete" => db'[op.user].state = "deleted")
      BY <2>3, <3>1 DEF OpFits, Ages
    <3>3. op.kind = "add" => ~HasRow(op.user, sheet)'
      BY <2>3, HasRowStays DEF OpFits
    <3> QED BY <2>3, <3>2, <3>3 DEF OpFits, Stays
  <2>4. \A n \in DOMAIN runs[r].ops : OpFits(runs[r].ops[n], db, sheet)'
    BY <2>1, <2>2, <2>3 DEF OpsFit
  <2> QED BY <2>1, <2>4 DEF OpsFit
<1>4. ASSUME step'[r] \in {"flush", "recordPush"}, NEW u \in runs'[r].pushed
      PROVE  Served(u, db, sheet)'
  BY <1>0, <1>1, <1>4 DEF RunFits
<1>5. ASSUME step'[r] \in {"readDb", "readRecords"}, NEW i \in DOMAIN runs'[r].rows
      PROVE  HasRow(runs[r].rows[i].user, sheet)'
  BY <1>5, HasRowStays DEF RunFits
<1>6. At(r, "readRecords")' =>
          \A u \in User : runs'[r].users[u] # None => db'[u].state # "none"
  BY DEF RunFits, At, Ages
<1>7. ASSUME step'[r] \in {"write", "conflicts", "recordPull"},
             NEW i \in DOMAIN runs'[r].marks
      PROVE  Served(runs[r].marks[i].user, db, sheet)'
  <2>1. runs[r].marks[i] \in Mark
    BY <1>0, <1>7, LenProperties, ElementOfSeq
  <2>2. runs[r].marks[i].user \in User
    BY <2>1 DEF Mark
  <2>3. Served(runs[r].marks[i].user, db, sheet)
    BY <1>7 DEF RunFits
  <2> QED BY <1>1, <2>2, <2>3
<1>8. step'[r] \in {"job", "fetchRows", "readUsers"} => runs'[r].pushed = {}
  BY DEF RunFits
<1> QED BY <1>2, <1>3, <1>4, <1>5, <1>6, <1>7, <1>8 DEF RunFits, At

(* Who is not past the lock remembers nothing.                             *)
LEMMA IdleFits ==
    ASSUME NEW r \in Run, step'[r] = "idle" PROVE RunFits(r)'
BY DEF RunFits, At

(* Whoever moves past the lock is alone there.                             *)
LEMMA OthersAreIdle ==
    ASSUME LockInv, "outrun" \notin mishaps, NEW r \in Run, NEW s, Goto(r, s),
           Active(r) \/ ~lock, NEW q \in Run \ {r}
    PROVE  step'[q] = "idle"
<1>1. step[q] = "idle"
  BY DEF LockInv, Active
<1> QED BY <1>1 DEF Goto, LockInv

(* A run goes on without touching what the others see.                     *)
LEMMA AloneFits ==
    ASSUME LockInv, NEW r \in Run, NEW s, Goto(r, s),
           mishaps = {} => SheetFits /\ RunFits(r)',
           Active(r) \/ ~lock, UNCHANGED <<db, sheet, records>>, mishaps \subseteq mishaps'
    PROVE  SheetInv'
<1> SUFFICES ASSUME mishaps' = {} PROVE SheetFits'
  BY DEF SheetInv
<1>1. SheetFits /\ RunFits(r)' /\ "outrun" \notin mishaps
  OBVIOUS
<1>2. \A q \in Run \ {r} : RunFits(q)'
  BY <1>1, OthersAreIdle, IdleFits
<1> QED BY <1>1, <1>2 DEF SheetFits

(* The statements that write nothing, and read rows or users.              *)
LEMMA PlainFits ==
    ASSUME LockInv, TypeInv, SheetInv, NEW r \in Run,
           \/ \E kind \in Kind : Acquire(r, kind)
           \/ \E token \in Token : CreateJob(r, token)
           \/ FetchRows(r) \/ FetchCells(r) \/ ReadDb(r)
           \/ FailToFetch(r) \/ EndJob(r, "success") \/ EndJob(r, "failed")
           \/ Release(r) \/ Stop(r)
    PROVE  SheetInv'
<1>1. /\ UNCHANGED <<db, sheet, records, mishaps>>
      /\ Active(r) \/ ~lock
  BY DEF Acquire, CreateJob, FetchRows, FetchCells, ReadDb, FailToFetch, EndJob, Release,
     Stop, data, At, Active
<1>2. /\ step \in [Run -> RunStep] /\ runs \in [Run -> RunState] /\ runs[r] \in RunState
      /\ sheet \in Seq(Row)
  BY DEF TypeInv, TypeOK
<1>3. ASSUME NEW s, Goto(r, s), mishaps = {} => RunFits(r)'
      PROVE  SheetInv'
  <2>1. mishaps = {} => SheetFits /\ RunFits(r)'
    BY <1>3 DEF SheetInv
  <2> QED BY <1>1, <1>3, <2>1, AloneFits
<1>4. ASSUME NEW s \in {"idle", "success", "failed", "release", "fetchCells"}, Goto(r, s)
      PROVE  SheetInv'
  <2>1. step'[r] = s
    BY <1>2, <1>4 DEF Goto
  <2>2. RunFits(r)'
    BY <2>1 DEF RunFits, At
  <2> QED BY <1>3, <1>4, <2>2
<1>5. ASSUME NEW kind \in Kind, Acquire(r, kind) PROVE SheetInv'
  <2>1. Goto(r, "job")
    BY <1>5 DEF Acquire
  <2>2. step'[r] = "job"
    BY <1>2, <2>1 DEF Goto
  <2>3. runs'[r].pushed = {}
    BY <1>5 DEF Acquire, NoRun
  <2>4. RunFits(r)'
    BY <2>2, <2>3 DEF RunFits, At
  <2> QED BY <1>3, <2>1, <2>4
<1>6. ASSUME NEW token \in Token, CreateJob(r, token) PROVE SheetInv'
  <2> DEFINE s == IF ~token THEN "success"
                  ELSE IF runs[r].kind = "pull" THEN "fetchCells" ELSE "fetchRows"
  <2>1. Goto(r, s) /\ step[r] = "job"
    BY <1>6 DEF CreateJob, At
  <2>2. CASE s # "fetchRows"
    BY <1>4, <2>1, <2>2
  <2>3. CASE s = "fetchRows"
    <3>1. Goto(r, "fetchRows") /\ step'[r] = "fetchRows"
      BY <1>2, <2>1, <2>3 DEF Goto
    <3>2. runs'[r].pushed = runs[r].pushed
      BY <1>2, <1>6 DEF CreateJob, Set, RunState
    <3>3. mishaps = {} => RunFits(r)'
      BY <2>1, <3>1, <3>2 DEF SheetInv, SheetFits, RunFits, At
    <3> QED BY <1>3, <3>1, <3>3
  <2> QED BY <2>2, <2>3
<1>7. CASE FetchRows(r)
  <2>1. Goto(r, "readUsers") /\ step'[r] = "readUsers" /\ step[r] = "fetchRows"
    BY <1>2, <1>7 DEF FetchRows, Goto, At
  <2>2. runs'[r].pushed = runs[r].pushed /\ runs'[r].rows = sheet
    BY <1>2, <1>7 DEF FetchRows, Set, RunState
  <2>3. SameUsers(runs[r].rows, sheet)'
    BY <1>1, <2>2 DEF SameUsers
  <2>4. mishaps = {} => RunFits(r)'
    BY <2>1, <2>2, <2>3 DEF SheetInv, SheetFits, RunFits, At
  <2> QED BY <1>3, <2>1, <2>4
<1>8. CASE FetchCells(r)
  <2>1. Goto(r, "readDb") /\ step'[r] = "readDb"
    BY <1>2, <1>8 DEF FetchCells, Goto
  <2>2. runs'[r].rows = sheet
    BY <1>2, <1>8 DEF FetchCells, Set, RunState
  <2>3. \A i \in DOMAIN runs'[r].rows : HasRow(runs[r].rows[i].user, sheet)'
    BY <1>1, <2>2 DEF HasRow
  <2>4. RunFits(r)'
    BY <2>1, <2>3 DEF RunFits, At
  <2> QED BY <1>3, <2>1, <2>4
<1>9. CASE ReadDb(r)
  <2>1. Goto(r, "readRecords") /\ step'[r] = "readRecords" /\ step[r] = "readDb"
    BY <1>2, <1>9 DEF ReadDb, Goto, At
  <2>2. runs'[r].rows = runs[r].rows
    BY <1>2, <1>9 DEF ReadDb, Set, RunState
  <2>3. runs'[r].users = [u \in User |-> IF Live(u) THEN db[u].value ELSE None]
    BY <1>2, <1>9 DEF ReadDb, Set, RunState
  <2>4. \A u \in User : runs'[r].users[u] # None => db'[u].state # "none"
    BY <1>1, <2>3 DEF Live
  <2>5. mishaps = {} => \A i \in DOMAIN runs'[r].rows : HasRow(runs[r].rows[i].user, sheet)'
    BY <1>1, <2>1, <2>2 DEF SheetInv, SheetFits, RunFits
  <2>6. mishaps = {} => RunFits(r)'
    BY <2>1, <2>4, <2>5 DEF RunFits, At
  <2> QED BY <1>3, <2>1, <2>6
<1>10. CASE FailToFetch(r) \/ EndJob(r, "success") \/ EndJob(r, "failed") \/ Release(r) \/ Stop(r)
  BY <1>4, <1>10 DEF FailToFetch, EndJob, Release, Stop
<1> QED BY <1>5, <1>6, <1>7, <1>8, <1>9, <1>10

(* What has rows in a sheet where the users are the same.                  *)
LEMMA SameHave ==
    ASSUME NEW rows, NEW others, SameUsers(rows, others), NEW u
    PROVE  HasRow(u, rows) <=> HasRow(u, others)
BY DEF SameUsers, HasRow

(* A batch of one kind, which makes no row move up below one that is still *)
(* to be written, keeps one row for each user and leaves what is to follow *)
(* in place; whom it is about is served.                                   *)
LEMMA WrittenFits ==
    ASSUME NEW rows \in Seq(Row), NEW ops \in Seq(Op), ops # <<>>, NEW users,
           OpsFit(ops, users, rows), OneEach(rows),
           ~Mixed(BatchOf(ops)), ~Shifts(BatchOf(ops), RestOf(ops)),
           NEW new, new = Written(rows, BatchOf(ops))
    PROVE  /\ OneEach(new)
           /\ \A u \in User : Served(u, users, rows) => Served(u, users, new)
           /\ OpsFit(RestOf(ops), users, new)
           /\ \A n \in DOMAIN BatchOf(ops) : Served(BatchOf(ops)[n].user, users, new)
<1> DEFINE batch == BatchOf(ops)
           rest == RestOf(ops)
           kind == batch[1].kind
<1>1. /\ batch \in Seq(Op) /\ rest \in Seq(Op) /\ Len(batch) \in Nat \ {0}
  BY BatchFacts
<1>2. /\ OpsFit(rest, users, rows) /\ OpsFit(batch, users, rows)
      /\ \A m \in DOMAIN batch, n \in DOMAIN rest : batch[m].user # rest[n].user
  BY RestFits
<1>3. /\ ~Mixed(batch) /\ ~Shifts(batch, rest) /\ new = Written(rows, batch)
  OBVIOUS
<1> HIDE DEF batch, rest
<1>4. /\ \A n \in DOMAIN batch : batch[n].kind = kind
      /\ kind = "delete" => rest = <<>>
  BY <1>3 DEF Mixed, Shifts
<1>5. kind \in {"add", "update", "delete"}
  <2>1. batch[1] \in Op
    BY <1>1, ElementOfSeq
  <2> QED BY <2>1, OpFields
<1>6. CASE kind = "add"
  <2>1. new = Added(rows, batch)
    BY <1>3, <1>6 DEF Written
  <2>2. /\ OneEach(new)
        /\ \A i \in DOMAIN rows : i \in DOMAIN new /\ new[i] = rows[i]
        /\ \A n \in DOMAIN batch : HasRow(batch[n].user, new)
        /\ \A i \in DOMAIN new \ DOMAIN rows :
              \E n \in DOMAIN batch : new[i].user = batch[n].user
    <3>1. \A n \in DOMAIN batch : batch[n].kind = "add"
      BY <1>4, <1>6
    <3>2. OpsFit(batch, users, rows) /\ batch \in Seq(Op)
      BY <1>1, <1>2
    <3> QED BY ZenonT(30), <2>1, <3>1, <3>2, AddFits
  <2>3. \A u : HasRow(u, rows) => HasRow(u, new)
    BY <2>2 DEF HasRow
  <2>4. \A u \in User : Served(u, users, rows) => Served(u, users, new)
    BY <2>3 DEF Served
  <2>5. \A n \in DOMAIN batch : Served(batch[n].user, users, new)
    BY <1>2, <2>2 DEF Served, OpsFit, OpFits
  <2>6. ASSUME NEW n \in DOMAIN rest PROVE OpFits(rest[n], users, new)
    <3>1. OpFits(rest[n], users, rows)
      BY <1>2 DEF OpsFit
    <3>2. rest[n].kind = "add" => ~HasRow(rest[n].user, new)
      BY <1>2, <2>2, <3>1 DEF OpFits, HasRow
    <3> QED BY <2>2, <3>1, <3>2 DEF OpFits
  <2>7. OpsFit(rest, users, new)
    BY <1>2, <2>6 DEF OpsFit
  <2> QED BY <2>2, <2>4, <2>5, <2>7 DEF batch, rest
<1>7. CASE kind = "update"
  <2>1. new = Updated(rows, batch)
    BY <1>3, <1>7 DEF Written
  <2>2. SameUsers(new, rows)
    <3>1. \A n \in DOMAIN batch : batch[n].kind = "update"
      BY <1>4, <1>7
    <3> QED BY <1>1, <1>2, <2>1, <3>1, UpdateFits
  <2>3. \A u : HasRow(u, new) <=> HasRow(u, rows)
    BY <2>2, SameHave
  <2>4. OneEach(new)
    BY <2>2 DEF OneEach, SameUsers
  <2>5. \A u \in User : Served(u, users, rows) => Served(u, users, new)
    BY <2>3 DEF Served
  <2>6. ASSUME NEW n \in DOMAIN batch PROVE Served(batch[n].user, users, new)
    <3>1. OpFits(batch[n], users, rows) /\ batch[n].kind # "add"
      BY <1>2, <1>4, <1>7 DEF OpsFit
    <3>2. HasRow(batch[n].user, rows)
      BY <3>1 DEF OpFits, HasRow
    <3> QED BY <2>3, <3>1, <3>2 DEF OpFits, Served
  <2>7. ASSUME NEW n \in DOMAIN rest PROVE OpFits(rest[n], users, new)
    <3>1. OpFits(rest[n], users, rows)
      BY <1>2 DEF OpsFit
    <3> QED BY <2>2, <2>3, <3>1 DEF OpFits, SameUsers
  <2>8. OpsFit(rest, users, new)
    BY <1>2, <2>7 DEF OpsFit
  <2> QED BY <2>4, <2>5, <2>6, <2>8 DEF batch, rest
<1>8. CASE kind = "delete"
  <2>1. new = Deleted(rows, batch)
    BY <1>3, <1>8 DEF Written
  <2>2. /\ OneEach(new)
        /\ \A u \in User : HasRow(u, rows) /\ users[u].state = "live" => HasRow(u, new)
    <3>1. \A n \in DOMAIN batch : batch[n].kind = "delete"
      BY <1>4, <1>8
    <3> QED BY <1>1, <1>2, <2>1, <3>1, DeleteFits
  <2>3. \A u \in User : Served(u, users, rows) => Served(u, users, new)
    BY <2>2 DEF Served
  <2>4. OpsFit(rest, users, new)
    BY <1>4, <1>8 DEF OpsFit
  <2>5. ASSUME NEW n \in DOMAIN batch PROVE Served(batch[n].user, users, new)
    <3>1. OpFits(batch[n], users, rows) /\ batch[n].kind = "delete"
      BY <1>2, <1>4, <1>8 DEF OpsFit
    <3> QED BY <3>1 DEF OpFits, Served
  <2> QED BY <2>2, <2>3, <2>4, <2>5 DEF batch, rest
<1> QED BY <1>5, <1>6, <1>7, <1>8

(* A run writes, and the others are outside the lock.                      *)
LEMMA AloneWrites ==
    ASSUME LockInv, NEW r \in Run, NEW s, Goto(r, s), Active(r) \/ ~lock,
           mishaps \subseteq mishaps',
           mishaps' = {} =>
               /\ OneEach(sheet)'
               /\ \A u \in User : records'[u].known => Served(u, db, sheet)'
               /\ RunFits(r)'
    PROVE  SheetInv'
<1> SUFFICES ASSUME mishaps' = {} PROVE SheetFits'
  BY DEF SheetInv
<1>1. "outrun" \notin mishaps
  OBVIOUS
<1>2. \A q \in Run \ {r} : RunFits(q)'
  BY <1>1, OthersAreIdle, IdleFits
<1> QED BY <1>2 DEF SheetFits

(* A batch is written, or is not, with the answer lost or not.             *)
LEMMA FlushFits ==
    ASSUME LockInv, TypeInv, SheetInv, NEW r \in Run, NEW answer \in Answers, Flush(r, answer)
    PROVE  SheetInv'
<1> DEFINE ops == runs[r].ops
           batch == BatchOf(ops)
           rest == RestOf(ops)
           s == IF rest = <<>> THEN "recordPush" ELSE "flush"
           new == Written(sheet, batch)
<1>1. /\ runs \in [Run -> RunState] /\ runs[r] \in RunState /\ ops \in Seq(Op) /\ ops # <<>>
      /\ step \in [Run -> RunStep] /\ sheet \in Seq(Row) /\ runs[r].pushed \subseteq User
      /\ records \in [User -> Record]
  BY DEF TypeInv, TypeOK, RunState, RunsReady, Flush
<1>2. /\ Goto(r, s) /\ step[r] = "flush" /\ Active(r)
      /\ mishaps \subseteq mishaps' /\ UNCHANGED <<db, records>>
  BY DEF Flush, At, Active
<1>3. /\ sheet' = CASE answer = "failed" -> sheet
                    [] answer \in {"done", "lost"} -> new
                    [] answer = "repeated" -> Written(new, batch)
      /\ mishaps' = mishaps \cup (IF answer = "repeated" THEN {"repeated"} ELSE {})
                            \cup (IF Mixed(batch) THEN {"mixed"} ELSE {})
                            \cup (IF Shifts(batch, rest) THEN {"shifted"} ELSE {})
  BY DEF Flush
<1>4. /\ runs'[r].ops = rest
      /\ runs'[r].pushed = IF answer \in {"done", "repeated"}
                           THEN runs[r].pushed \cup {op.user : op \in ToSet(batch)}
                           ELSE runs[r].pushed
  BY <1>1 DEF Flush, Set, RunState
<1>5. step'[r] = s
  BY <1>1, <1>2 DEF Goto
<1>6. answer \in Answer
  BY FaultAssumption
<1>7. ASSUME mishaps' = {}
      PROVE  /\ OneEach(sheet)'
             /\ \A u \in User : records'[u].known => Served(u, db, sheet)'
             /\ RunFits(r)'
  <2>1. SheetFits /\ answer # "repeated" /\ ~Mixed(batch) /\ ~Shifts(batch, rest)
    BY <1>3, <1>7 DEF SheetInv
  <2>2. OpsFit(ops, db, sheet) /\ OneEach(sheet) /\ \A u \in runs[r].pushed : Served(u, db, sheet)
    BY <1>2, <2>1 DEF SheetFits, RunFits, At
  <2>3. /\ OneEach(new)
        /\ \A u \in User : Served(u, db, sheet) => Served(u, db, new)
        /\ OpsFit(rest, db, new)
        /\ \A n \in DOMAIN batch : Served(batch[n].user, db, new)
    <3> HIDE DEF ops
    <3>1. ops \in Seq(Op) /\ ops # <<>> /\ sheet \in Seq(Row)
      BY <1>1
    <3> HIDE DEF new, batch, rest
    <3>2. new = Written(sheet, BatchOf(ops)) /\ ~Mixed(BatchOf(ops)) /\ ~Shifts(BatchOf(ops), RestOf(ops))
      BY <2>1 DEF new, batch, rest
    <3> QED BY ZenonT(30), <2>2, <3>1, <3>2, WrittenFits DEF batch, rest
  <2>4. OpsFit(rest, db, sheet)
    BY <1>1, <2>2, RestFits
  <2>5. \/ sheet' = sheet /\ answer = "failed"
        \/ sheet' = new /\ answer \in {"done", "lost"}
    <3>1. answer \in {"done", "failed", "lost"}
      BY <1>6, <2>1 DEF Answer
    <3> HIDE DEF new
    <3> QED BY <1>3, <3>1
  <2> HIDE DEF new, batch, rest, ops
  <2>6. OneEach(sheet)'
    BY <2>2, <2>3, <2>5
  <2>7. \A u \in User : Served(u, db, sheet) => Served(u, db, sheet)'
    BY <1>2, <2>3, <2>5
  <2>8. \A u \in User : records'[u].known => Served(u, db, sheet)'
    BY <1>2, <2>1, <2>7 DEF SheetFits
  <2>9. OpsFit(runs[r].ops, db, sheet)'
    BY <1>2, <1>4, <2>3, <2>4, <2>5
  <2>10. ASSUME NEW u \in runs'[r].pushed PROVE Served(u, db, sheet)'
    <3>1. CASE u \in runs[r].pushed
      BY <1>1, <2>2, <2>7, <3>1
    <3>2. CASE u \notin runs[r].pushed
      <4>1. answer = "done" /\ u \in {op.user : op \in ToSet(batch)}
        BY <1>4, <2>1, <2>10, <3>2
      <4>2. PICK n \in DOMAIN batch : u = batch[n].user
        BY <4>1 DEF ToSet
      <4>3. sheet' = new
        BY <2>5, <4>1
      <4> QED BY <1>2, <2>3, <4>2, <4>3
    <3> QED BY <3>1, <3>2
  <2> QED BY <1>5, <2>6, <2>8, <2>9, <2>10 DEF RunFits, At
<1> HIDE DEF s
<1> QED BY <1>2, <1>7, AloneWrites

(* The records of those who were pushed.                                   *)
LEMMA RecordPushFits ==
    ASSUME LockInv, TypeInv, SheetInv, NEW r \in Run, RecordPush(r)
    PROVE  SheetInv'
<1> DEFINE s == IF runs[r].kind = "push" THEN "success" ELSE "fetchCells"
<1>1. step \in [Run -> RunStep] /\ records \in [User -> Record]
  BY DEF TypeInv, TypeOK
<1>2. /\ Goto(r, s) /\ step[r] = "recordPush" /\ Active(r)
      /\ UNCHANGED <<db, sheet, mishaps>>
      /\ records' = [u \in User |-> IF u \in runs[r].pushed
                                  THEN [records[u] EXCEPT !.known = TRUE]
                                  ELSE records[u]]
  BY DEF RecordPush, At, Active
<1>3. RunFits(r)'
  BY <1>1, <1>2 DEF RunFits, At, Goto
<1>4. ASSUME mishaps = {}, NEW u \in User, records'[u].known PROVE Served(u, db, sheet)'
  <2>1. Served(u, db, sheet)
    <3>1. CASE u \in runs[r].pushed
      BY <1>2, <1>4, <3>1 DEF SheetInv, SheetFits, RunFits
    <3>2. CASE u \notin runs[r].pushed
      BY <1>2, <1>4, <3>2 DEF SheetInv, SheetFits
    <3> QED BY <3>1, <3>2
  <2> QED BY <1>2, <2>1
<1>5. mishaps = {} => OneEach(sheet)'
  BY <1>2 DEF SheetInv, SheetFits
<1> HIDE DEF s
<1> QED BY <1>2, <1>3, <1>4, <1>5, AloneWrites

(* Values are written to users, conflicts to their table.                  *)
LEMMA PullFits ==
    ASSUME LockInv, TypeInv, SheetInv, NEW r \in Run, WriteCell(r) \/ RecordConflicts(r)
    PROVE  SheetInv'
<1> DEFINE s == IF RecordConflicts(r) THEN "recordPull"
                ELSE IF Tail(runs[r].writes) = <<>> THEN "conflicts" ELSE "write"
<1>1. /\ step \in [Run -> RunStep] /\ runs \in [Run -> RunState] /\ runs[r] \in RunState
      /\ db \in [User -> UserRow] /\ runs[r].marks \in Seq(Mark)
  BY DEF TypeInv, TypeOK, RunState
<1>2. /\ Goto(r, s) /\ step[r] \in {"write", "conflicts"} /\ Active(r)
      /\ UNCHANGED <<sheet, records, mishaps>>
  BY DEF WriteCell, RecordConflicts, At, Active
<1>3. \A u \in User : db'[u].state = db[u].state
  <2>1. CASE WriteCell(r)
    BY <1>1, <2>1 DEF WriteCell, UserRow
  <2>2. CASE RecordConflicts(r)
    BY <2>2 DEF RecordConflicts
  <2> QED BY <2>1, <2>2
<1>4. runs'[r].marks = runs[r].marks
  BY <1>1 DEF WriteCell, RecordConflicts, Set, RunState
<1>5. \A u \in User : Served(u, db, sheet) => Served(u, db, sheet)'
  BY <1>2, <1>3 DEF Served
<1>6. step'[r] = s /\ s \in {"recordPull", "conflicts", "write"}
  BY <1>1, <1>2 DEF Goto
<1>7. ASSUME mishaps = {}, NEW i \in DOMAIN runs'[r].marks
      PROVE  Served(runs[r].marks[i].user, db, sheet)'
  <2>1. runs[r].marks[i] \in Mark
    BY <1>1, <1>4, <1>7, LenProperties, ElementOfSeq
  <2>2. runs[r].marks[i].user \in User
    BY <2>1 DEF Mark
  <2>3. Served(runs[r].marks[i].user, db, sheet)
    BY <1>2, <1>4, <1>7 DEF SheetInv, SheetFits, RunFits
  <2> QED BY <1>4, <1>5, <2>2, <2>3
<1>8. mishaps = {} => RunFits(r)'
  <2> HIDE DEF s
  <2> QED BY <1>6, <1>7 DEF RunFits, At
<1>9. mishaps = {} => OneEach(sheet)' /\ \A u \in User : records'[u].known => Served(u, db, sheet)'
  BY <1>2, <1>5 DEF SheetInv, SheetFits
<1> HIDE DEF s
<1> QED BY <1>2, <1>8, <1>9, AloneWrites

(* The records of those whose rows were looked at.                         *)
LEMMA RecordPullFits ==
    ASSUME LockInv, TypeInv, SheetInv, NEW r \in Run, RecordPull(r)
    PROVE  SheetInv'
<1> DEFINE marks == runs[r].marks
           s == IF Twice(marks) THEN "failed" ELSE "success"
<1>1. step \in [Run -> RunStep] /\ records \in [User -> Record]
  BY DEF TypeInv, TypeOK
<1>2. /\ Goto(r, s) /\ step[r] = "recordPull" /\ Active(r)
      /\ UNCHANGED <<db, sheet, mishaps>>
  BY DEF RecordPull, At, Active
<1>3. RunFits(r)'
  BY <1>1, <1>2 DEF RunFits, At, Goto
<1>4. ASSUME NEW u \in User, records'[u].known
      PROVE  records[u].known \/ \E i \in DOMAIN marks : marks[i].user = u
  <2>1. CASE Twice(marks)
    BY <1>4, <2>1 DEF RecordPull
  <2>2. CASE ~Twice(marks)
    <3>1. CASE \E i \in DOMAIN marks : marks[i].user = u
      BY <3>1
    <3>2. CASE ~\E i \in DOMAIN marks : marks[i].user = u
      <4>1. records' = [v \in User |->
                    IF \E i \in DOMAIN marks : marks[i].user = v
                    THEN [known |-> TRUE,
                          baseline |-> marks[CHOOSE i \in DOMAIN marks : marks[i].user = v].value]
                    ELSE records[v]]
        BY <2>2 DEF RecordPull
      <4>2. records'[u] = records[u]
        BY <3>2, <4>1
      <4> QED BY <1>4, <4>2
    <3> QED BY <3>1, <3>2
  <2> QED BY <2>1, <2>2
<1>5. ASSUME mishaps = {}, NEW u \in User, records'[u].known PROVE Served(u, db, sheet)'
  <2>1. Served(u, db, sheet)
    BY <1>2, <1>4, <1>5 DEF SheetInv, SheetFits, RunFits
  <2> QED BY <1>2, <2>1
<1>6. mishaps = {} => OneEach(sheet)'
  BY <1>2 DEF SheetInv, SheetFits
<1> HIDE DEF s, marks
<1> QED BY <1>2, <1>3, <1>5, <1>6, AloneWrites

(* What is done about a user fits the rows it was decided by.              *)
LEMMA OpForFits ==
    ASSUME TypeOK, NEW u \in User, NEW rows \in Seq(Row), NEW direction,
           SameUsers(rows, sheet), OpsFor(u, rows, direction) # <<>>
    PROVE  /\ OpsFor(u, rows, direction)[1].user = u
           /\ OpFits(OpsFor(u, rows, direction)[1], db, sheet)
<1> DEFINE i == RowIndex(u, rows)
           value == IF Pushes(direction) THEN db[u].value ELSE None
           op(kind, v) == [kind |-> kind, row |-> i, user |-> u, value |-> v]
<1>1. /\ i \in Nat /\ (i = 0 <=> RowsOf(u, rows) = {})
      /\ i # 0 => i \in RowsOf(u, rows)
  BY RowIndexFacts
<1>2. db[u].state \in {"none", "live", "deleted"}
  BY DEF TypeOK, UserRow
<1>3. i = 0 => ~HasRow(u, sheet)
  BY <1>1 DEF RowsOf, HasRow, SameUsers
<1>4. i # 0 => i \in DOMAIN sheet /\ sheet[i].user = u
  BY <1>1 DEF RowsOf, SameUsers
<1> HIDE DEF i, value
<1>5. \/ OpsFor(u, rows, direction) = <<op("delete", None)>> /\ db[u].state = "deleted" /\ i # 0
      \/ OpsFor(u, rows, direction) = <<op("add", value)>> /\ db[u].state = "live" /\ i = 0
      \/ OpsFor(u, rows, direction) = <<op("update", value)>> /\ db[u].state # "none" /\ i # 0
  BY <1>1, <1>2 DEF OpsFor, Live, i, value
<1>6. ASSUME NEW kind, NEW v, OpsFor(u, rows, direction) = <<op(kind, v)>>
      PROVE  LET o == OpsFor(u, rows, direction)[1] IN o.user = u /\ o.row = i /\ o.kind = kind
  BY <1>6
<1> HIDE DEF op
<1>7. CASE OpsFor(u, rows, direction) = <<op("delete", None)>> /\ db[u].state = "deleted" /\ i # 0
  <2>1. LET o == OpsFor(u, rows, direction)[1] IN o.user = u /\ o.row = i /\ o.kind = "delete"
    BY <1>6, <1>7
  <2> QED BY <1>4, <1>7, <2>1 DEF OpFits
<1>8. CASE OpsFor(u, rows, direction) = <<op("add", value)>> /\ db[u].state = "live" /\ i = 0
  <2>1. LET o == OpsFor(u, rows, direction)[1] IN o.user = u /\ o.row = i /\ o.kind = "add"
    BY <1>6, <1>8
  <2> QED BY <1>3, <1>8, <2>1 DEF OpFits
<1>9. CASE OpsFor(u, rows, direction) = <<op("update", value)>> /\ db[u].state # "none" /\ i # 0
  <2>1. LET o == OpsFor(u, rows, direction)[1] IN o.user = u /\ o.row = i /\ o.kind = "update"
    BY <1>6, <1>9
  <2> QED BY <1>4, <1>9, <2>1 DEF OpFits
<1> QED BY <1>5, <1>7, <1>8, <1>9

(* One operation for each user, as the rows read show him.                 *)
LEMMA ReadUsersFits ==
    ASSUME LockInv, TypeInv, SheetInv, NEW r \in Run, ReadUsers(r)
    PROVE  SheetInv'
<1> DEFINE rows == runs[r].rows
           dir == runs[r].direction
           ops == FlattenSeq(OpsOf(rows, dir))
           s == IF ops = <<>> THEN "recordPush" ELSE "flush"
<1>1. /\ step \in [Run -> RunStep] /\ runs \in [Run -> RunState] /\ runs[r] \in RunState
      /\ rows \in Seq(Row) /\ TypeOK
  BY DEF TypeInv, TypeOK, RunState
<1>2. /\ Goto(r, s) /\ step[r] = "readUsers" /\ Active(r)
      /\ UNCHANGED <<db, sheet, records, mishaps>>
  BY DEF ReadUsers, At, Active, data, OpsOf
<1>3. runs'[r].ops = ops /\ runs'[r].pushed = runs[r].pushed
  BY <1>1 DEF ReadUsers, Set, RunState, OpsOf
<1>4. step'[r] = s
  BY <1>1, <1>2 DEF Goto
<1> DEFINE K == Busy(rows, dir)
           L == Len(Created)
<1>5. PICK h : Lists(h, K, L) /\ OpsList(ops, h, rows, dir)
  BY <1>1, OpsTaken
<1>6. /\ L \in Nat /\ DOMAIN Created = 1..L /\ \A n \in 1..L : Created[n] \in User
      /\ \A m, n \in 1..L : Created[m] = Created[n] => m = n
  BY CreatedAssumption, LenProperties, ElementOfSeq DEF IsInjective
<1>7. /\ Len(h) \in Nat /\ \A n \in 1..Len(h) : h[n] \in K /\ h[n] \in 1..L
      /\ \A m, n \in 1..Len(h) : h[m] = h[n] => m = n
  <2> HIDE DEF K, L
  <2>1. Len(h) \in Nat /\ \A n \in 1..Len(h) : h[n] \in K /\ h[n] \in 1..L
    BY <1>5, <1>6, ListsFacts
  <2>2. ASSUME NEW m \in 1..Len(h), NEW n \in 1..Len(h), h[m] = h[n] PROVE m = n
    BY <1>5, <1>6, <2>2, ListsOnce
  <2> QED BY <2>1, <2>2
<1>8. ASSUME SameUsers(rows, sheet) PROVE OpsFit(ops, db, sheet)
  <2>1. ASSUME NEW n \in 1..Len(h)
        PROVE  /\ ops[n].user = Created[h[n]] /\ OpFits(ops[n], db, sheet)
    <3>1. ops[n] = OpsFor(Created[h[n]], rows, dir)[1]
      BY <1>5 DEF OpsList
    <3>2. Created[h[n]] \in User /\ OpsFor(Created[h[n]], rows, dir) # <<>>
      BY <1>6, <1>7 DEF Busy
    <3> HIDE DEF ops, rows, dir
    <3> QED BY <1>1, <1>8, <3>1, <3>2, OpForFits
  <2>2. DOMAIN ops = 1..Len(h)
    BY <1>5 DEF OpsList
  <2> HIDE DEF ops, L, K
  <2>3. ASSUME NEW m \in DOMAIN ops, NEW n \in DOMAIN ops, ops[m].user = ops[n].user
        PROVE  m = n
    <3>1. Created[h[m]] = Created[h[n]] /\ m \in 1..Len(h) /\ n \in 1..Len(h)
      BY <2>1, <2>2, <2>3
    <3>2. h[m] = h[n]
      BY <1>6, <1>7, <3>1
    <3> QED BY <1>7, <3>1, <3>2
  <2> QED BY <2>1, <2>2, <2>3 DEF OpsFit
<1>9. ASSUME mishaps = {}
      PROVE  /\ OneEach(sheet)'
             /\ \A u \in User : records'[u].known => Served(u, db, sheet)'
             /\ RunFits(r)'
  <2>1. SheetFits /\ SameUsers(rows, sheet) /\ runs[r].pushed = {}
    BY <1>2, <1>9 DEF SheetInv, SheetFits, RunFits, At
  <2>2. OpsFit(runs[r].ops, db, sheet)'
    BY <1>2, <1>3, <1>8, <2>1
  <2>3. RunFits(r)'
    <3> HIDE DEF ops
    <3>1. s \in {"flush", "recordPush"}
      OBVIOUS
    <3> HIDE DEF s
    <3> QED BY <1>3, <1>4, <2>1, <2>2, <3>1 DEF RunFits, At
  <2>4. OneEach(sheet)' /\ \A u \in User : records'[u].known => Served(u, db, sheet)'
    BY <1>2, <2>1 DEF SheetFits
  <2> QED BY <2>3, <2>4
<1> HIDE DEF s
<1> QED BY <1>2, <1>9, AloneWrites

(* Marks are made for rows of users the run has read.                      *)
LEMMA ReadRecordsFits ==
    ASSUME LockInv, TypeInv, SheetInv, NEW r \in Run, ReadRecords(r)
    PROVE  SheetInv'
<1> DEFINE rows == runs[r].rows
           users == runs[r].users
           outcome(row) == Outcome(row, users, runs[r].direction)
           K == {i \in DOMAIN rows : outcome(rows[i]) # "unknown"}
           marks == Only(rows, K)
           writes == Only(rows, {i \in DOMAIN rows : outcome(rows[i]) \in {"apply"}})
           s == IF writes = <<>> THEN "conflicts" ELSE "write"
<1>1. /\ step \in [Run -> RunStep] /\ runs \in [Run -> RunState] /\ runs[r] \in RunState
      /\ rows \in Seq(Row) /\ TypeOK
  BY DEF TypeInv, TypeOK, RunState
<1>2. /\ Goto(r, s) /\ step[r] = "readRecords" /\ Active(r)
      /\ UNCHANGED <<db, sheet, records, mishaps>>
  BY DEF ReadRecords, At, Active, data
<1>3. step'[r] = s
  BY <1>1, <1>2 DEF Goto
<1>4. /\ DOMAIN runs'[r].marks = DOMAIN marks
      /\ \A i \in DOMAIN marks : runs'[r].marks[i].user = marks[i].user
  <2> DEFINE baseline(row) ==
            IF outcome(row) \in {"noop", "db_wins", "apply"} THEN row.value
            ELSE records[row.user].baseline
             c(row) == [user |-> row.user, value |-> baseline(row)]
  <2>1. runs'[r].marks = [i \in DOMAIN marks |-> c(marks[i])]
    BY <1>1 DEF ReadRecords, Set, RunState
  <2>2. \A row : c(row).user = row.user
    OBVIOUS
  <2> HIDE DEF c, marks
  <2> QED BY <2>1, <2>2
<1>5. PICK h : Lists(h, K, Len(rows)) /\ marks = Taken(rows, h)
  <2> DEFINE R == Row
  <2>1. rows \in Seq(R)
    BY <1>1
  <2> HIDE DEF R, rows, K
  <2> QED BY <2>1, OnlyTakes
<1>6. Len(h) \in Nat /\ \A n \in 1..Len(h) : h[n] \in K
  <2>1. Len(rows) \in Nat
    BY <1>1, LenProperties
  <2> HIDE DEF K, rows
  <2> QED BY <1>5, <2>1, ListsFacts
<1>7. ASSUME mishaps = {}, NEW i \in DOMAIN marks PROVE Served(marks[i].user, db, sheet)
  <2>1. marks[i] = rows[h[i]] /\ h[i] \in K
    BY <1>5, <1>6, <1>7 DEF Taken
  <2>2. rows[h[i]].user \in User
    <3>1. rows[h[i]] \in Row
      BY <1>1, <2>1, LenProperties, ElementOfSeq
    <3> QED BY <3>1 DEF Row
  <2>3. users[rows[h[i]].user] # None
    BY <2>1 DEF Outcome
  <2>4. /\ \A u \in User : users[u] # None => db[u].state # "none"
        /\ \A n \in DOMAIN rows : HasRow(rows[n].user, sheet)
    BY <1>2, <1>7 DEF SheetInv, SheetFits, RunFits, At
  <2> HIDE DEF marks, rows, users
  <2> QED BY <2>1, <2>2, <2>3, <2>4 DEF Served
<1> HIDE DEF marks, writes
<1>8. mishaps = {} => RunFits(r)'
  <2>1. ASSUME mishaps = {}, NEW i \in DOMAIN runs'[r].marks
        PROVE  Served(runs[r].marks[i].user, db, sheet)'
    <3>1. Served(marks[i].user, db, sheet) /\ runs'[r].marks[i].user = marks[i].user
      BY <1>4, <1>7, <2>1
    <3> QED BY <1>2, <3>1
  <2>2. step'[r] \in {"conflicts", "write"}
    BY <1>3
  <2> QED BY <2>1, <2>2 DEF RunFits, At
<1>9. mishaps = {} => OneEach(sheet)' /\ \A u \in User : records'[u].known => Served(u, db, sheet)'
  BY <1>2 DEF SheetInv, SheetFits
<1> HIDE DEF s
<1> QED BY <1>2, <1>8, <1>9, AloneWrites

(* The system ages around runs that stand still.                           *)
LEMMA AgeingFits ==
    ASSUME TypeOK, SheetInv, Ages, mishaps \subseteq mishaps', mishaps' = {} => Stays,
           step' = step,
           \A r \in Run : runs'[r] \in {runs[r], [runs[r] EXCEPT !.quiet = FALSE]},
           \A u \in User : records'[u].known => records[u].known
    PROVE  SheetInv'
<1> SUFFICES ASSUME mishaps' = {} PROVE SheetFits'
  BY DEF SheetInv
<1>1. SheetFits /\ Stays
  BY DEF SheetInv
<1>2. OneEach(sheet)'
  BY <1>1 DEF SheetFits, OneEach, Stays
<1>3. ASSUME NEW u \in User, records'[u].known PROVE Served(u, db, sheet)'
  <2>1. Served(u, db, sheet)
    BY <1>1, <1>3 DEF SheetFits
  <2>2. HasRow(u, sheet)' <=> HasRow(u, sheet)
    BY <1>1, HasRowStays
  <2> QED BY <2>1, <2>2, ServedStays
<1>4. ASSUME NEW r \in Run PROVE RunFits(r)'
  <2>1. runs[r] \in RunState
    BY DEF TypeOK
  <2>2. /\ runs'[r].rows = runs[r].rows /\ runs'[r].ops = runs[r].ops
        /\ runs'[r].pushed = runs[r].pushed /\ runs'[r].users = runs[r].users
        /\ runs'[r].marks = runs[r].marks
    BY <2>1 DEF RunState
  <2>3. RunFits(r) /\ step'[r] = step[r]
    BY <1>1 DEF SheetFits
  <2> QED BY <1>1, <2>2, <2>3, StandFits
<1> QED BY <1>2, <1>3, <1>4 DEF SheetFits

(* What people, the API and resolutions of conflicts do.                   *)
LEMMA OthersFit ==
    ASSUME TypeOK, SheetInv, (\E q \in Resolver : ResolverStep(q)) \/ Change
    PROVE  SheetInv'
<1>1. step' = step /\ mishaps \subseteq mishaps'
  BY OthersKeepLock
<1>2. /\ db \in [User -> UserRow] /\ records \in [User -> Record] /\ sheet \in Seq(Row)
      /\ \A i \in DOMAIN sheet : sheet[i] \in Row
  <2>1. sheet \in Seq(Row)
    BY DEF TypeOK
  <2>2. \A i \in DOMAIN sheet : sheet[i] \in Row
    BY <2>1, LenProperties, ElementOfSeq
  <2> QED BY <2>1, <2>2 DEF TypeOK
<1>3. ASSUME Disturb, Ages, mishaps' = {} => Stays,
             \A u \in User : records'[u].known => records[u].known
      PROVE  SheetInv'
  <2>1. \A r \in Run : runs'[r] \in {runs[r], [runs[r] EXCEPT !.quiet = FALSE]}
    BY <1>3 DEF Disturb
  <2> QED BY <1>1, <1>3, <2>1, AgeingFits
<1>4. ASSUME NEW q \in Resolver, ResolverStep(q) PROVE SheetInv'
  <2>1. Disturb /\ UNCHANGED sheet
    BY <1>4 DEF ResolverStep, TakeConflict, ApplyConflict, Acknowledge, MarkResolved
  <2>2. Stays
    BY <2>1 DEF Stays
  <2> DEFINE c == resolutions[q].conflict
             u == conflicts[c].user
             v == conflicts[c].value
  <2>3. /\ db' = db \/ db' = [db EXCEPT ![u].value = v]
        /\ records' = records \/ records' = [records EXCEPT ![u].baseline = v]
    BY <1>4 DEF ResolverStep, TakeConflict, ApplyConflict, Acknowledge, MarkResolved
  <2> HIDE DEF u, v
  <2>4. \A w \in User : db'[w].state = db[w].state
    BY <1>2, <2>3 DEF UserRow
  <2>5. \A w \in User : records'[w].known = records[w].known
    BY <1>2, <2>3 DEF Record
  <2>6. Ages
    BY <2>4 DEF Ages
  <2> QED BY <1>3, <2>1, <2>2, <2>5, <2>6
<1>5. ASSUME Change PROVE SheetInv'
  <2>0. Disturb /\ records' = records
    BY <1>5 DEF Change, EditCell, RemoveRow, ChangeUser, CreateUser, DeleteUser, UpdateConfig, Edit
  <2>1. ASSUME NEW i \in DOMAIN sheet, RemoveRow(i) PROVE SheetInv'
    BY <2>1 DEF RemoveRow, SheetInv
  <2>2. ASSUME NEW i \in DOMAIN sheet, NEW v \in Value, EditCell(i, v) PROVE SheetInv'
    <3>1. sheet' = [sheet EXCEPT ![i].value = v] /\ db' = db
      BY <2>2 DEF EditCell
    <3>2. Stays /\ Ages
      BY <1>2, <3>1 DEF Stays, Ages, Row
    <3> QED BY <1>3, <2>0, <3>2
  <2>3. ASSUME sheet' = sheet, Ages PROVE SheetInv'
    BY <1>3, <2>0, <2>3 DEF Stays
  <2>4. ASSUME NEW u \in User, DeleteUser(u) \/ \E v \in Accepted : ChangeUser(u, v)
        PROVE  SheetInv'
    <3>1. sheet' = sheet
      BY <2>4 DEF DeleteUser, ChangeUser
    <3>2. Ages
      BY <1>2, <2>4 DEF DeleteUser, ChangeUser, Live, UserRow, Ages
    <3> QED BY <2>3, <3>1, <3>2
  <2>5. ASSUME NEW i \in DOMAIN Created, CreateUser(i) PROVE SheetInv'
    <3>1. sheet' = sheet /\ db' = [db EXCEPT ![Created[i]].state = "live"] /\ db[Created[i]].state = "none"
      BY <2>5 DEF CreateUser
    <3>2. Ages
      BY <1>2, <3>1 DEF UserRow, Ages
    <3> QED BY <2>3, <3>1, <3>2
  <2>6. ASSUME NEW new \in [direction : Directions, policy : Policies], UpdateConfig(new)
        PROVE  SheetInv'
    BY <2>3, <2>6 DEF UpdateConfig, Ages
  <2> QED BY <1>5, <2>1, <2>2, <2>4, <2>5, <2>6 DEF Change
<1> QED BY <1>4, <1>5

(* No step of anybody takes a row from a user or gives him a second one.   *)
LEMMA FitsNext ==
    ASSUME LockInv, TypeInv, SheetInv, [Next]_zohoVars
    PROVE  SheetInv'
<1>1. ASSUME NEW r \in Run, RunStepOf(r) \/ Stop(r) PROVE SheetInv'
  BY <1>1, PlainFits, ReadUsersFits, FlushFits, RecordPushFits, ReadRecordsFits, PullFits,
     RecordPullFits DEF RunStepOf
<1>2. CASE (\E q \in Resolver : ResolverStep(q)) \/ Change
  BY <1>2, OthersFit DEF TypeInv
<1>3. CASE LockExpires \/ UNCHANGED zohoVars
  <2>1. /\ UNCHANGED <<db, sheet, records, runs, step>> /\ mishaps \subseteq mishaps'
    BY <1>3 DEF LockExpires, zohoVars, data
  <2>2. Ages /\ Stays
    BY <2>1 DEF Ages, Stays
  <2> QED BY <2>1, <2>2, AgeingFits DEF TypeInv
<1> QED BY <1>1, <1>2, <1>3 DEF Next

(* Before the first run there are no rows, and no records.                 *)
LEMMA InitFits == ASSUME Init PROVE SheetInv
BY DEF Init, SheetInv, SheetFits, OneEach, RunFits, At

(* However many callers, users and rows: as long as runs stay within their *)
(* lock, no batch is mixed, repeated or makes rows move up below it and    *)
(* nobody takes rows out by hand, no user has two rows of the sheet, and   *)
(* none that was recorded as pushed has lost his.                          *)
THEOREM RowsAreKept == Spec => []RowPerUser
<1>1. Init => SheetInv
  BY InitFits
<1>2. LockInv /\ TypeInv /\ SheetInv /\ [Next]_zohoVars => SheetInv'
  BY FitsNext
<1>3. TypeInv /\ SheetInv => RowPerUser
  <2> SUFFICES ASSUME TypeInv, SheetFits, NEW u \in User
               PROVE  /\ Cardinality(RowsOf(u, sheet)) <= 1
                      /\ Live(u) /\ records[u].known => RowsOf(u, sheet) # {}
    BY DEF SheetInv, RowPerUser
  <2>1. \A i, j \in RowsOf(u, sheet) : i = j
    BY DEF SheetFits, OneEach, RowsOf
  <2>2. Cardinality(RowsOf(u, sheet)) <= 1
    <3>1. CASE RowsOf(u, sheet) = {}
      BY <3>1, FS_EmptySet
    <3>2. CASE RowsOf(u, sheet) # {}
      <4>1. PICK i : RowsOf(u, sheet) = {i}
        BY <2>1, <3>2
      <4> QED BY <4>1, FS_Singleton
    <3> QED BY <3>1, <3>2
  <2>3. Live(u) /\ records[u].known => RowsOf(u, sheet) # {}
    BY DEF SheetFits, Served, HasRow, Live, RowsOf
  <2> QED BY <2>2, <2>3
<1> QED BY <1>1, <1>2, <1>3, LockHolds, TypesHold, PTL DEF Spec

-----------------------------------------------------------------------------
(* What an undisturbed run leaves behind.                                  *)

(* The last row of a user, the one that sheetMap holds.                    *)
Lowest(i, u, rows) ==
    /\ i \in DOMAIN rows /\ rows[i].user = u
    /\ \A j \in DOMAIN rows : rows[j].user = u => j <= i

(* He has one, and it shows what he has if it is pushed.                   *)
Shown(u, users, rows, direction) ==
    \E i \in DOMAIN rows :
        /\ Lowest(i, u, rows)
        /\ Pushes(direction) => rows[i].value = users[u].value

(* That is so of everybody who is there.                                   *)
AllShown(users, rows, direction) ==
    \A u \in User : users[u].state = "live" => Shown(u, users, rows, direction)

(* An operation is about the last row of its user, and what he has.        *)
OpShows(op, users, rows, direction) ==
    /\ op.kind # "add" => Lowest(op.row, op.user, rows)
    /\ op.kind # "delete" =>
          op.value = IF Pushes(direction) THEN users[op.user].value ELSE None

(* Who is not shown yet will be by one of the operations.                  *)
OpsShow(ops, users, rows, direction) ==
    /\ OpsFit(ops, users, rows)
    /\ \A n \in DOMAIN ops : OpShows(ops[n], users, rows, direction)
    /\ \A u \in User : users[u].state = "live" =>
          Shown(u, users, rows, direction) \/ \E n \in DOMAIN ops : ops[n].user = u

(* Whoever had rows has no others than those.                              *)
KeepsRows(new, rows) ==
    \A i \in DOMAIN new : HasRow(new[i].user, rows) => \E j \in DOMAIN rows : rows[j] = new[i]

(* Below the rows there were, one for each operation of the batch.         *)
Appends(new, rows, batch) ==
    /\ new \in Seq(Row)
    /\ \A i \in DOMAIN rows : i \in DOMAIN new /\ new[i] = rows[i]
    /\ \A n \in DOMAIN batch : \E i \in DOMAIN new : new[i] = NewCell(batch[n])
    /\ \A i \in DOMAIN new \ DOMAIN rows : \E n \in DOMAIN batch : new[i] = NewCell(batch[n])

(* The last row is where sheetMap says.                                    *)
LEMMA LowestRow ==
    ASSUME NEW rows \in Seq(Row), NEW u
    PROVE  /\ HasRow(u, rows) => Lowest(RowIndex(u, rows), u, rows)
           /\ \A i : Lowest(i, u, rows) => i = RowIndex(u, rows) /\ RowsOf(u, rows) # {}
<1>1. Len(rows) \in Nat /\ DOMAIN rows = 1..Len(rows)
  BY LenProperties
<1>2. RowsOf(u, rows) \in SUBSET (1..Len(rows))
  BY <1>1 DEF RowsOf
<1>3. RowsOf(u, rows) # {} =>
         /\ Max(RowsOf(u, rows)) \in RowsOf(u, rows)
         /\ \A m \in RowsOf(u, rows) : m <= Max(RowsOf(u, rows))
  BY <1>1, <1>2, MaxOfPositions
<1>4. RowsOf(u, rows) # {} => RowIndex(u, rows) = Max(RowsOf(u, rows))
  BY DEF RowIndex
<1>5. HasRow(u, rows) => RowsOf(u, rows) # {}
  BY DEF HasRow, RowsOf
<1>6. HasRow(u, rows) => Lowest(RowIndex(u, rows), u, rows)
  BY <1>3, <1>4, <1>5 DEF Lowest, RowsOf
<1>7. ASSUME NEW i, Lowest(i, u, rows)
      PROVE  i = RowIndex(u, rows) /\ RowsOf(u, rows) # {}
  <2>1. i \in RowsOf(u, rows) /\ \A j \in RowsOf(u, rows) : j <= i
    BY <1>7 DEF Lowest, RowsOf
  <2>2. RowIndex(u, rows) \in RowsOf(u, rows) /\ i <= RowIndex(u, rows)
    BY <1>3, <1>4, <2>1
  <2>3. RowIndex(u, rows) <= i /\ i \in Nat /\ RowIndex(u, rows) \in Nat
    BY <1>2, <2>1, <2>2
  <2> QED BY <2>1, <2>2, <2>3
<1> QED BY <1>6, <1>7

(* Adding appends one row for each operation.                              *)
LEMMA AddedRows ==
    ASSUME NEW rows \in Seq(Row), NEW batch \in Seq(Op),
           \A n \in DOMAIN batch : batch[n].kind = "add",
           NEW new, new = Added(rows, batch)
    PROVE  Appends(new, rows, batch)
<1> DEFINE L == Len(rows)
           K == Adding(batch)
<1>0. PICK h : Lists(h, K, Len(batch)) /\ Extends(new, rows, batch, h)
  BY AddedFacts
<1>1. /\ new \in Seq(Row) /\ Len(new) = L + Len(h)
      /\ \A i \in 1..L : new[i] = rows[i]
      /\ \A n \in 1..Len(h) : new[L + n] = NewCell(batch[h[n]])
  BY <1>0 DEF Extends
<1>2. /\ L \in Nat /\ DOMAIN rows = 1..L
      /\ Len(batch) \in Nat /\ DOMAIN batch = 1..Len(batch)
  BY LenProperties
<1>3. DOMAIN new = 1..Len(new)
  BY <1>1, LenProperties
<1>4. Len(h) \in Nat /\ \A n \in 1..Len(h) : h[n] \in DOMAIN batch
  <2> HIDE DEF K
  <2> QED BY <1>0, <1>2, ListsFacts
<1>5. \A n \in DOMAIN batch : \E m \in 1..Len(h) : h[m] = n
  <2>1. K = DOMAIN batch
    BY DEF Adding
  <2> QED BY <1>0, <1>2, <2>1 DEF Lists
<1> HIDE DEF L, K
<1>6. \A i \in DOMAIN new \ DOMAIN rows : \E n \in DOMAIN batch : new[i] = NewCell(batch[n])
  <2> SUFFICES ASSUME NEW i \in DOMAIN new \ DOMAIN rows
               PROVE  \E n \in DOMAIN batch : new[i] = NewCell(batch[n])
    OBVIOUS
  <2>1. i - L \in 1..Len(h) /\ i = L + (i - L)
    BY <1>1, <1>2, <1>3, <1>4
  <2> QED BY <1>1, <1>4, <2>1
<1>7. \A i \in DOMAIN rows : i \in DOMAIN new /\ new[i] = rows[i]
  BY <1>1, <1>2, <1>3, <1>4
<1>8. \A n \in DOMAIN batch : \E i \in DOMAIN new : new[i] = NewCell(batch[n])
  <2> SUFFICES ASSUME NEW n \in DOMAIN batch PROVE \E i \in DOMAIN new : new[i] = NewCell(batch[n])
    OBVIOUS
  <2>1. PICK m \in 1..Len(h) : h[m] = n
    BY <1>5
  <2> QED BY <1>1, <1>2, <1>3, <1>4, <2>1
<1> QED BY <1>1, <1>6, <1>7, <1>8 DEF Appends

(* Rows are made of their two fields.                                      *)
LEMMA RowsElements ==
    ASSUME NEW rows \in Seq(Row)
    PROVE  /\ \A i \in DOMAIN rows : rows[i] \in Row /\ i \in Nat
           /\ \A row \in Row : row = [user |-> row.user, value |-> row.value] /\ row.user \in User
<1>1. Len(rows) \in Nat /\ DOMAIN rows = 1..Len(rows) /\ \A i \in 1..Len(rows) : rows[i] \in Row
  BY LenProperties, ElementOfSeq
<1>2. \A row \in Row : row = [user |-> row.user, value |-> row.value] /\ row.user \in User
  BY DEF Row
<1> QED BY <1>1, <1>2

(* Rows appended below leave the last rows of other users what they are.   *)
LEMMA AppendsKeeps ==
    ASSUME NEW rows \in Seq(Row), NEW batch, NEW new, Appends(new, rows, batch), NEW u
    PROVE  /\ (\A n \in DOMAIN batch : batch[n].user # u) =>
                 /\ \A i : Lowest(i, u, rows) => Lowest(i, u, new)
                 /\ HasRow(u, new) => HasRow(u, rows)
           /\ HasRow(u, rows) => HasRow(u, new)
<1>1. /\ \A i \in DOMAIN rows : i \in DOMAIN new /\ new[i] = rows[i]
      /\ \A i \in DOMAIN new \ DOMAIN rows : \E n \in DOMAIN batch : new[i].user = batch[n].user
  BY DEF Appends, NewCell
<1>2. HasRow(u, rows) => HasRow(u, new)
  BY <1>1 DEF HasRow
<1>3. ASSUME \A n \in DOMAIN batch : batch[n].user # u
      PROVE  \A j \in DOMAIN new : new[j].user = u => j \in DOMAIN rows
  BY <1>1, <1>3
<1>4. ASSUME \A n \in DOMAIN batch : batch[n].user # u, NEW i, Lowest(i, u, rows)
      PROVE  Lowest(i, u, new)
  BY <1>1, <1>3, <1>4 DEF Lowest
<1>5. ASSUME \A n \in DOMAIN batch : batch[n].user # u, HasRow(u, new) PROVE HasRow(u, rows)
  BY <1>1, <1>3, <1>5 DEF HasRow
<1> QED BY <1>2, <1>4, <1>5

(* A batch of additions.                                                   *)
LEMMA AddShows ==
    ASSUME NEW rows \in Seq(Row), NEW batch \in Seq(Op), NEW users \in [User -> UserRow],
           NEW direction, OpsFit(batch, users, rows),
           \A n \in DOMAIN batch :
               batch[n].kind = "add" /\ OpShows(batch[n], users, rows, direction),
           NEW new, Appends(new, rows, batch)
    PROVE  /\ KeepsRows(new, rows)
           /\ \A u \in User :
                 Shown(u, users, rows, direction) \/ (\E n \in DOMAIN batch : batch[n].user = u)
                    => Shown(u, users, new, direction)
<1>1. ASSUME NEW n \in DOMAIN batch
      PROVE  ~HasRow(batch[n].user, rows) /\ batch[n].user \in User
  <2>1. batch[n] \in Op
    BY LenProperties, ElementOfSeq
  <2> QED BY <2>1, OpFields DEF OpsFit, OpFits
<1>2. KeepsRows(new, rows)
  <2> SUFFICES ASSUME NEW i \in DOMAIN new, HasRow(new[i].user, rows)
               PROVE  \E j \in DOMAIN rows : rows[j] = new[i]
    BY DEF KeepsRows
  <2>1. CASE i \in DOMAIN rows
    BY <2>1 DEF Appends
  <2>2. CASE i \notin DOMAIN rows
    <3>1. PICK n \in DOMAIN batch : new[i] = NewCell(batch[n])
      BY <2>2 DEF Appends
    <3> QED BY <1>1, <3>1 DEF NewCell
  <2> QED BY <2>1, <2>2
<1>3. ASSUME NEW u \in User, NEW n \in DOMAIN batch, batch[n].user = u
      PROVE  Shown(u, users, new, direction)
  <2> DEFINE j == RowIndex(u, new)
  <2>1. Lowest(j, u, new)
    <3>1. HasRow(u, new) /\ new \in Seq(Row)
      BY <1>3 DEF Appends, HasRow, NewCell
    <3> QED BY <3>1, LowestRow
  <2> HIDE DEF j
  <2>2. j \in DOMAIN new /\ new[j].user = u
    BY <2>1 DEF Lowest
  <2>3. j \notin DOMAIN rows
    BY <1>1, <1>3, <2>2 DEF Appends, HasRow
  <2>4. PICK m \in DOMAIN batch : new[j] = NewCell(batch[m])
    BY <2>2, <2>3 DEF Appends
  <2>5. batch[m].user = u
    BY <2>2, <2>4 DEF NewCell
  <2>6. Pushes(direction) => batch[m].value = users[u].value
    BY <2>5 DEF OpShows
  <2>7. users[u].value # None
    BY NoneAssumption DEF UserRow
  <2>8. Pushes(direction) => new[j].value = users[u].value
    BY <2>4, <2>6, <2>7 DEF NewCell
  <2> QED BY <2>1, <2>2, <2>8 DEF Shown
<1>4. ASSUME NEW u \in User, \A n \in DOMAIN batch : batch[n].user # u,
             Shown(u, users, rows, direction)
      PROVE  Shown(u, users, new, direction)
  <2>1. PICK i \in DOMAIN rows : /\ Lowest(i, u, rows)
                                 /\ Pushes(direction) => rows[i].value = users[u].value
    BY <1>4 DEF Shown
  <2>2. Lowest(i, u, new)
    BY <1>4, <2>1, AppendsKeeps
  <2>3. i \in DOMAIN new /\ new[i] = rows[i]
    BY DEF Appends
  <2> QED BY <2>1, <2>2, <2>3 DEF Shown
<1>5. \A u \in User :
         Shown(u, users, rows, direction) \/ (\E n \in DOMAIN batch : batch[n].user = u)
            => Shown(u, users, new, direction)
  BY <1>3, <1>4
<1> QED BY <1>2, <1>5

(* The last rows of users whose rows are where they were.                  *)
LEMMA SameLowest ==
    ASSUME NEW rows, NEW new, SameUsers(new, rows), NEW u, NEW i
    PROVE  Lowest(i, u, new) <=> Lowest(i, u, rows)
BY DEF SameUsers, Lowest

(* A batch of updates.                                                     *)
LEMMA UpdateShows ==
    ASSUME NEW rows \in Seq(Row), NEW batch \in Seq(Op), NEW users \in [User -> UserRow],
           NEW direction, OpsFit(batch, users, rows),
           \A n \in DOMAIN batch :
               batch[n].kind = "update" /\ OpShows(batch[n], users, rows, direction),
           NEW new, new = Updated(rows, batch), SameUsers(new, rows)
    PROVE  /\ ~Pushes(direction) => KeepsRows(new, rows)
           /\ \A u \in User :
                 Shown(u, users, rows, direction) \/ (\E n \in DOMAIN batch : batch[n].user = u)
                    => Shown(u, users, new, direction)
<1>1. \A i \in 1..Len(rows) :
            LET for == {n \in DOMAIN batch : batch[n].row = i /\ batch[n].kind # "delete"}
            IN  \/ for = {} /\ new[i] = rows[i]
                \/ \E n \in for : new[i] = CellOf(batch[n], rows[i])
  BY UpdatedFacts
<1>2. DOMAIN rows = 1..Len(rows) /\ DOMAIN new = DOMAIN rows
  BY LenProperties DEF SameUsers
<1>3. ASSUME NEW i \in DOMAIN rows
      PROVE  \/ new[i] = rows[i] /\ \A n \in DOMAIN batch : batch[n].row # i
             \/ \E n \in DOMAIN batch : /\ batch[n].row = i /\ rows[i].user = batch[n].user
                                        /\ new[i] = CellOf(batch[n], rows[i])
  BY <1>1, <1>2 DEF OpsFit, OpFits
<1>4. \A n \in DOMAIN batch :
         batch[n].value = IF Pushes(direction) THEN users[batch[n].user].value ELSE None
  BY DEF OpShows
<1>5. ASSUME ~Pushes(direction), NEW i \in DOMAIN rows PROVE new[i] = rows[i]
  <2>1. rows[i] = [user |-> rows[i].user, value |-> rows[i].value]
    BY RowsElements
  <2>2. \A n \in DOMAIN batch : batch[n].value = None
    BY <1>4, <1>5
  <2> QED BY <1>3, <2>1, <2>2 DEF CellOf
<1>6. ~Pushes(direction) => KeepsRows(new, rows)
  BY <1>2, <1>5 DEF KeepsRows
<1>7. ASSUME NEW u \in User, NEW i \in DOMAIN rows, Lowest(i, u, rows),
             Pushes(direction) => new[i].value = users[u].value
      PROVE  Shown(u, users, new, direction)
  <2>1. Lowest(i, u, new) /\ i \in DOMAIN new
    BY <1>2, <1>7, SameLowest
  <2> QED BY <1>7, <2>1 DEF Shown
<1>8. ASSUME NEW u \in User, NEW n \in DOMAIN batch, batch[n].user = u
      PROVE  Shown(u, users, new, direction)
  <2> DEFINE i == batch[n].row
  <2>1. Lowest(i, u, rows) /\ i \in DOMAIN rows /\ rows[i].user = u
    BY <1>8 DEF OpShows, Lowest
  <2>2. users[u].value # None
    BY NoneAssumption DEF UserRow
  <2>3. PICK m \in DOMAIN batch : rows[i].user = batch[m].user /\ new[i] = CellOf(batch[m], rows[i])
    BY <1>3, <2>1
  <2>4. Pushes(direction) => new[i].value = users[u].value
    BY <1>4, <2>1, <2>2, <2>3 DEF CellOf
  <2> HIDE DEF i
  <2> QED BY <1>7, <2>1, <2>4
<1>9. ASSUME NEW u \in User, \A n \in DOMAIN batch : batch[n].user # u,
             Shown(u, users, rows, direction)
      PROVE  Shown(u, users, new, direction)
  <2>1. PICK i \in DOMAIN rows : /\ Lowest(i, u, rows)
                                 /\ Pushes(direction) => rows[i].value = users[u].value
    BY <1>9 DEF Shown
  <2>2. rows[i].user = u
    BY <2>1 DEF Lowest
  <2>3. new[i] = rows[i]
    BY <1>3, <1>9, <2>2
  <2> QED BY <1>7, <2>1, <2>3
<1>10. \A u \in User :
         Shown(u, users, rows, direction) \/ (\E n \in DOMAIN batch : batch[n].user = u)
            => Shown(u, users, new, direction)
  BY <1>8, <1>9
<1> QED BY <1>6, <1>10

(* A batch of deletions.                                                   *)
LEMMA DeleteShows ==
    ASSUME NEW rows \in Seq(Row), NEW batch \in Seq(Op), NEW users, NEW direction,
           OpsFit(batch, users, rows), \A n \in DOMAIN batch : batch[n].kind = "delete",
           NEW new, new = Deleted(rows, batch)
    PROVE  /\ KeepsRows(new, rows)
           /\ \A u \in User : users[u].state = "live" =>
                 /\ HasRow(u, rows) => HasRow(u, new)
                 /\ Shown(u, users, rows, direction) => Shown(u, users, new, direction)
<1> DEFINE K == Left(rows, batch)
           L == Len(rows)
<1>1. PICK h : Lists(h, K, L) /\ new = Taken(rows, h)
  BY DeletedFacts
<1>2. L \in Nat /\ DOMAIN rows = 1..L
  BY LenProperties
<1>3. /\ Len(h) \in Nat /\ \A n \in 1..Len(h) : h[n] \in DOMAIN rows /\ h[n] \in 1..L
  <2> HIDE DEF K, L
  <2> QED BY <1>1, <1>2, ListsFacts
<1>4. DOMAIN new = 1..Len(h) /\ \A n \in 1..Len(h) : new[n] = rows[h[n]]
  BY <1>1 DEF Taken
<1>5. KeepsRows(new, rows)
  BY <1>3, <1>4 DEF KeepsRows
<1>6. \A m, n \in 1..Len(h) : m < n => h[m] < h[n]
  BY <1>1 DEF Lists
<1>7. ASSUME NEW i \in DOMAIN rows, users[rows[i].user].state = "live"
      PROVE  \E n \in 1..Len(h) : h[n] = i
  <2>1. \A n \in DOMAIN batch : batch[n].row # i
    <3> SUFFICES ASSUME NEW n \in DOMAIN batch, batch[n].row = i PROVE FALSE
      OBVIOUS
    <3>1. rows[i].user = batch[n].user /\ users[batch[n].user].state = "deleted"
      BY DEF OpsFit, OpFits
    <3> QED BY <1>7, <3>1
  <2>2. i \in K \cap 1..L
    BY <1>2, <2>1 DEF Left
  <2> QED BY <1>1, <2>2 DEF Lists
<1> HIDE DEF K, L
<1>8. ASSUME NEW u \in User, users[u].state = "live", HasRow(u, rows) PROVE HasRow(u, new)
  <2>1. PICK i \in DOMAIN rows : rows[i].user = u
    BY <1>8 DEF HasRow
  <2>2. PICK n \in 1..Len(h) : h[n] = i
    BY <1>7, <1>8, <2>1
  <2> QED BY <1>4, <2>1, <2>2 DEF HasRow
<1>9. ASSUME NEW u \in User, users[u].state = "live", Shown(u, users, rows, direction)
      PROVE  Shown(u, users, new, direction)
  <2>1. PICK i \in DOMAIN rows : /\ Lowest(i, u, rows)
                                 /\ Pushes(direction) => rows[i].value = users[u].value
    BY <1>9 DEF Shown
  <2>2. PICK n \in 1..Len(h) : h[n] = i
    BY <1>7, <1>9, <2>1 DEF Lowest
  <2>3. ASSUME NEW m \in DOMAIN new, new[m].user = u PROVE m <= n
    <3>1. m \in 1..Len(h) /\ rows[h[m]].user = u
      BY <1>4, <2>3
    <3>2. h[m] <= h[n]
      BY <1>3, <2>1, <2>2, <3>1 DEF Lowest
    <3>3. h[m] \in Nat /\ h[n] \in Nat /\ (n < m => h[n] < h[m])
      BY <1>2, <1>3, <1>6, <3>1
    <3> QED BY <1>3, <3>1, <3>2, <3>3
  <2>4. n \in DOMAIN new /\ new[n] = rows[i]
    BY <1>4, <2>2
  <2>5. Lowest(n, u, new)
    BY <2>1, <2>3, <2>4 DEF Lowest
  <2> QED BY <2>1, <2>4, <2>5 DEF Shown
<1> QED BY <1>5, <1>8, <1>9

(* A batch of one kind, which makes no row move up below one that is still *)
(* to be written: what is left shows the users that are not shown yet.     *)
LEMMA WrittenShows ==
    ASSUME NEW rows \in Seq(Row), NEW ops \in Seq(Op), ops # <<>>,
           NEW users \in [User -> UserRow], NEW direction,
           OpsShow(ops, users, rows, direction),
           ~Mixed(BatchOf(ops)), ~Shifts(BatchOf(ops), RestOf(ops)),
           NEW new, new = Written(rows, BatchOf(ops))
    PROVE  /\ OpsShow(RestOf(ops), users, new, direction)
           /\ \A u \in User : HasRow(u, rows) /\ users[u].state = "live" => HasRow(u, new)
           /\ ~Pushes(direction) => KeepsRows(new, rows)
<1> DEFINE batch == BatchOf(ops)
           rest == RestOf(ops)
           kind == batch[1].kind
           B(u) == \E n \in DOMAIN batch : batch[n].user = u
           S(u, sheetRows) == Shown(u, users, sheetRows, direction)
<1>1. /\ batch \in Seq(Op) /\ rest \in Seq(Op) /\ Len(batch) \in Nat \ {0}
  BY BatchFacts
<1>2. /\ OpsFit(rest, users, rows) /\ OpsFit(batch, users, rows)
      /\ \A m \in DOMAIN batch, n \in DOMAIN rest : batch[m].user # rest[n].user
  BY RestFits DEF OpsShow
<1>3. /\ ~Mixed(batch) /\ ~Shifts(batch, rest) /\ new = Written(rows, batch)
  OBVIOUS
<1>4. /\ \A n \in DOMAIN batch : OpShows(batch[n], users, rows, direction)
      /\ \A n \in DOMAIN rest : OpShows(rest[n], users, rows, direction)
      /\ \A n \in DOMAIN rest : rest[n].user \in User
      /\ \A u \in User : users[u].state = "live" =>
            S(u, rows) \/ B(u) \/ \E n \in DOMAIN rest : rest[n].user = u
  <2>1. /\ \A n \in DOMAIN batch : n \in DOMAIN ops /\ batch[n] = ops[n]
        /\ \A n \in DOMAIN rest : /\ Len(batch) + n \in DOMAIN ops
                                  /\ rest[n] = ops[Len(batch) + n] /\ rest[n] \in Op
        /\ DOMAIN batch = 1..Len(batch) /\ DOMAIN rest = 1..Len(rest) /\ DOMAIN ops = 1..Len(ops)
    BY BatchDomains
  <2>2. /\ Len(batch) \in Nat /\ Len(rest) \in Nat /\ Len(ops) = Len(batch) + Len(rest)
        /\ \A n \in 1..Len(batch) : batch[n] = ops[n]
    BY BatchFacts
  <2> HIDE DEF batch, rest
  <2>3. \A k \in DOMAIN ops : k \in DOMAIN batch \/ k - Len(batch) \in DOMAIN rest
    BY <2>1, <2>2
  <2>4. \A k \in DOMAIN ops : k - Len(batch) \in DOMAIN rest => ops[k] = rest[k - Len(batch)]
    BY <2>1, <2>2
  <2>5. /\ \A n \in DOMAIN batch : OpShows(batch[n], users, rows, direction)
        /\ \A n \in DOMAIN rest : OpShows(rest[n], users, rows, direction)
    BY <2>1 DEF OpsShow
  <2>6. \A n \in DOMAIN rest : rest[n].user \in User
    BY <2>1, OpFields
  <2>7. ASSUME NEW k \in DOMAIN ops, NEW u, ops[k].user = u
        PROVE  B(u) \/ \E n \in DOMAIN rest : rest[n].user = u
    BY <2>1, <2>3, <2>4, <2>7
  <2> HIDE DEF S, B
  <2>8. \A u \in User : users[u].state = "live" =>
            S(u, rows) \/ B(u) \/ \E n \in DOMAIN rest : rest[n].user = u
    BY <2>7 DEF OpsShow, S
  <2> QED BY <2>5, <2>6, <2>8
<1> HIDE DEF batch, rest, B, S
<1>5. /\ \A n \in DOMAIN batch : batch[n].kind = kind
      /\ kind = "delete" => rest = <<>>
  BY <1>3 DEF Mixed, Shifts
<1>6. kind \in {"add", "update", "delete"}
  <2>1. batch[1] \in Op
    BY <1>1, ElementOfSeq
  <2> QED BY <2>1, OpFields
<1>7. ASSUME \A n \in DOMAIN rest : /\ OpFits(rest[n], users, new)
                                    /\ OpShows(rest[n], users, new, direction),
             \A u \in User : users[u].state = "live" /\ (S(u, rows) \/ B(u)) => S(u, new)
      PROVE  OpsShow(rest, users, new, direction)
  BY <1>2, <1>4, <1>7 DEF OpsShow, OpsFit, S
<1>8. CASE kind = "add"
  <2>1. Appends(new, rows, batch)
    <3>1. /\ new = Added(rows, batch)
          /\ batch \in Seq(Op)
          /\ \A n \in DOMAIN batch : batch[n].kind = "add"
      BY <1>1, <1>3, <1>5, <1>8 DEF Written
    <3> QED BY ZenonT(30), <3>1, AddedRows
  <2>2. KeepsRows(new, rows) /\ \A u \in User : S(u, rows) \/ B(u) => S(u, new)
    <3>1. /\ batch \in Seq(Op) /\ OpsFit(batch, users, rows)
          /\ \A n \in DOMAIN batch :
                 batch[n].kind = "add" /\ OpShows(batch[n], users, rows, direction)
      BY <1>1, <1>2, <1>4, <1>5, <1>8
    <3> QED BY ZenonT(30), <2>1, <3>1, AddShows DEF S, B
  <2>3. \A u : HasRow(u, rows) => HasRow(u, new)
    BY <2>1, AppendsKeeps
  <2>4. ASSUME NEW n \in DOMAIN rest
        PROVE  OpFits(rest[n], users, new) /\ OpShows(rest[n], users, new, direction)
    <3>1. \A m \in DOMAIN batch : batch[m].user # rest[n].user
      BY <1>2
    <3>2. /\ \A i : Lowest(i, rest[n].user, rows) => Lowest(i, rest[n].user, new)
          /\ HasRow(rest[n].user, new) => HasRow(rest[n].user, rows)
      BY <2>1, <3>1, AppendsKeeps
    <3>3. \A i \in DOMAIN rows : i \in DOMAIN new /\ new[i] = rows[i]
      BY <2>1 DEF Appends
    <3>4. OpFits(rest[n], users, new)
      BY <1>2, <3>2, <3>3 DEF OpsFit, OpFits
    <3>5. OpShows(rest[n], users, new, direction)
      BY <1>4, <3>2 DEF OpShows
    <3> QED BY <3>4, <3>5
  <2>5. OpsShow(rest, users, new, direction)
    BY <1>7, <2>2, <2>4
  <2> QED BY <2>2, <2>3, <2>5 DEF rest
<1>9. CASE kind = "update"
  <2>1. new = Updated(rows, batch) /\ \A n \in DOMAIN batch : batch[n].kind = "update"
    BY <1>3, <1>5, <1>9 DEF Written
  <2>2. SameUsers(new, rows)
    BY <1>1, <1>2, <2>1, UpdateFits
  <2>3. \A u : HasRow(u, new) <=> HasRow(u, rows)
    BY <2>2, SameHave
  <2>4. /\ ~Pushes(direction) => KeepsRows(new, rows)
        /\ \A u \in User : S(u, rows) \/ B(u) => S(u, new)
    <3>1. /\ batch \in Seq(Op) /\ OpsFit(batch, users, rows)
          /\ \A n \in DOMAIN batch :
                 batch[n].kind = "update" /\ OpShows(batch[n], users, rows, direction)
      BY <1>1, <1>2, <1>4, <2>1
    <3>2. new = Updated(rows, batch)
      BY <2>1
    <3> QED BY ZenonT(30), <2>2, <3>1, <3>2, UpdateShows DEF S, B
  <2>5. ASSUME NEW n \in DOMAIN rest
        PROVE  OpFits(rest[n], users, new) /\ OpShows(rest[n], users, new, direction)
    <3>1. OpFits(rest[n], users, new)
      BY <1>2, <2>2, <2>3 DEF OpsFit, OpFits, SameUsers
    <3>2. OpShows(rest[n], users, new, direction)
      BY <1>4, <2>2, SameLowest DEF OpShows
    <3> QED BY <3>1, <3>2
  <2>6. OpsShow(rest, users, new, direction)
    BY <1>7, <2>4, <2>5
  <2> QED BY <2>3, <2>4, <2>6 DEF rest
<1>10. CASE kind = "delete"
  <2>1. new = Deleted(rows, batch) /\ \A n \in DOMAIN batch : batch[n].kind = "delete"
    BY <1>3, <1>5, <1>10 DEF Written
  <2>2. /\ KeepsRows(new, rows)
        /\ \A u \in User : users[u].state = "live" =>
              /\ HasRow(u, rows) => HasRow(u, new)
              /\ S(u, rows) => S(u, new)
    <3>1. batch \in Seq(Op) /\ OpsFit(batch, users, rows)
      BY <1>1, <1>2
    <3> QED BY ZenonT(30), <2>1, <3>1, DeleteShows DEF S
  <2>3. \A u \in User : users[u].state = "live" => ~B(u)
    BY <1>2, <2>1 DEF OpsFit, OpFits, B
  <2>4. OpsShow(rest, users, new, direction)
    <3>1. \A n \in DOMAIN rest : /\ OpFits(rest[n], users, new)
                                 /\ OpShows(rest[n], users, new, direction)
      BY <1>5, <1>10
    <3> QED BY <1>7, <2>2, <2>3, <3>1
  <2> QED BY <2>2, <2>4 DEF rest
<1> QED BY <1>6, <1>8, <1>9, <1>10

(* What the run saw when it began is as it was: the users and rows there   *)
(* were, and what has changed in the sheet alone.                          *)
AsBegun(r) ==
    /\ \A u \in User : runs[r].before[u] # None =>
          /\ runs[r].before[u] = db[u].value
          /\ Live(u) /\ HasRow(u, sheet) /\ records[u].baseline # None
    /\ \A row \in runs[r].due :
          /\ row.value \in Accepted /\ row.value # db[row.user].value
          /\ records[row.user].known /\ records[row.user].baseline = db[row.user].value
    /\ ~Pushes(config.direction) =>
          \A row \in ChangedInSheet : runs[r].before[row.user] # None => row \in runs[r].due

(* The run is still to write to the user.                                  *)
Writing(r, u) == \E n \in DOMAIN runs[r].writes : runs[r].writes[n].user = u

(* It is to make the cell his baseline.                                    *)
Marked(r, u, cell) ==
    \E n \in DOMAIN runs[r].marks : runs[r].marks[n] = [user |-> u, value |-> cell]

(* It has found a conflict about the cell.                                 *)
ToNote(r, u, cell) ==
    \E n \in DOMAIN runs[r].found : runs[r].found[n].user = u /\ runs[r].found[n].value = cell

(* A conflict about the cell waits, or there was no room for it.           *)
Noted(u, cell) ==
    \/ Free = {}
    \/ \E c \in Conflict :
          verdicts[c].state = "pending" /\ conflicts[c].user = u /\ conflicts[c].value = cell

(* User and cell of a pushed column agree and will stay so.                *)
PlannedPush(r, u, cell) ==
    /\ ~Writing(r, u) /\ cell = db[u].value
    /\ runs[r].before[u] \in {None, db[u].value}
    /\ config.direction = "bidirectional" => Marked(r, u, cell)

(* What is done, or to be done, takes the cell over, makes it the baseline *)
(* or notes it, and does nothing else to the user.                         *)
PlannedPull(r, u, cell) ==
    /\ \A n \in DOMAIN runs[r].writes : runs[r].writes[n].user = u => runs[r].writes[n].value = cell
    /\ \/ cell = db[u].value \/ Writing(r, u) \/ Marked(r, u, cell)
       \/ IF At(r, "recordPull") THEN Noted(u, cell) ELSE ToNote(r, u, cell)
    /\ IF [user |-> u, value |-> cell] \in runs[r].due
       THEN cell = db[u].value \/ Writing(r, u)
       ELSE runs[r].before[u] = None \/ (~Writing(r, u) /\ runs[r].before[u] = db[u].value)

(* As the direction asks.                                                  *)
Planned(r, u, cell) ==
    /\ Pushes(config.direction) => PlannedPush(r, u, cell)
    /\ config.direction = "sheet_to_db" => PlannedPull(r, u, cell)

(* That is so of the last row of everybody.                                *)
AllPlanned(r) ==
    \A u \in User : Live(u) =>
        \E i \in DOMAIN sheet : Lowest(i, u, sheet) /\ Planned(r, u, sheet[i].value)

(* The runs QuietRunConverges is about, as long as they may become one.    *)
Watched(r) ==
    /\ runs[r].quiet /\ runs[r].aligned /\ runs[r].kind = "bidirectional"
    /\ runs[r].configured \/ At(r, "job")

(* What such a run has reached, at each of its statements.                 *)
OnCourse(r) ==
    /\ step[r] \in {"job", "fetchRows", "readUsers", "flush", "recordPush", "fetchCells",
                    "readDb", "readRecords"} => AsBegun(r)
    /\ step[r] \in {"readUsers", "readDb", "readRecords"} =>
          runs[r].rows = sheet /\ runs[r].direction = config.direction
    /\ At(r, "flush") => OpsShow(runs[r].ops, db, sheet, config.direction)
    /\ step[r] \in {"recordPush", "fetchCells", "readDb", "readRecords"} =>
          AllShown(db, sheet, config.direction)
    /\ At(r, "readRecords") =>
          runs[r].users = [u \in User |-> IF Live(u) THEN db[u].value ELSE None]
    /\ step[r] \in {"write", "conflicts", "recordPull"} /\ ~Twice(runs[r].marks) => AllPlanned(r)
    /\ step[r] \in {"conflicts", "recordPull"} => runs[r].writes = <<>>
    /\ At(r, "success") => Converged(r)
    /\ At(r, "release") /\ runs[r].job = "success" => Converged(r)

(* A quiet run is the only one past the lock.                              *)
Alone == \A r, q \in Run : Active(r) /\ runs[r].quiet /\ Active(q) => r = q

(* Baselines are of users with a record.                                   *)
BaselinesKnown == \A u \in User : records[u].baseline # None => records[u].known

(* A run that nothing has come between is on its course.                   *)
QuietInv ==
    /\ Alone /\ BaselinesKnown
    /\ \A r \in Run : Watched(r) => OnCourse(r)

(* A run that is active moves on, and the others do not.                   *)
LEMMA CourseMoves ==
    ASSUME TypeOK, QuietInv, NEW r \in Run, NEW s, Goto(r, s), Active(r),
           NEW l, Set(r, l), l.quiet => runs[r].quiet, BaselinesKnown',
           Watched(r)' => OnCourse(r)'
    PROVE  QuietInv'
<1>1. runs \in [Run -> RunState] /\ step \in [Run -> RunStep]
  BY DEF TypeOK
<1>2. \A q \in Run \ {r} : runs'[q] = runs[q] /\ step'[q] = step[q]
  BY <1>1 DEF Set, Goto
<1>3. runs'[r] = l
  BY <1>1 DEF Set
<1>4. \A q \in Run : Active(q)' => Active(q)
  BY <1>2 DEF Active
<1>5. \A q \in Run : runs'[q].quiet => runs[q].quiet
  BY <1>2, <1>3
<1>6. Alone'
  BY <1>4, <1>5 DEF Alone, QuietInv
<1>7. ASSUME NEW q \in Run \ {r}, Watched(q)' PROVE OnCourse(q)'
  <2>1. runs[q].quiet
    BY <1>5, <1>7 DEF Watched
  <2>2. step'[q] = "idle"
    BY <1>2, <2>1 DEF QuietInv, Alone, Active
  <2> QED BY <2>2 DEF OnCourse, At
<1> QED BY <1>6, <1>7 DEF QuietInv

(* What was there when the run began still is, whatever it appends.        *)
LEMMA BegunStays ==
    ASSUME NEW r \in Run, AsBegun(r), UNCHANGED <<db, config>>,
           runs'[r].before = runs[r].before, runs'[r].due = runs[r].due,
           runs[r].due \subseteq Row,
           \A u \in User : /\ records'[u].baseline = records[u].baseline
                           /\ records[u].known => records'[u].known
                           /\ Live(u) /\ HasRow(u, sheet) => HasRow(u, sheet'),
           ~Pushes(config.direction) => KeepsRows(sheet', sheet)
    PROVE  AsBegun(r)'
<1>1. \A row \in Row : row.user \in User
  BY DEF Row
<1>2. \A u \in User : runs'[r].before[u] # None =>
          /\ runs'[r].before[u] = db'[u].value
          /\ Live(u)' /\ HasRow(u, sheet)' /\ records'[u].baseline # None
  BY DEF AsBegun, Live
<1>3. \A row \in runs'[r].due :
          /\ row.value \in Accepted /\ row.value # db'[row.user].value
          /\ records'[row.user].known /\ records'[row.user].baseline = db'[row.user].value
  BY <1>1 DEF AsBegun
<1>4. ASSUME ~Pushes(config.direction), NEW row \in ChangedInSheet', runs[r].before[row.user] # None
      PROVE  row \in runs[r].due
  <2>1. /\ row \in Row /\ row.user \in User /\ Live(row.user) /\ row.value \in Accepted
        /\ records[row.user].baseline = db[row.user].value /\ row.value # db[row.user].value
    BY <1>1, <1>4 DEF ChangedInSheet, Live
  <2>2. PICK i \in DOMAIN sheet' : sheet'[i] = row
    BY <1>4 DEF ChangedInSheet
  <2>3. HasRow(row.user, sheet)
    BY <1>4, <2>1 DEF AsBegun
  <2>4. \E j \in DOMAIN sheet : sheet[j] = row
    BY <1>4, <2>2, <2>3 DEF KeepsRows
  <2>5. row \in ChangedInSheet
    BY <2>1, <2>4 DEF ChangedInSheet
  <2> QED BY <1>4, <2>5 DEF AsBegun
<1> QED BY <1>2, <1>3, <1>4 DEF AsBegun

(* It holds when a run begins.                                             *)
LEMMA AcquireCourse ==
    ASSUME TypeOK, QuietInv, NEW r \in Run, NEW kind \in Kind, Acquire(r, kind)
    PROVE  QuietInv'
<1>1. /\ runs \in [Run -> RunState] /\ step \in [Run -> RunStep] /\ db \in [User -> UserRow]
      /\ records \in [User -> Record]
  BY DEF TypeOK
<1>2. /\ UNCHANGED <<config, db, sheet, records>> /\ Goto(r, "job")
  BY DEF Acquire, data
<1>3. \A q \in Run \ {r} : step'[q] = step[q] /\ ~runs'[q].quiet
  BY <1>1, <1>2 DEF Acquire, Goto, RunState
<1>4. /\ runs'[r].quiet => \A p \in Run \ {r} : ~Active(p)
      /\ runs'[r].due = ChangedInSheet /\ runs'[r].before = Synchronised
  BY DEF Acquire, NoRun
<1>5. step'[r] = "job"
  BY <1>1, <1>2 DEF Goto
<1>6. Alone'
  BY <1>3, <1>4 DEF Alone, Active
<1>7. BaselinesKnown'
  BY <1>2 DEF QuietInv, BaselinesKnown
<1>8. AsBegun(r)'
  <2>1. ASSUME NEW u \in User, Synchronised[u] # None
        PROVE  /\ Synchronised[u] = db[u].value /\ Live(u) /\ HasRow(u, sheet)
               /\ records[u].baseline # None
    BY <2>1 DEF Synchronised, RowsOf, HasRow
  <2>2. ASSUME NEW row \in ChangedInSheet
        PROVE  /\ row.value \in Accepted /\ row.value # db[row.user].value
               /\ records[row.user].known /\ records[row.user].baseline = db[row.user].value
    <3>1. /\ row \in Row /\ row.value \in Accepted /\ row.value # db[row.user].value
          /\ records[row.user].baseline = db[row.user].value
      BY DEF ChangedInSheet
    <3>2. row.user \in User
      BY <3>1 DEF Row
    <3>3. db[row.user].value # None
      BY <1>1, <3>2, NoneAssumption DEF UserRow
    <3> QED BY <3>1, <3>2, <3>3 DEF QuietInv, BaselinesKnown
  <2>3. ChangedInSheet' = ChangedInSheet
    BY <1>2 DEF ChangedInSheet, Live
  <2>4. \A u \in User : Live(u)' = Live(u) /\ HasRow(u, sheet)' = HasRow(u, sheet)
    BY <1>2 DEF Live, HasRow
  <2> QED BY <1>2, <1>4, <2>1, <2>2, <2>3, <2>4 DEF AsBegun
<1>9. \A q \in Run : Watched(q)' => q = r
  BY <1>3 DEF Watched
<1>10. OnCourse(r)'
  BY <1>5, <1>8 DEF OnCourse, At
<1> QED BY <1>6, <1>7, <1>9, <1>10 DEF QuietInv

(* The data stands, and with it whatever is true of it and of the run.     *)
LEMMA DataStands ==
    ASSUME NEW r \in Run, UNCHANGED data, runs[r] \in RunState,
           runs'[r].before = runs[r].before, runs'[r].due = runs[r].due
    PROVE  /\ AsBegun(r) => AsBegun(r)'
           /\ Converged(r)' = Converged(r)
           /\ AllShown(db, sheet, config.direction)' = AllShown(db, sheet, config.direction)
           /\ BaselinesKnown' = BaselinesKnown
<1>1. UNCHANGED <<db, config, sheet, records, conflicts, verdicts>>
  BY DEF data, table
<1>2. AsBegun(r) => AsBegun(r)'
  <2>1. ChangedInSheet' = ChangedInSheet
    BY <1>1 DEF ChangedInSheet, Live
  <2>2. \A u \in User : Live(u)' = Live(u) /\ HasRow(u, sheet)' = HasRow(u, sheet)
    BY <1>1 DEF Live, HasRow
  <2> QED BY <1>1, <2>1, <2>2 DEF AsBegun
<1>3. Converged(r)' = Converged(r)
  BY <1>1 DEF Converged, PushConverged, PullConverged, Live, RowsOf, RowIndex, Free
<1>4. AllShown(db, sheet, config.direction)' = AllShown(db, sheet, config.direction)
  BY <1>1 DEF AllShown, Shown, Lowest
<1>5. BaselinesKnown' = BaselinesKnown
  BY <1>1 DEF BaselinesKnown
<1> QED BY <1>2, <1>3, <1>4, <1>5

(* The statements that only read, and those that end a run.                *)
LEMMA PlainCourse ==
    ASSUME TypeOK, QuietInv, NEW r \in Run,
           \/ \E token \in Token : CreateJob(r, token)
           \/ FetchRows(r) \/ FetchCells(r) \/ ReadDb(r)
           \/ FailToFetch(r) \/ EndJob(r, "success") \/ EndJob(r, "failed")
           \/ Release(r) \/ Stop(r)
    PROVE  QuietInv'
<1>1. /\ UNCHANGED data /\ Active(r) /\ BaselinesKnown
  BY DEF CreateJob, FetchRows, FetchCells, ReadDb, FailToFetch, EndJob, Release,
     Stop, At, Active, QuietInv
<1>2. /\ step \in [Run -> RunStep] /\ runs \in [Run -> RunState] /\ runs[r] \in RunState
  BY DEF TypeOK
<1>u. UNCHANGED <<db, config, sheet, records, conflicts, verdicts>>
  BY <1>1 DEF data, table
<1>b. BaselinesKnown'
  BY <1>1, <1>u DEF BaselinesKnown
<1>3. ASSUME NEW s, Goto(r, s), NEW l, Set(r, l), l.quiet => runs[r].quiet,
             Watched(r)' => OnCourse(r)'
      PROVE  QuietInv'
  BY <1>1, <1>3, <1>b, CourseMoves
<1>4. ASSUME NEW s \in {"idle", "failed"}, Goto(r, s)
      PROVE  OnCourse(r)'
  <2>1. step'[r] = s
    BY <1>2, <1>4 DEF Goto
  <2> QED BY <2>1 DEF OnCourse, At
<1>5. ASSUME NEW token \in Token, CreateJob(r, token) PROVE QuietInv'
  <2> DEFINE s == IF ~token THEN "success"
                  ELSE IF runs[r].kind = "pull" THEN "fetchCells" ELSE "fetchRows"
             l == [runs[r] EXCEPT !.job = "running", !.configured = token]
  <2>1. Goto(r, s) /\ Set(r, l) /\ step[r] = "job"
    BY <1>5 DEF CreateJob, At
  <2>2. /\ l.quiet = runs[r].quiet /\ l.aligned = runs[r].aligned /\ l.kind = runs[r].kind
        /\ l.before = runs[r].before /\ l.due = runs[r].due /\ l.configured = token
    BY <1>2 DEF RunState
  <2>3. runs'[r] = l /\ step'[r] = s
    BY <1>2, <2>1 DEF Set, Goto
  <2> HIDE DEF l
  <2>4. AsBegun(r) => AsBegun(r)'
    BY <1>1, <1>2, <2>2, <2>3, DataStands
  <2>5. ASSUME Watched(r)' PROVE OnCourse(r)'
    <3>1. token /\ step'[r] = "fetchRows"
      BY <2>2, <2>3, <2>5 DEF Watched, At
    <3>2. Watched(r)
      BY <2>1, <2>2, <2>3, <2>5 DEF Watched, At
    <3>3. AsBegun(r)
      BY <2>1, <3>2 DEF QuietInv, OnCourse
    <3> QED BY <2>4, <3>1, <3>3 DEF OnCourse, At
  <2> HIDE DEF s
  <2> QED BY <1>3, <2>1, <2>2, <2>5
<1>6. CASE FetchRows(r) \/ FetchCells(r)
  <2> DEFINE s == IF FetchRows(r) THEN "readUsers" ELSE "readDb"
             l == [runs[r] EXCEPT !.rows = sheet, !.direction = config.direction]
  <2>1. Goto(r, s) /\ Set(r, l) /\ step[r] = IF FetchRows(r) THEN "fetchRows" ELSE "fetchCells"
    BY <1>6 DEF FetchRows, FetchCells, At
  <2>2. /\ l.quiet = runs[r].quiet /\ l.aligned = runs[r].aligned /\ l.kind = runs[r].kind
        /\ l.before = runs[r].before /\ l.due = runs[r].due /\ l.configured = runs[r].configured
        /\ l.rows = sheet /\ l.direction = config.direction
    BY <1>2 DEF RunState
  <2>3. runs'[r] = l /\ step'[r] = s
    BY <1>2, <2>1 DEF Set, Goto
  <2> HIDE DEF l
  <2>4. /\ AsBegun(r) => AsBegun(r)'
        /\ AllShown(db, sheet, config.direction)' = AllShown(db, sheet, config.direction)
    BY <1>1, <1>2, <2>2, <2>3, DataStands
  <2>5. ASSUME Watched(r)' PROVE OnCourse(r)'
    <3>1. Watched(r)
      BY <2>1, <2>2, <2>3, <2>5 DEF Watched, At
    <3>2. OnCourse(r)
      BY <3>1 DEF QuietInv
    <3>3. AsBegun(r) /\ (s = "readDb" => AllShown(db, sheet, config.direction))
      BY <2>1, <3>2 DEF OnCourse
    <3> QED BY <1>u, <2>2, <2>3, <2>4, <3>3 DEF OnCourse, At
  <2> HIDE DEF s
  <2> QED BY <1>3, <2>1, <2>2, <2>5
<1>7. CASE ReadDb(r)
  <2> DEFINE v == [u \in User |-> IF Live(u) THEN db[u].value ELSE None]
             l == [runs[r] EXCEPT !.users = v]
  <2>1. Goto(r, "readRecords") /\ Set(r, l) /\ step[r] = "readDb"
    BY <1>7 DEF ReadDb, At
  <2>2. v' = v
    BY <1>u DEF Live
  <2> HIDE DEF v
  <2>3. /\ l.quiet = runs[r].quiet /\ l.aligned = runs[r].aligned /\ l.kind = runs[r].kind
        /\ l.before = runs[r].before /\ l.due = runs[r].due /\ l.configured = runs[r].configured
        /\ l.rows = runs[r].rows /\ l.direction = runs[r].direction /\ l.users = v
    BY <1>2 DEF RunState
  <2>4. runs'[r] = l /\ step'[r] = "readRecords"
    BY <1>2, <2>1 DEF Set, Goto
  <2> HIDE DEF l
  <2>5. /\ AsBegun(r) => AsBegun(r)'
        /\ AllShown(db, sheet, config.direction)' = AllShown(db, sheet, config.direction)
    BY <1>1, <1>2, <2>3, <2>4, DataStands
  <2>6. ASSUME Watched(r)' PROVE OnCourse(r)'
    <3>1. Watched(r)
      BY <2>1, <2>3, <2>4, <2>6 DEF Watched, At
    <3>2. OnCourse(r)
      BY <3>1 DEF QuietInv
    <3>3. /\ AsBegun(r) /\ AllShown(db, sheet, config.direction)
          /\ runs[r].rows = sheet /\ runs[r].direction = config.direction
      BY <2>1, <3>2 DEF OnCourse
    <3>4. runs'[r].users = v'
      BY <2>2, <2>3, <2>4
    <3>5. runs'[r].users = [u \in User |-> IF Live(u) THEN db[u].value ELSE None]'
      BY <3>4 DEF v
    <3> QED BY <1>u, <2>3, <2>4, <2>5, <3>3, <3>5 DEF OnCourse, At
  <2> QED BY <1>3, <2>1, <2>3, <2>6
<1>8. CASE FailToFetch(r)
  <2>1. Goto(r, "failed") /\ runs' = runs
    BY <1>8 DEF FailToFetch
  <2>2. Set(r, runs[r])
    BY <1>2, <2>1 DEF Set
  <2>3. OnCourse(r)'
    BY <1>4, <2>1
  <2> QED BY <1>3, <2>1, <2>2, <2>3
<1>9. ASSUME NEW status \in {"success", "failed"}, EndJob(r, status) PROVE QuietInv'
  <2> DEFINE l == [runs[r] EXCEPT !.job = status]
  <2>1. Goto(r, "release") /\ Set(r, l) /\ step[r] = status
    BY <1>9 DEF EndJob, At
  <2>2. /\ l.quiet = runs[r].quiet /\ l.aligned = runs[r].aligned /\ l.kind = runs[r].kind
        /\ l.before = runs[r].before /\ l.due = runs[r].due /\ l.configured = runs[r].configured
        /\ l.job = status
    BY <1>2 DEF RunState
  <2>3. runs'[r] = l /\ step'[r] = "release"
    BY <1>2, <2>1 DEF Set, Goto
  <2> HIDE DEF l
  <2>4. Converged(r)' = Converged(r)
    BY <1>1, <1>2, <2>2, <2>3, DataStands
  <2>5. ASSUME Watched(r)' PROVE OnCourse(r)'
    <3>1. Watched(r)
      BY <2>1, <2>2, <2>3, <2>5 DEF Watched, At
    <3>2. status = "success" => Converged(r)
      BY <2>1, <3>1 DEF QuietInv, OnCourse, At
    <3> QED BY <2>2, <2>3, <2>4, <3>2 DEF OnCourse, At
  <2> QED BY <1>3, <2>1, <2>2, <2>5
<1>10. CASE Release(r) \/ Stop(r)
  <2>1. Goto(r, "idle") /\ Set(r, NoRun)
    BY <1>10 DEF Release, Stop
  <2>2. ~NoRun.quiet
    BY DEF NoRun
  <2>3. OnCourse(r)'
    BY <1>4, <2>1
  <2> QED BY <1>3, <2>1, <2>2, <2>3
<1> QED BY <1>5, <1>6, <1>7, <1>8, <1>9, <1>10

(* Recording who was pushed leaves the baselines alone.                    *)
LEMMA RecordPushCourse ==
    ASSUME TypeOK, QuietInv, NEW r \in Run, RecordPush(r)
    PROVE  QuietInv'
<1> DEFINE s == IF runs[r].kind = "push" THEN "success" ELSE "fetchCells"
           l == [runs[r] EXCEPT !.pushed = {}]
<1>1. /\ step \in [Run -> RunStep] /\ runs \in [Run -> RunState] /\ runs[r] \in RunState
      /\ records \in [User -> Record]
  BY DEF TypeOK
<1>2. /\ UNCHANGED <<db, config, sheet>> /\ Active(r) /\ Goto(r, s) /\ Set(r, l)
      /\ step[r] = "recordPush"
      /\ records' = [u \in User |-> IF u \in runs[r].pushed
                                  THEN [records[u] EXCEPT !.known = TRUE]
                                  ELSE records[u]]
  BY DEF RecordPush, At, Active
<1>3. \A u \in User : /\ records'[u].baseline = records[u].baseline
                      /\ records[u].known => records'[u].known
  BY <1>1, <1>2 DEF Record
<1>4. /\ l.quiet = runs[r].quiet /\ l.aligned = runs[r].aligned /\ l.kind = runs[r].kind
      /\ l.before = runs[r].before /\ l.due = runs[r].due /\ l.configured = runs[r].configured
  BY <1>1 DEF RunState
<1>5. runs'[r] = l /\ step'[r] = s
  BY <1>1, <1>2 DEF Set, Goto
<1> HIDE DEF l
<1>6. BaselinesKnown'
  BY <1>3 DEF QuietInv, BaselinesKnown
<1>7. ASSUME Watched(r)' PROVE OnCourse(r)'
  <2>1. Watched(r) /\ s = "fetchCells"
    BY <1>2, <1>4, <1>5, <1>7 DEF Watched, At
  <2>2. AsBegun(r) /\ AllShown(db, sheet, config.direction)
    BY <1>2, <2>1 DEF QuietInv, OnCourse
  <2>3. KeepsRows(sheet', sheet)
    BY <1>2 DEF KeepsRows
  <2>4. runs[r].due \subseteq Row
    BY <1>1 DEF RunState
  <2>5. AsBegun(r)'
    BY <1>2, <1>3, <1>4, <1>5, <2>2, <2>3, <2>4, BegunStays
  <2>6. AllShown(db, sheet, config.direction)'
    BY <1>2, <2>2 DEF AllShown, Shown, Lowest
  <2> QED BY <1>5, <2>1, <2>5, <2>6 DEF OnCourse, At
<1> HIDE DEF s
<1> QED BY <1>2, <1>4, <1>6, <1>7, CourseMoves

(* What is done about a user is about his last row, and writes what he has.*)
LEMMA OpForShows ==
    ASSUME TypeOK, NEW u \in User, NEW direction
    PROVE  /\ OpsFor(u, sheet, direction) # <<>> =>
                 /\ OpsFor(u, sheet, direction)[1].user = u
                 /\ OpFits(OpsFor(u, sheet, direction)[1], db, sheet)
                 /\ OpShows(OpsFor(u, sheet, direction)[1], db, sheet, direction)
           /\ Live(u) => OpsFor(u, sheet, direction) # <<>>
<1> DEFINE i == RowIndex(u, sheet)
           value == IF Pushes(direction) THEN db[u].value ELSE None
           op(kind, v) == [kind |-> kind, row |-> i, user |-> u, value |-> v]
<1>0. sheet \in Seq(Row)
  BY DEF TypeOK
<1>1. /\ i \in Nat /\ (i = 0 <=> RowsOf(u, sheet) = {})
  BY <1>0, RowIndexFacts
<1>2. db[u].state \in {"none", "live", "deleted"}
  BY DEF TypeOK, UserRow
<1>3. i # 0 => Lowest(i, u, sheet)
  <2>1. RowsOf(u, sheet) # {} => HasRow(u, sheet)
    BY DEF RowsOf, HasRow
  <2> QED BY <1>0, <1>1, <2>1, LowestRow
<1>4. SameUsers(sheet, sheet)
  BY DEF SameUsers
<1>5. OpsFor(u, sheet, direction) # <<>> =>
                 /\ OpsFor(u, sheet, direction)[1].user = u
                 /\ OpFits(OpsFor(u, sheet, direction)[1], db, sheet)
  BY <1>0, <1>4, OpForFits
<1> HIDE DEF i
<1>6. \/ OpsFor(u, sheet, direction) = <<op("delete", None)>> /\ i # 0
      \/ OpsFor(u, sheet, direction) = <<op("add", value)>>
      \/ OpsFor(u, sheet, direction) = <<op("update", value)>> /\ i # 0
      \/ OpsFor(u, sheet, direction) = <<>> /\ ~Live(u)
  BY <1>1, <1>2 DEF OpsFor, Live, i
<1>7. ASSUME NEW kind, NEW v, OpsFor(u, sheet, direction) = <<op(kind, v)>>,
             kind # "add" => i # 0, kind # "delete" => v = value
      PROVE  OpShows(OpsFor(u, sheet, direction)[1], db, sheet, direction)
  <2>1. OpsFor(u, sheet, direction)[1] = op(kind, v)
    BY <1>7
  <2>2. OpShows(op(kind, v), db, sheet, direction)
    BY <1>3, <1>7 DEF OpShows
  <2> QED BY <2>1, <2>2
<1>8. OpsFor(u, sheet, direction) # <<>> =>
         OpShows(OpsFor(u, sheet, direction)[1], db, sheet, direction)
  <2> HIDE DEF op, value
  <2> QED BY <1>6, <1>7
<1>9. Live(u) => OpsFor(u, sheet, direction) # <<>>
  BY <1>6
<1> QED BY <1>5, <1>8, <1>9

(* The operations of all users: one each, and one for everybody who lives. *)
LEMMA ReadUsersShow ==
    ASSUME TypeOK, NEW direction, NEW ops, ops = FlattenSeq(OpsOf(sheet, direction))
    PROVE  OpsShow(ops, db, sheet, direction)
<1> DEFINE K == Busy(sheet, direction)
           L == Len(Created)
<1>1. sheet \in Seq(Row)
  BY DEF TypeOK
<1>2. PICK h : Lists(h, K, L) /\ OpsList(ops, h, sheet, direction)
  BY <1>1, OpsTaken
<1>3. /\ L \in Nat /\ DOMAIN Created = 1..L /\ \A n \in 1..L : Created[n] \in User
      /\ \A m, n \in 1..L : Created[m] = Created[n] => m = n
      /\ \A u \in User : \E n \in 1..L : Created[n] = u
  BY CreatedAssumption, LenProperties, ElementOfSeq DEF IsInjective, ToSet
<1>4. /\ Len(h) \in Nat /\ \A n \in 1..Len(h) : h[n] \in K /\ h[n] \in 1..L
      /\ \A m, n \in 1..Len(h) : h[m] = h[n] => m = n
      /\ \A k \in K : \E n \in 1..Len(h) : h[n] = k
  <2>1. K \cap 1..L = K
    BY <1>3 DEF Busy
  <2>2. \A k \in K : \E n \in 1..Len(h) : h[n] = k
    BY <1>2, <2>1 DEF Lists
  <2> HIDE DEF K, L
  <2>3. Len(h) \in Nat /\ \A n \in 1..Len(h) : h[n] \in K /\ h[n] \in 1..L
    BY <1>2, <1>3, ListsFacts
  <2>4. ASSUME NEW m \in 1..Len(h), NEW n \in 1..Len(h), h[m] = h[n] PROVE m = n
    BY <1>2, <1>3, <2>4, ListsOnce
  <2> QED BY <2>2, <2>3, <2>4
<1>5. ASSUME NEW n \in 1..Len(h)
      PROVE  /\ ops[n].user = Created[h[n]] /\ OpFits(ops[n], db, sheet)
             /\ OpShows(ops[n], db, sheet, direction)
  <2>1. ops[n] = OpsFor(Created[h[n]], sheet, direction)[1]
    BY <1>2 DEF OpsList
  <2>2. Created[h[n]] \in User /\ OpsFor(Created[h[n]], sheet, direction) # <<>>
    BY <1>3, <1>4 DEF Busy
  <2> QED BY <2>1, <2>2, OpForShows
<1>6. DOMAIN ops = 1..Len(h)
  BY <1>2 DEF OpsList
<1>7. ASSUME NEW u \in User, db[u].state = "live" PROVE \E n \in DOMAIN ops : ops[n].user = u
  <2>1. PICK k \in 1..L : Created[k] = u
    BY <1>3
  <2>2. k \in K
    BY <1>3, <1>7, <2>1, OpForShows DEF Busy, Live
  <2>3. PICK n \in 1..Len(h) : h[n] = k
    BY <1>4, <2>2
  <2> QED BY <1>5, <1>6, <2>1, <2>3
<1> HIDE DEF L, K
<1>8. ASSUME NEW m \in DOMAIN ops, NEW n \in DOMAIN ops, ops[m].user = ops[n].user
      PROVE  m = n
  <2>1. Created[h[m]] = Created[h[n]] /\ m \in 1..Len(h) /\ n \in 1..Len(h)
    BY <1>5, <1>6, <1>8
  <2>2. h[m] = h[n]
    BY <1>3, <1>4, <2>1
  <2> QED BY <1>4, <2>1, <2>2
<1> QED BY <1>5, <1>6, <1>7, <1>8 DEF OpsShow, OpsFit

(* When no operation is left, everybody is shown.                          *)
LEMMA NothingToShow ==
    ASSUME NEW users, NEW rows, NEW direction, OpsShow(<<>>, users, rows, direction)
    PROVE  AllShown(users, rows, direction)
BY DEF OpsShow, AllShown

(* The users are read, and operations made for them.                       *)
LEMMA ReadUsersCourse ==
    ASSUME TypeOK, QuietInv, NEW r \in Run, ReadUsers(r)
    PROVE  QuietInv'
<1> DEFINE ops == FlattenSeq(OpsOf(runs[r].rows, runs[r].direction))
           s == IF ops = <<>> THEN "recordPush" ELSE "flush"
           l == [runs[r] EXCEPT !.rows = <<>>, !.ops = ops]
<1>1. /\ step \in [Run -> RunStep] /\ runs \in [Run -> RunState] /\ runs[r] \in RunState
  BY DEF TypeOK
<1>2. /\ UNCHANGED data /\ Active(r) /\ Goto(r, s) /\ Set(r, l) /\ step[r] = "readUsers"
  BY DEF ReadUsers, At, Active, OpsOf
<1>u. UNCHANGED <<db, config, sheet, records>>
  BY <1>2 DEF data
<1> HIDE DEF ops
<1>4. /\ l.quiet = runs[r].quiet /\ l.aligned = runs[r].aligned /\ l.kind = runs[r].kind
      /\ l.before = runs[r].before /\ l.due = runs[r].due /\ l.configured = runs[r].configured
      /\ l.ops = ops
  BY <1>1 DEF RunState
<1>5. runs'[r] = l /\ step'[r] = s
  BY <1>1, <1>2 DEF Set, Goto
<1> HIDE DEF l
<1>6. BaselinesKnown'
  BY <1>u DEF QuietInv, BaselinesKnown
<1>7. ASSUME Watched(r)' PROVE OnCourse(r)'
  <2>1. Watched(r)
    BY <1>2, <1>4, <1>5, <1>7 DEF Watched, At
  <2>2. AsBegun(r) /\ runs[r].rows = sheet /\ runs[r].direction = config.direction
    BY <1>2, <2>1 DEF QuietInv, OnCourse
  <2>3. AsBegun(r)'
    BY <1>1, <1>2, <1>4, <1>5, <2>2, DataStands
  <2>4. OpsShow(ops, db, sheet, config.direction)
    BY <2>2, ReadUsersShow DEF ops
  <2>5. OpsShow(runs'[r].ops, db', sheet', config'.direction)
    BY <1>u, <1>4, <1>5, <2>4
  <2>6. OpsShow(runs[r].ops, db, sheet, config.direction)'
    BY <2>5
  <2>7. CASE ops = <<>>
    <3>1. AllShown(db, sheet, config.direction)
      BY <2>4, <2>7, NothingToShow
    <3>2. AllShown(db, sheet, config.direction)'
      BY <1>u, <3>1 DEF AllShown, Shown, Lowest
    <3> QED BY <1>5, <2>3, <2>7, <3>2 DEF OnCourse, At
  <2>8. CASE ops # <<>>
    BY <1>5, <2>3, <2>6, <2>8 DEF OnCourse, At
  <2> QED BY <2>7, <2>8
<1> HIDE DEF s
<1> QED BY <1>2, <1>4, <1>6, <1>7, CourseMoves

(* A batch that does what it was asked to.                                 *)
LEMMA FlushCourse ==
    ASSUME TypeInv, QuietInv, NEW r \in Run, NEW answer \in Answers, Flush(r, answer)
    PROVE  QuietInv'
<1> DEFINE ops == runs[r].ops
           batch == BatchOf(ops)
           rest == RestOf(ops)
           s == IF rest = <<>> THEN "recordPush" ELSE "flush"
           new == Written(sheet, batch)
           l == runs'[r]
<1>1. /\ runs \in [Run -> RunState] /\ runs[r] \in RunState /\ ops \in Seq(Op) /\ ops # <<>>
      /\ step \in [Run -> RunStep] /\ sheet \in Seq(Row) /\ db \in [User -> UserRow] /\ TypeOK
      /\ runs[r].due \subseteq Row
  BY DEF TypeInv, TypeOK, RunState, RunsReady, Flush
<1>2. /\ Goto(r, s) /\ step[r] = "flush" /\ Active(r) /\ UNCHANGED <<db, records, config>>
  BY DEF Flush, At, Active
<1>3. answer = "done" => sheet' = new
  BY DEF Flush
<1>4. /\ l.quiet => runs[r].quiet /\ answer = "done"
      /\ l.aligned => runs[r].aligned /\ ~Mixed(batch) /\ ~Shifts(batch, rest)
      /\ l.kind = runs[r].kind /\ l.configured = runs[r].configured
      /\ l.before = runs[r].before /\ l.due = runs[r].due /\ l.ops = rest
  BY <1>1 DEF Flush, Set, RunState
<1>5. step'[r] = s /\ Set(r, l)
  BY <1>1, <1>2 DEF Flush, Set, Goto
<1>6. BaselinesKnown'
  BY <1>2 DEF QuietInv, BaselinesKnown
<1>7. ASSUME Watched(r)' PROVE OnCourse(r)'
  <2>1. /\ Watched(r) /\ sheet' = new /\ ~Mixed(batch) /\ ~Shifts(batch, rest)
    BY <1>2, <1>3, <1>4, <1>5, <1>7 DEF Watched, At
  <2>2. AsBegun(r) /\ OpsShow(ops, db, sheet, config.direction)
    BY <1>2, <2>1 DEF QuietInv, OnCourse, At
  <2>3. /\ OpsShow(rest, db, new, config.direction)
        /\ \A u \in User : HasRow(u, sheet) /\ db[u].state = "live" => HasRow(u, new)
        /\ ~Pushes(config.direction) => KeepsRows(new, sheet)
    <3> HIDE DEF ops
    <3>1. ops \in Seq(Op) /\ ops # <<>> /\ sheet \in Seq(Row) /\ db \in [User -> UserRow]
      BY <1>1
    <3> HIDE DEF new, batch, rest
    <3>2. /\ new = Written(sheet, BatchOf(ops))
          /\ ~Mixed(BatchOf(ops))
          /\ ~Shifts(BatchOf(ops), RestOf(ops))
      BY <2>1 DEF new, batch, rest
    <3> QED BY ZenonT(30), <2>2, <3>1, <3>2, WrittenShows DEF rest
  <2> HIDE DEF ops, batch, rest, new
  <2>4. AsBegun(r)'
    <3>1. \A u \in User : /\ records'[u].baseline = records[u].baseline
                          /\ records[u].known => records'[u].known
                          /\ Live(u) /\ HasRow(u, sheet) => HasRow(u, sheet')
      BY <1>2, <2>1, <2>3 DEF Live
    <3>2. ~Pushes(config.direction) => KeepsRows(sheet', sheet)
      BY <2>1, <2>3
    <3> QED BY <1>1, <1>2, <1>4, <2>2, <3>1, <3>2, BegunStays
  <2>5. OpsShow(runs'[r].ops, db', sheet', config'.direction)
    BY <1>2, <1>4, <2>1, <2>3
  <2>6. OpsShow(runs[r].ops, db, sheet, config.direction)'
    BY <2>5
  <2>7. CASE rest = <<>>
    <3>1. AllShown(db, new, config.direction)
      BY <2>3, <2>7, NothingToShow
    <3>2. AllShown(db', sheet', config'.direction)
      BY <1>2, <2>1, <3>1
    <3>3. AllShown(db, sheet, config.direction)'
      BY <3>2
    <3> QED BY <1>5, <2>4, <2>7, <3>3 DEF OnCourse, At
  <2>8. CASE rest # <<>>
    BY <1>5, <2>4, <2>6, <2>8 DEF OnCourse, At
  <2> QED BY <2>7, <2>8
<1> HIDE DEF s, l
<1> QED BY <1>1, <1>2, <1>4, <1>5, <1>6, <1>7, CourseMoves

(* only has what is at the positions in kept, and each of them once.       *)
IsOnly(only, seq, kept) ==
    /\ \A n \in DOMAIN only : \E i \in kept \cap DOMAIN seq : only[n] = seq[i]
    /\ \A i \in kept \cap DOMAIN seq : \E n \in DOMAIN only : only[n] = seq[i]
    /\ \A i, j \in kept \cap DOMAIN seq : i # j =>
          \E m, n \in DOMAIN only : m # n /\ only[m] = seq[i] /\ only[n] = seq[j]

(* That is what Only takes.                                                *)
LEMMA OnlyHas ==
    ASSUME NEW S, NEW seq \in Seq(S), NEW kept
    PROVE  IsOnly(Only(seq, kept), seq, kept)
<1> DEFINE only == Only(seq, kept)
<1>1. Len(seq) \in Nat /\ DOMAIN seq = 1..Len(seq)
  BY LenProperties
<1>2. PICK h : Lists(h, kept, Len(seq)) /\ only = Taken(seq, h)
  BY OnlyTakes
<1> HIDE DEF only
<1>3. Len(h) \in Nat /\ \A n \in 1..Len(h) : h[n] \in kept /\ h[n] \in DOMAIN seq
  BY <1>1, <1>2, ListsFacts
<1>4. DOMAIN only = 1..Len(h) /\ \A n \in 1..Len(h) : only[n] = seq[h[n]]
  BY <1>2 DEF Taken
<1>5. \A i \in kept \cap DOMAIN seq : \E n \in 1..Len(h) : h[n] = i
  BY <1>1, <1>2 DEF Lists
<1>6. \A n \in DOMAIN only : \E i \in kept \cap DOMAIN seq : only[n] = seq[i]
  BY <1>3, <1>4
<1>7. \A i \in kept \cap DOMAIN seq : \E n \in DOMAIN only : only[n] = seq[i]
  BY <1>4, <1>5
<1>8. ASSUME NEW i \in kept \cap DOMAIN seq, NEW j \in kept \cap DOMAIN seq, i # j
      PROVE  \E m, n \in DOMAIN only : m # n /\ only[m] = seq[i] /\ only[n] = seq[j]
  <2>1. PICK m \in 1..Len(h) : h[m] = i
    BY <1>5
  <2>2. PICK n \in 1..Len(h) : h[n] = j
    BY <1>5
  <2> QED BY <1>4, <1>8, <2>1, <2>2
<1> QED BY <1>6, <1>7, <1>8 DEF IsOnly, only

(* What becomes of a row the run has read.                                 *)
RowOutcome(r, i) == Outcome(runs[r].rows[i], runs[r].users, runs[r].direction)

(* What a run is to write, note and mark, row by row.                      *)
LEMMA ReadRecordsMakes ==
    ASSUME TypeOK, NEW r \in Run, ReadRecords(r), NEW l, l = runs'[r]
    PROVE  /\ \A n \in DOMAIN l.writes : \E i \in DOMAIN runs[r].rows :
                 RowOutcome(r, i) = "apply" /\ l.writes[n] = runs[r].rows[i]
           /\ \A i \in DOMAIN runs[r].rows : RowOutcome(r, i) = "apply" =>
                 \E n \in DOMAIN l.writes : l.writes[n] = runs[r].rows[i]
           /\ \A i \in DOMAIN runs[r].rows : RowOutcome(r, i) = "conflict" =>
                 \E n \in DOMAIN l.found : /\ l.found[n].user = runs[r].rows[i].user
                                           /\ l.found[n].value = runs[r].rows[i].value
           /\ \A i \in DOMAIN runs[r].rows : RowOutcome(r, i) \in {"noop", "db_wins", "apply"} =>
                 \E n \in DOMAIN l.marks :
                     l.marks[n] = [user |-> runs[r].rows[i].user, value |-> runs[r].rows[i].value]
           /\ ~Twice(l.marks) =>
                 \A i, j \in DOMAIN runs[r].rows :
                    /\ RowOutcome(r, i) # "unknown" /\ RowOutcome(r, j) # "unknown"
                    /\ runs[r].rows[i].user = runs[r].rows[j].user
                    => i = j
<1> DEFINE rows == runs[r].rows
           outcome(row) == Outcome(row, runs[r].users, runs[r].direction)
           having(outcomes) == {i \in DOMAIN rows : outcome(rows[i]) \in outcomes}
           writes == Only(rows, having({"apply"}))
           kept == {i \in DOMAIN rows : outcome(rows[i]) # "unknown"}
           marks == Only(rows, kept)
           clashing == Only(rows, having({"unknown", "conflict"}))
           found == [i \in DOMAIN clashing |->
                    [user |-> clashing[i].user, value |-> clashing[i].value,
                     field |-> IF outcome(clashing[i]) = "unknown"
                               THEN "(user)" ELSE "column"]]
           baseline(row) ==
            IF outcome(row) \in {"noop", "db_wins", "apply"} THEN row.value
            ELSE records[row.user].baseline
           new == [i \in DOMAIN marks |-> [user |-> marks[i].user, value |-> baseline(marks[i])]]
<1>1. runs \in [Run -> RunState] /\ runs[r] \in RunState /\ rows \in Seq(Row)
  BY DEF TypeOK, RunState
<1>2. l.writes = writes /\ l.found = found /\ l.marks = new
  <2>1. runs'[r] = [runs[r] EXCEPT !.rows = <<>>, !.users = NoRun.users,
                               !.writes = writes, !.found = found, !.marks = new]
    BY <1>1 DEF ReadRecords, Set
  <2> HIDE DEF writes, found, new
  <2> QED BY <1>1, <2>1 DEF RunState
<1>3. \A i : RowOutcome(r, i) = outcome(rows[i])
  BY DEF RowOutcome
<1>4. \A K : IsOnly(Only(rows, K), rows, K)
  <2> DEFINE R == Row
  <2>1. rows \in Seq(R)
    BY <1>1
  <2> HIDE DEF R, rows
  <2> QED BY <2>1, OnlyHas
<1> HIDE DEF outcome
<1>5. /\ \A n \in DOMAIN l.writes : \E i \in DOMAIN rows :
            outcome(rows[i]) = "apply" /\ l.writes[n] = rows[i]
      /\ \A i \in DOMAIN rows : outcome(rows[i]) = "apply" =>
            \E n \in DOMAIN l.writes : l.writes[n] = rows[i]
  <2>1. IsOnly(writes, rows, having({"apply"}))
    BY <1>4
  <2> HIDE DEF writes, rows
  <2> QED BY <1>2, <2>1 DEF IsOnly
<1>6. ASSUME NEW i \in DOMAIN rows, outcome(rows[i]) = "conflict"
      PROVE  \E n \in DOMAIN l.found : /\ l.found[n].user = rows[i].user
                                       /\ l.found[n].value = rows[i].value
  <2>1. i \in having({"unknown", "conflict"}) \cap DOMAIN rows
    BY <1>6
  <2>2. PICK n \in DOMAIN clashing : clashing[n] = rows[i]
    <3>1. IsOnly(clashing, rows, having({"unknown", "conflict"}))
      BY <1>4
    <3> HIDE DEF clashing, rows, having
    <3> QED BY <2>1, <3>1 DEF IsOnly
  <2> HIDE DEF clashing
  <2>3. n \in DOMAIN found /\ found[n].user = rows[i].user /\ found[n].value = rows[i].value
    BY <2>2
  <2> QED BY <1>2, <2>3
<1>7. /\ \A i \in kept : \E n \in DOMAIN marks : marks[n] = rows[i]
      /\ \A i, j \in kept : i # j =>
                   \E m, n \in DOMAIN marks : m # n /\ marks[m] = rows[i] /\ marks[n] = rows[j]
  <2>1. kept \cap DOMAIN rows = kept
    OBVIOUS
  <2>2. IsOnly(marks, rows, kept)
    BY <1>4
  <2> HIDE DEF kept, marks, rows
  <2> QED BY <2>1, <2>2 DEF IsOnly
<1>8. \A i \in DOMAIN rows : outcome(rows[i]) # "unknown" => i \in kept
  OBVIOUS
<1> HIDE DEF marks, kept
<1>9. ASSUME NEW i \in DOMAIN rows, outcome(rows[i]) \in {"noop", "db_wins", "apply"}
      PROVE  \E n \in DOMAIN l.marks :
                 l.marks[n] = [user |-> rows[i].user, value |-> rows[i].value]
  <2>1. PICK n \in DOMAIN marks : marks[n] = rows[i]
    BY <1>7, <1>8, <1>9
  <2>2. n \in DOMAIN new /\ new[n] = [user |-> rows[i].user, value |-> rows[i].value]
    BY <1>9, <2>1
  <2> QED BY <1>2, <2>2
<1>10. ASSUME ~Twice(l.marks), NEW i \in DOMAIN rows, NEW j \in DOMAIN rows,
              outcome(rows[i]) # "unknown", outcome(rows[j]) # "unknown",
              rows[i].user = rows[j].user
       PROVE  i = j
  <2> SUFFICES ASSUME i # j PROVE FALSE
    OBVIOUS
  <2>1. PICK m, n \in DOMAIN marks : m # n /\ marks[m] = rows[i] /\ marks[n] = rows[j]
    BY <1>7, <1>8, <1>10
  <2>2. /\ m \in DOMAIN new /\ n \in DOMAIN new /\ m # n
        /\ new[m].user = rows[i].user /\ new[n].user = rows[j].user
    BY <2>1
  <2> HIDE DEF new
  <2> QED BY <1>2, <1>10, <2>2 DEF Twice
<1> HIDE DEF writes, found, new, clashing
<1>11. \A i, j \in DOMAIN rows : ~Twice(l.marks) /\ RowOutcome(r, i) # "unknown"
            /\ RowOutcome(r, j) # "unknown" /\ rows[i].user = rows[j].user => i = j
  BY <1>3, <1>10
<1> QED BY <1>3, <1>5, <1>6, <1>9, <1>11

(* What may become of the only row of a live user.                         *)
LEMMA OutcomeCases ==
    ASSUME TypeOK, NEW row \in Row, Live(row.user), NEW users, NEW direction,
           users[row.user] = db[row.user].value,
           NEW o, o = Outcome(row, users, direction),
           NEW base, base = records[row.user].baseline
    PROVE  /\ o # "unknown"
           /\ direction # "sheet_to_db" /\ direction # "bidirectional" => o = "ignored"
           /\ direction = "bidirectional" /\ row.value = db[row.user].value => o = "noop"
           /\ Pulls(direction) => o \in {"noop", "db_wins", "apply", "conflict"}
           /\ o = "apply" => /\ row.value \in Accepted /\ row.value # db[row.user].value
                             /\ base # None => base = db[row.user].value
           /\ /\ Pulls(direction) /\ row.value \in Accepted /\ row.value # db[row.user].value
              /\ records[row.user].known /\ base = db[row.user].value
              => o = "apply"
<1>1. row.user \in User /\ row.value \in Value
  BY DEF Row
<1>2. users[row.user] # None
  BY <1>1, NoneAssumption DEF TypeOK, UserRow
<1>3. Pulls(direction) <=> direction \in {"sheet_to_db", "bidirectional"}
  BY DEF Pulls
<1> DEFINE change == Classify(users[row.user], row.value,
                              IF base = None THEN users[row.user] ELSE base)
<1>4. change = IF users[row.user] = row.value THEN "noop"
               ELSE IF users[row.user] = (IF base = None THEN users[row.user] ELSE base) THEN "apply"
               ELSE IF row.value = (IF base = None THEN users[row.user] ELSE base) THEN "db_wins"
               ELSE "conflict"
  BY DEF Classify
<1>5. o = IF ~Pulls(direction) THEN "ignored"
          ELSE IF ~records[row.user].known THEN "noop"
          ELSE IF change = "apply" /\ row.value \notin Accepted THEN "conflict" ELSE change
  <2> HIDE DEF change
  <2>1. o = CASE users[row.user] = None -> "unknown"
              [] users[row.user] # None /\ ~Pulls(direction) -> "ignored"
              [] users[row.user] # None /\ Pulls(direction) /\ ~records[row.user].known -> "noop"
              [] OTHER -> IF change = "apply" /\ row.value \notin Accepted
                          THEN "conflict" ELSE change
    BY DEF Outcome, change
  <2> QED BY <1>2, <2>1
<1> HIDE DEF change
<1>6. direction = "bidirectional" /\ row.value = db[row.user].value => o = "noop"
  BY <1>3, <1>4, <1>5
<1>7. o = "apply" => /\ row.value \in Accepted /\ row.value # db[row.user].value
                     /\ base # None => base = db[row.user].value
  BY <1>4, <1>5
<1>8. /\ Pulls(direction) /\ row.value \in Accepted /\ row.value # db[row.user].value
      /\ records[row.user].known /\ base = db[row.user].value
      => o = "apply"
  BY <1>2, <1>4, <1>5
<1>9. /\ o # "unknown"
      /\ direction # "sheet_to_db" /\ direction # "bidirectional" => o = "ignored"
      /\ Pulls(direction) => o \in {"noop", "db_wins", "apply", "conflict"}
  BY <1>3, <1>4, <1>5
<1> QED BY <1>6, <1>7, <1>8, <1>9

(* The rows read say what is to be done about everybody.                   *)
LEMMA RecordsPlan ==
    ASSUME TypeOK, NEW r \in Run, ReadRecords(r), OnCourse(r), ~Twice(runs'[r].marks),
           step'[r] # "recordPull"
    PROVE  AllPlanned(r)'
<1> DEFINE l == runs'[r]
           D == config.direction
<1>1. /\ runs \in [Run -> RunState] /\ runs[r] \in RunState /\ sheet \in Seq(Row)
      /\ D \in Direction
  BY DEF TypeOK
<1>2. UNCHANGED <<db, config, sheet, records>> /\ step[r] = "readRecords"
  BY DEF ReadRecords, data, At
<1>3. /\ AsBegun(r) /\ AllShown(db, sheet, D) /\ runs[r].rows = sheet /\ runs[r].direction = D
      /\ runs[r].users = [u \in User |-> IF Live(u) THEN db[u].value ELSE None]
  BY <1>2 DEF OnCourse, At
<1>4. l.before = runs[r].before /\ l.due = runs[r].due
  BY <1>1 DEF ReadRecords, Set, RunState
<1> HIDE DEF l
<1>5. /\ \A n \in DOMAIN l.writes : \E i \in DOMAIN sheet :
            RowOutcome(r, i) = "apply" /\ l.writes[n] = sheet[i]
      /\ \A i \in DOMAIN sheet : RowOutcome(r, i) = "apply" =>
            \E n \in DOMAIN l.writes : l.writes[n] = sheet[i]
      /\ \A i \in DOMAIN sheet : RowOutcome(r, i) = "conflict" =>
            \E n \in DOMAIN l.found : /\ l.found[n].user = sheet[i].user
                                      /\ l.found[n].value = sheet[i].value
      /\ \A i \in DOMAIN sheet : RowOutcome(r, i) \in {"noop", "db_wins", "apply"} =>
            \E n \in DOMAIN l.marks :
                l.marks[n] = [user |-> sheet[i].user, value |-> sheet[i].value]
      /\ \A i, j \in DOMAIN sheet :
            /\ RowOutcome(r, i) # "unknown" /\ RowOutcome(r, j) # "unknown"
            /\ sheet[i].user = sheet[j].user
            => i = j
  <2>1. ~Twice(l.marks) /\ l = runs'[r]
    BY DEF l
  <2> QED BY <1>3, <2>1, ReadRecordsMakes
<1>6. \A i \in DOMAIN sheet : sheet[i] \in Row /\ sheet[i].user \in User
                              /\ sheet[i] = [user |-> sheet[i].user, value |-> sheet[i].value]
  BY <1>1, RowsElements
<1>7. ASSUME NEW i \in DOMAIN sheet, Live(sheet[i].user),
             NEW u, u = sheet[i].user, NEW cell, cell = sheet[i].value,
             NEW o, o = RowOutcome(r, i), NEW base, base = records[u].baseline
      PROVE  /\ o # "unknown"
             /\ D # "sheet_to_db" /\ D # "bidirectional" => o = "ignored"
             /\ D = "bidirectional" /\ cell = db[u].value => o = "noop"
             /\ Pulls(D) => o \in {"noop", "db_wins", "apply", "conflict"}
             /\ o = "apply" => /\ cell \in Accepted /\ cell # db[u].value
                               /\ base # None => base = db[u].value
             /\ /\ Pulls(D) /\ cell \in Accepted /\ cell # db[u].value
                /\ records[u].known /\ base = db[u].value
                => o = "apply"
  <2>1. o = Outcome(sheet[i], runs[r].users, D)
    BY <1>3, <1>7 DEF RowOutcome
  <2>2. runs[r].users[sheet[i].user] = db[sheet[i].user].value
    BY <1>3, <1>6, <1>7
  <2>3. sheet[i] \in Row
    BY <1>6
  <2> HIDE DEF D
  <2> QED BY <1>7, <2>1, <2>2, <2>3, OutcomeCases
<1>8. SUFFICES ASSUME NEW u \in User, Live(u)'
               PROVE  \E i \in DOMAIN sheet' :
                        Lowest(i, u, sheet)' /\ Planned(r, u, sheet[i].value)'
  BY DEF AllPlanned
<1>9. Live(u)
  BY <1>2, <1>8 DEF Live
<1>10. PICK i \in DOMAIN sheet : /\ Lowest(i, u, sheet)
                                 /\ Pushes(D) => sheet[i].value = db[u].value
  BY <1>3, <1>9 DEF AllShown, Shown, Live
<1> DEFINE cell == sheet[i].value
           o == RowOutcome(r, i)
           base == records[u].baseline
           W == \E n \in DOMAIN l.writes : l.writes[n].user = u
<1>11. sheet[i].user = u
  BY <1>10 DEF Lowest
<1>12. /\ o # "unknown"
       /\ D # "sheet_to_db" /\ D # "bidirectional" => o = "ignored"
       /\ D = "bidirectional" /\ cell = db[u].value => o = "noop"
       /\ Pulls(D) => o \in {"noop", "db_wins", "apply", "conflict"}
       /\ o = "apply" => /\ cell \in Accepted /\ cell # db[u].value
                         /\ base # None => base = db[u].value
       /\ /\ Pulls(D) /\ cell \in Accepted /\ cell # db[u].value
          /\ records[u].known /\ base = db[u].value
          => o = "apply"
  <2> HIDE DEF D
  <2> QED BY <1>7, <1>9, <1>11
<1>13. \A j \in DOMAIN sheet : sheet[j].user = u => j = i
  <2> SUFFICES ASSUME NEW j \in DOMAIN sheet, sheet[j].user = u PROVE j = i
    OBVIOUS
  <2>1. RowOutcome(r, j) # "unknown"
    BY <1>7, <1>9
  <2> QED BY <1>5, <1>11, <1>12, <2>1
<1>14. \A n \in DOMAIN l.writes : l.writes[n].user = u => l.writes[n].value = cell /\ o = "apply"
  BY <1>5, <1>13
<1>15. W <=> o = "apply"
  BY <1>5, <1>11, <1>14
<1>16. o \in {"noop", "db_wins", "apply"} =>
          \E n \in DOMAIN l.marks : l.marks[n] = [user |-> u, value |-> cell]
  BY <1>5, <1>11
<1>17. o = "conflict" => \E n \in DOMAIN l.found : l.found[n].user = u /\ l.found[n].value = cell
  BY <1>5, <1>11
<1>18. l.before[u] # None => l.before[u] = db[u].value /\ base # None
  BY <1>3, <1>4 DEF AsBegun
<1>s. /\ [user |-> u, value |-> cell] \in l.due =>
            /\ cell \in Accepted /\ cell # db[u].value
            /\ records[u].known /\ base = db[u].value
      /\ ~Pushes(D) => \A row \in ChangedInSheet : l.before[row.user] # None => row \in l.due
  BY <1>3, <1>4 DEF AsBegun
<1> HIDE DEF o, base, W
<1>19. Pushes(D) => /\ ~W /\ cell = db[u].value /\ l.before[u] \in {None, db[u].value}
                    /\ D = "bidirectional" =>
                          \E n \in DOMAIN l.marks :
                              l.marks[n] = [user |-> u, value |-> cell]
  BY <1>10, <1>12, <1>15, <1>16, <1>18 DEF Pushes
<1>20. ASSUME D = "sheet_to_db"
       PROVE  /\ \/ cell = db[u].value \/ W
                 \/ \E n \in DOMAIN l.marks : l.marks[n] = [user |-> u, value |-> cell]
                 \/ \E n \in DOMAIN l.found : l.found[n].user = u /\ l.found[n].value = cell
              /\ IF [user |-> u, value |-> cell] \in l.due
                 THEN cell = db[u].value \/ W
                 ELSE l.before[u] = None \/ (~W /\ l.before[u] = db[u].value)
  <2>1. Pulls(D) /\ ~Pushes(D)
    BY <1>20 DEF Pulls, Pushes
  <2>2. \/ W
        \/ \E n \in DOMAIN l.marks : l.marks[n] = [user |-> u, value |-> cell]
        \/ \E n \in DOMAIN l.found : l.found[n].user = u /\ l.found[n].value = cell
    BY <1>12, <1>15, <1>16, <1>17, <2>1
  <2>3. ASSUME [user |-> u, value |-> cell] \in l.due PROVE W
    <3>1. /\ cell \in Accepted /\ cell # db[u].value
          /\ records[u].known /\ base = db[u].value
      BY <1>s, <2>3
    <3> QED BY <1>12, <1>15, <2>1, <3>1
  <2>4. \/ [user |-> u, value |-> cell] \in l.due
        \/ l.before[u] = None
        \/ (~W /\ l.before[u] = db[u].value)
    <3>0. SUFFICES ASSUME ~([user |-> u, value |-> cell] \in l.due), ~(l.before[u] = None)
                   PROVE  ~W /\ l.before[u] = db[u].value
      OBVIOUS
    <3>1. l.before[u] = db[u].value /\ base # None
      BY <1>18, <3>0
    <3>2. ASSUME W PROVE FALSE
      <4>1. cell \in Accepted /\ cell # db[u].value /\ base = db[u].value
        BY <1>12, <1>15, <3>1, <3>2
      <4>2. sheet[i] \in ChangedInSheet
        BY <1>6, <1>9, <1>11, <4>1 DEF ChangedInSheet, base
      <4>3. sheet[i] \in l.due
        BY <1>s, <1>11, <2>1, <3>0, <4>2
      <4>4. sheet[i] = [user |-> u, value |-> cell]
        BY <1>6, <1>11
      <4> QED BY <3>0, <4>3, <4>4
    <3> QED BY <3>1, <3>2
  <2>5. CASE [user |-> u, value |-> cell] \in l.due
    BY <2>2, <2>3, <2>5
  <2>6. CASE [user |-> u, value |-> cell] \notin l.due
    BY <2>2, <2>4, <2>6
  <2> QED BY <2>5, <2>6
<1>21. PlannedPush(r, u, cell)' \/ ~Pushes(D)
  BY <1>2, <1>19 DEF PlannedPush, Writing, Marked, l, W
<1>22. PlannedPull(r, u, cell)' \/ D # "sheet_to_db"
  BY <1>2, <1>14, <1>20 DEF PlannedPull, Writing, Marked, ToNote, At, l, W
<1>23. Planned(r, u, cell)'
  BY <1>2, <1>21, <1>22 DEF Planned
<1>24. Lowest(i, u, sheet)' /\ i \in DOMAIN sheet'
  BY <1>2, <1>10 DEF Lowest
<1> QED BY <1>23, <1>24

(* The plan is made.                                                       *)
LEMMA ReadRecordsCourse ==
    ASSUME TypeOK, QuietInv, NEW r \in Run, ReadRecords(r)
    PROVE  QuietInv'
<1> DEFINE l == runs'[r]
           s == IF l.writes = <<>> THEN "conflicts" ELSE "write"
<1>1. runs \in [Run -> RunState] /\ runs[r] \in RunState /\ step \in [Run -> RunStep]
  BY DEF TypeOK
<1>2. Active(r) /\ step[r] = "readRecords" /\ UNCHANGED records
  BY DEF ReadRecords, data, At, Active
<1>3. Goto(r, s) /\ Set(r, l)
  BY <1>1 DEF ReadRecords, Set, RunState
<1>4. /\ l.quiet = runs[r].quiet /\ l.aligned = runs[r].aligned /\ l.kind = runs[r].kind
      /\ l.configured = runs[r].configured
  BY <1>1 DEF ReadRecords, Set, RunState
<1>5. step'[r] = s
  BY <1>1, <1>3 DEF Goto
<1>6. BaselinesKnown'
  BY <1>2 DEF QuietInv, BaselinesKnown
<1> HIDE DEF l
<1>7. ASSUME Watched(r)' PROVE OnCourse(r)'
  <2>1. Watched(r)
    BY <1>2, <1>4, <1>5, <1>7 DEF Watched, At, l
  <2>2. ~Twice(l.marks) => AllPlanned(r)'
    <3>1. OnCourse(r) /\ step'[r] # "recordPull"
      BY <1>5, <2>1 DEF QuietInv
    <3> QED BY <3>1, RecordsPlan DEF l
  <2> QED BY <1>5, <2>2 DEF OnCourse, At, l
<1> HIDE DEF s
<1> QED BY <1>2, <1>3, <1>4, <1>6, <1>7, CourseMoves

(* What is written to a user who is pulled is what his row shows; nobody   *)
(* who is pushed is written to.                                            *)
LEMMA WriteCellPlanned ==
    ASSUME TypeInv, NEW r \in Run, WriteCell(r), AllPlanned(r), ~At(r, "recordPull")'
    PROVE  AllPlanned(r)'
<1> DEFINE w == runs[r].writes
           row == Head(w)
           rest == Tail(w)
<1>1. /\ runs \in [Run -> RunState] /\ runs[r] \in RunState /\ w \in Seq(Row) /\ w # <<>>
      /\ db \in [User -> UserRow]
  BY DEF TypeInv, TypeOK, RunState, RunsReady, WriteCell
<1>2. /\ row \in Row /\ rest \in Seq(Row)
      /\ 1 \in DOMAIN w /\ row = w[1]
      /\ \A n \in DOMAIN rest : n + 1 \in DOMAIN w /\ rest[n] = w[n+1]
      /\ \A n \in DOMAIN w : n = 1 \/ (n - 1 \in DOMAIN rest /\ w[n] = rest[n-1])
  <2> HIDE DEF w
  <2>1. /\ Len(w) \in Nat /\ Len(w) # 0 /\ DOMAIN w = 1..Len(w)
        /\ row \in Row /\ rest \in Seq(Row) /\ Len(rest) = Len(w) - 1 /\ row = w[1]
        /\ \A n \in 1..Len(rest) : rest[n] = w[n+1]
    BY <1>1, HeadTailProperties, LenProperties, EmptySeq
  <2>2. DOMAIN rest = 1..Len(w) - 1
    BY <2>1, LenProperties
  <2> HIDE DEF rest, row
  <2> QED BY <2>1, <2>2
<1>3. /\ UNCHANGED <<config, sheet, records>> /\ step[r] = "write"
      /\ db' = [db EXCEPT ![row.user].value = row.value]
      /\ runs' = [runs EXCEPT ![r] = [runs[r] EXCEPT !.writes = rest]]
  BY DEF WriteCell, Set, At
<1>4. /\ runs'[r].writes = rest /\ runs'[r].marks = runs[r].marks /\ runs'[r].found = runs[r].found
      /\ runs'[r].before = runs[r].before /\ runs'[r].due = runs[r].due
  BY <1>1, <1>3 DEF RunState
<1>5. row.user \in User
  BY <1>2 DEF Row
<1> HIDE DEF row, rest
<1>6. /\ \A u \in User : db'[u].state = db[u].state
      /\ \A u \in User \ {row.user} : db'[u].value = db[u].value
      /\ db'[row.user].value = row.value
  BY <1>1, <1>3, <1>5 DEF UserRow
<1>7. ASSUME NEW u \in User
      PROVE  /\ Writing(r, u)' => Writing(r, u)
             /\ u # row.user => (Writing(r, u)' <=> Writing(r, u))
             /\ Writing(r, row.user)
  <2>1. Writing(r, u)' <=> \E n \in DOMAIN rest : rest[n].user = u
    BY <1>4 DEF Writing
  <2>2. Writing(r, u) <=> \E n \in DOMAIN w : w[n].user = u
    BY DEF Writing
  <2>3. Writing(r, row.user)
    BY <1>2 DEF Writing
  <2> HIDE DEF w
  <2> QED BY <1>2, <2>1, <2>2, <2>3
<1>8. SUFFICES ASSUME NEW u \in User, Live(u)'
               PROVE  \E i \in DOMAIN sheet' :
                        Lowest(i, u, sheet)' /\ Planned(r, u, sheet[i].value)'
  BY DEF AllPlanned
<1>9. PICK i \in DOMAIN sheet : Lowest(i, u, sheet) /\ Planned(r, u, sheet[i].value)
  BY <1>6, <1>8 DEF AllPlanned, Live
<1> DEFINE cell == sheet[i].value
<1>10. /\ Marked(r, u, cell)' = Marked(r, u, cell)
       /\ ToNote(r, u, cell)' = ToNote(r, u, cell)
  BY <1>3, <1>4 DEF Marked, ToNote
<1>11. ASSUME PlannedPush(r, u, cell) PROVE PlannedPush(r, u, cell)'
  <2>1. u # row.user
    BY <1>7, <1>11 DEF PlannedPush
  <2>2. db'[u].value = db[u].value /\ ~Writing(r, u)'
    BY <1>6, <1>7, <1>11, <2>1 DEF PlannedPush
  <2> QED BY <1>3, <1>4, <1>10, <1>11, <2>2 DEF PlannedPush
<1>12. ASSUME PlannedPull(r, u, cell) PROVE PlannedPull(r, u, cell)'
  <2> DEFINE here == [user |-> u, value |-> cell]
  <2>1. \A n \in DOMAIN w : w[n].user = u => w[n].value = cell
    BY <1>12 DEF PlannedPull
  <2>2. \A n \in DOMAIN rest : rest[n].user = u => rest[n].value = cell
    BY <1>2, <2>1
  <2>3. /\ cell = db[u].value \/ Writing(r, u) \/ Marked(r, u, cell) \/ ToNote(r, u, cell)
        /\ here \in runs[r].due => cell = db[u].value \/ Writing(r, u)
        /\ here \notin runs[r].due =>
              runs[r].before[u] = None \/ (~Writing(r, u) /\ runs[r].before[u] = db[u].value)
    BY <1>3, <1>12 DEF PlannedPull, At
  <2>4. CASE u = row.user
    <3>1. db'[u].value = cell
      BY <1>2, <1>6, <2>1, <2>4
    <3>2. here \notin runs[r].due => runs[r].before[u] = None
      BY <1>7, <2>3, <2>4
    <3> HIDE DEF here
    <3>3. IF here \in runs[r].due THEN cell = db'[u].value \/ Writing(r, u)'
          ELSE runs[r].before[u] = None \/ (~Writing(r, u)' /\ runs[r].before[u] = db'[u].value)
      BY <3>1, <3>2
    <3> QED BY <1>3, <1>4, <2>2, <3>1, <3>3 DEF PlannedPull, here
  <2>5. CASE u # row.user
    <3>1. db'[u].value = db[u].value /\ (Writing(r, u)' <=> Writing(r, u))
      BY <1>6, <1>7, <2>5
    <3> HIDE DEF here
    <3>2. /\ cell = db'[u].value \/ Writing(r, u)' \/ Marked(r, u, cell)' \/ ToNote(r, u, cell)'
          /\ IF here \in runs[r].due THEN cell = db'[u].value \/ Writing(r, u)'
             ELSE runs[r].before[u] = None \/ (~Writing(r, u)' /\ runs[r].before[u] = db'[u].value)
      BY <1>10, <2>3, <3>1
    <3> QED BY <1>3, <1>4, <2>2, <3>2 DEF PlannedPull, here
  <2> QED BY <2>4, <2>5
<1>13. Planned(r, u, cell)'
  BY <1>3, <1>9, <1>11, <1>12 DEF Planned
<1> QED BY <1>3, <1>9, <1>13 DEF Lowest

(* A value is applied.                                                     *)
LEMMA WriteCellCourse ==
    ASSUME TypeInv, QuietInv, NEW r \in Run, WriteCell(r)
    PROVE  QuietInv'
<1> DEFINE rest == Tail(runs[r].writes)
           l == [runs[r] EXCEPT !.writes = rest]
           s == IF rest = <<>> THEN "conflicts" ELSE "write"
<1>1. /\ runs \in [Run -> RunState] /\ runs[r] \in RunState /\ step \in [Run -> RunStep] /\ TypeOK
  BY DEF TypeInv, TypeOK
<1>2. /\ Active(r) /\ step[r] = "write" /\ UNCHANGED records
      /\ Goto(r, s) /\ Set(r, l)
  BY DEF WriteCell, At, Active
<1>3. /\ l.quiet = runs[r].quiet /\ l.aligned = runs[r].aligned /\ l.kind = runs[r].kind
      /\ l.configured = runs[r].configured /\ l.writes = rest /\ l.marks = runs[r].marks
  BY <1>1 DEF RunState
<1>4. runs'[r] = l /\ step'[r] = s
  BY <1>1, <1>2 DEF Set, Goto
<1> HIDE DEF l
<1>5. BaselinesKnown'
  BY <1>2 DEF QuietInv, BaselinesKnown
<1>6. ASSUME Watched(r)' PROVE OnCourse(r)'
  <2>1. Watched(r)
    BY <1>2, <1>3, <1>4, <1>6 DEF Watched, At
  <2>2. ~At(r, "recordPull")'
    BY <1>4 DEF At
  <2>3. ~Twice(l.marks) => AllPlanned(r)'
    <3>1. ~Twice(runs[r].marks) => AllPlanned(r)
      BY <1>2, <2>1 DEF QuietInv, OnCourse
    <3> QED BY <1>3, <2>2, <3>1, WriteCellPlanned
  <2>4. s = "conflicts" => runs'[r].writes = <<>>
    BY <1>3, <1>4
  <2>5. Twice(runs[r].marks)' = Twice(l.marks)
    BY <1>4
  <2> QED BY <1>4, <2>3, <2>4, <2>5 DEF OnCourse, At
<1> HIDE DEF s
<1> QED BY <1>1, <1>2, <1>3, <1>5, <1>6, CourseMoves

(* Some of what was found takes free rows, one each, and all the rows      *)
(* there are when there is more of it than rows.                           *)
LEMMA FreeRows ==
    ASSUME NEW n \in Nat
    PROVE  LET kept == 1..Min({n, Cardinality(Free)})
               id == CHOOSE f \in [kept -> Free] : IsInjective(f)
           IN  /\ id \in [kept -> Free] /\ IsInjective(id)
               /\ kept = 1..n \/ \A c \in Free : \E i \in kept : id[i] = c
<1> DEFINE m == Cardinality(Free)
           k == Min({n, m})
           kept == 1..k
           id == CHOOSE f \in [kept -> Free] : IsInjective(f)
<1>1. IsFiniteSet(Free)
  <2>1. Free \subseteq Conflict
    BY DEF Free
  <2> QED BY <2>1, ConflictAssumption, FS_Subset
<1>2. m \in Nat /\ ExistsBijection(1..m, Free)
  BY <1>1, FS_CardinalityType
<1>3. k = IF n <= m THEN n ELSE m
  BY <1>2, MinOfTwo
<1> HIDE DEF k, m
<1>4. PICK g \in [1..m -> Free] : IsInjective(g)
  BY <1>2 DEF ExistsBijection, Bijection, Injection
<1>5. \E f \in [kept -> Free] : IsInjective(f)
  <2> DEFINE f == [i \in kept |-> g[i]]
  <2>1. kept \subseteq 1..m
    BY <1>2, <1>3
  <2>2. f \in [kept -> Free]
    BY <1>4, <2>1
  <2>3. IsInjective(f)
    BY <1>4, <2>1 DEF IsInjective
  <2> QED BY <2>2, <2>3
<1>6. id \in [kept -> Free] /\ IsInjective(id)
  <2> HIDE DEF kept
  <2> QED BY <1>5
<1>7. CASE n <= m
  BY <1>3, <1>6, <1>7 DEF k, m
<1>8. CASE ~(n <= m)
  <2>1. k = m
    BY <1>3, <1>8
  <2>2. id \in Injection(kept, Free)
    BY <1>6 DEF Injection
  <2> HIDE DEF id
  <2>3. Cardinality(kept) = m
    BY <1>2, <2>1, FS_Interval
  <2>4. id \in Surjection(kept, Free)
    BY <1>1, <2>2, <2>3, FS_Injection DEF m
  <2>5. \A c \in Free : \E i \in kept : id[i] = c
    BY <2>4 DEF Surjection
  <2> QED BY <1>6, <2>5 DEF id, k, m
<1> QED BY <1>7, <1>8

(* A conflict that is to be noted is, unless there was no room for all.    *)
LEMMA FoundNoted ==
    ASSUME TypeInv, NEW r \in Run, RecordConflicts(r), NEW u, NEW cell, ToNote(r, u, cell)
    PROVE  Noted(u, cell)'
<1> DEFINE found == runs[r].found
           kept == 1..Min({Len(found), Cardinality(Free)})
           id == CHOOSE f \in [kept -> Free] : IsInjective(f)
           new == {c \in Free : \E i \in kept : id[i] = c}
           F == Free
<1>1. /\ conflicts' = [c \in Conflict |->
            IF c \in new THEN found[CHOOSE i \in kept : id[i] = c] ELSE conflicts[c]]
      /\ verdicts' = [c \in Conflict |->
            IF c \in new THEN [NoVerdict EXCEPT !.state = "pending"] ELSE verdicts[c]]
  BY DEF RecordConflicts
<1>2. /\ Len(found) \in Nat /\ DOMAIN found = 1..Len(found)
  <2>1. found \in Seq(Found)
    BY DEF TypeInv, TypeOK, RunState
  <2> QED BY <2>1, LenProperties
<1>3. /\ id \in [kept -> Free] /\ IsInjective(id)
      /\ kept = 1..Len(found) \/ \A c \in Free : \E i \in kept : id[i] = c
  <2> HIDE DEF found
  <2> QED BY <1>2, FreeRows
<1>4. PICK n \in DOMAIN found : found[n].user = u /\ found[n].value = cell
  BY DEF ToNote
<1>5. F \subseteq Conflict /\ new \subseteq F /\ F = Free
      /\ \A c \in Conflict \ F : verdicts[c].state # "none"
  BY DEF Free
<1>6. [NoVerdict EXCEPT !.state = "pending"].state = "pending"
  BY DEF NoVerdict
<1> HIDE DEF found, kept, id, F
<1>7. CASE kept = 1..Len(found)
  <2>1. n \in kept
    BY <1>2, <1>4, <1>7
  <2> DEFINE c == id[n]
  <2>2. c \in new
    BY <1>3, <2>1
  <2>3. (CHOOSE i \in kept : id[i] = c) = n
    <3>1. \A i \in kept : id[i] = c => i = n
      BY <1>3, <2>1 DEF IsInjective
    <3> HIDE DEF c
    <3> QED BY <2>1, <3>1 DEF c
  <2> HIDE DEF c, new
  <2>4. /\ c \in Conflict /\ verdicts'[c].state = "pending"
        /\ conflicts'[c] = found[n]
    BY <1>1, <1>5, <1>6, <2>2, <2>3
  <2> QED BY <1>4, <2>4 DEF Noted
<1>8. CASE \A c \in Free : \E i \in kept : id[i] = c
  <2>1. new = F
    BY <1>5, <1>8
  <2> HIDE DEF new
  <2>2. \A c \in Conflict : verdicts'[c].state # "none"
    BY <1>1, <1>5, <1>6, <2>1
  <2> QED BY <2>2 DEF Noted, Free
<1> QED BY <1>3, <1>7, <1>8

(* What was found is noted.                                                *)
LEMMA RecordConflictsCourse ==
    ASSUME TypeInv, QuietInv, NEW r \in Run, RecordConflicts(r)
    PROVE  QuietInv'
<1> DEFINE l == [runs[r] EXCEPT !.found = <<>>]
<1>1. /\ runs \in [Run -> RunState] /\ runs[r] \in RunState /\ step \in [Run -> RunStep] /\ TypeOK
  BY DEF TypeInv, TypeOK
<1>2. /\ Active(r) /\ step[r] = "conflicts" /\ UNCHANGED <<config, db, sheet, records>>
      /\ Goto(r, "recordPull") /\ Set(r, l)
  BY DEF RecordConflicts, At, Active
<1>3. /\ l.quiet = runs[r].quiet /\ l.aligned = runs[r].aligned /\ l.kind = runs[r].kind
      /\ l.configured = runs[r].configured /\ l.writes = runs[r].writes
      /\ l.marks = runs[r].marks /\ l.before = runs[r].before /\ l.due = runs[r].due
  BY <1>1 DEF RunState
<1>4. runs'[r] = l /\ step'[r] = "recordPull"
  BY <1>1, <1>2 DEF Set, Goto
<1> HIDE DEF l
<1>5. BaselinesKnown'
  BY <1>2 DEF QuietInv, BaselinesKnown
<1>6. ASSUME NEW u \in User, NEW cell, Planned(r, u, cell) PROVE Planned(r, u, cell)'
  <2>1. /\ Writing(r, u)' = Writing(r, u) /\ Marked(r, u, cell)' = Marked(r, u, cell)
    BY <1>3, <1>4 DEF Writing, Marked
  <2>2. PlannedPush(r, u, cell) => PlannedPush(r, u, cell)'
    BY <1>2, <1>3, <1>4, <2>1 DEF PlannedPush
  <2>3. ToNote(r, u, cell) => Noted(u, cell)'
    BY FoundNoted
  <2>4. PlannedPull(r, u, cell) => PlannedPull(r, u, cell)'
    BY <1>2, <1>3, <1>4, <2>1, <2>3 DEF PlannedPull, At
  <2> QED BY <1>2, <1>6, <2>2, <2>4 DEF Planned
<1>7. AllPlanned(r) => AllPlanned(r)'
  <2> SUFFICES ASSUME AllPlanned(r), NEW u \in User, Live(u)'
               PROVE  \E i \in DOMAIN sheet' :
                        Lowest(i, u, sheet)' /\ Planned(r, u, sheet[i].value)'
    BY DEF AllPlanned
  <2>1. PICK i \in DOMAIN sheet : Lowest(i, u, sheet) /\ Planned(r, u, sheet[i].value)
    BY <1>2 DEF AllPlanned, Live
  <2>2. Planned(r, u, sheet[i].value)'
    BY <1>2, <1>6, <2>1
  <2> QED BY <1>2, <2>1, <2>2 DEF Lowest
<1>8. ASSUME Watched(r)' PROVE OnCourse(r)'
  <2>1. Watched(r)
    BY <1>2, <1>3, <1>4, <1>8 DEF Watched, At
  <2>2. runs[r].writes = <<>> /\ (~Twice(runs[r].marks) => AllPlanned(r))
    BY <1>2, <2>1 DEF QuietInv, OnCourse, At
  <2>3. ~Twice(l.marks) => AllPlanned(r)'
    BY <1>3, <1>7, <2>2
  <2> QED BY <1>3, <1>4, <2>2, <2>3 DEF OnCourse, At
<1> QED BY <1>1, <1>2, <1>3, <1>5, <1>8, CourseMoves

(* The baselines of what was marked are the cells: the run has converged.  *)
LEMMA RecordPullConverges ==
    ASSUME TypeInv, NEW r \in Run, RecordPull(r), ~Twice(runs[r].marks),
           AllPlanned(r), runs[r].writes = <<>>
    PROVE  Converged(r)'
<1> DEFINE marks == runs[r].marks
<1>1. /\ runs[r] \in RunState /\ runs \in [Run -> RunState] /\ sheet \in Seq(Row)
  BY DEF TypeInv, TypeOK
<1>2. /\ UNCHANGED <<config, db, sheet, conflicts, verdicts>> /\ At(r, "recordPull")
      /\ runs' = [runs EXCEPT ![r] = [runs[r] EXCEPT !.marks = <<>>]]
      /\ records' = [u \in User |->
                    IF \E i \in DOMAIN marks : marks[i].user = u
                    THEN [known |-> TRUE,
                          baseline |-> marks[CHOOSE i \in DOMAIN marks : marks[i].user = u].value]
                    ELSE records[u]]
  BY DEF RecordPull, Set, table
<1>3. runs'[r].before = runs[r].before /\ runs'[r].due = runs[r].due
  BY <1>1, <1>2 DEF RunState
<1>4. ASSUME NEW u \in User, NEW cell, Marked(r, u, cell)
      PROVE  records'[u].baseline = cell
  <2>1. PICK n \in DOMAIN marks : marks[n] = [user |-> u, value |-> cell]
    BY <1>4 DEF Marked
  <2>2. marks[n].user = u /\ marks[n].value = cell
    BY <2>1
  <2>3. \A i \in DOMAIN marks : marks[i].user = u => i = n
    BY <2>2 DEF Twice
  <2> HIDE DEF marks
  <2>4. (CHOOSE i \in DOMAIN marks : marks[i].user = u) = n
    BY <2>2, <2>3
  <2> QED BY <1>2, <2>2, <2>4
<1>5. \A u \in User : ~Writing(r, u)
  BY EmptySeq DEF Writing
<1>6. SUFFICES ASSUME NEW u \in User, Live(u)
               PROVE  /\ RowsOf(u, sheet)' # {}
                      /\ LET cell == sheet[RowIndex(u, sheet)].value
                         IN  /\ Pushes(config.direction)' => PushConverged(r, u, cell)'
                             /\ config'.direction = "sheet_to_db" => PullConverged(r, u, cell)'
  BY <1>2 DEF Converged, Live
<1>7. PICK i \in DOMAIN sheet : Lowest(i, u, sheet) /\ Planned(r, u, sheet[i].value)
  BY <1>6 DEF AllPlanned
<1>8. RowIndex(u, sheet) = i /\ RowsOf(u, sheet) # {}
  BY <1>1, <1>7, LowestRow
<1> DEFINE cell == sheet[RowIndex(u, sheet)].value
<1>9. cell' = cell /\ RowsOf(u, sheet)' = RowsOf(u, sheet)
  BY <1>2 DEF RowsOf, RowIndex
<1>10. Planned(r, u, cell)
  BY <1>7, <1>8
<1> HIDE DEF cell
<1>11. ASSUME Pushes(config.direction) PROVE PushConverged(r, u, cell)'
  <2>1. /\ cell = db[u].value /\ runs[r].before[u] \in {None, db[u].value}
        /\ config.direction = "bidirectional" => records'[u].baseline = cell
    BY <1>4, <1>10, <1>11 DEF Planned, PlannedPush
  <2> QED BY <1>2, <1>3, <1>9, <2>1 DEF PushConverged
<1>12. ASSUME config.direction = "sheet_to_db" PROVE PullConverged(r, u, cell)'
  <2> DEFINE here == [user |-> u, value |-> cell]
  <2>1. PlannedPull(r, u, cell)
    BY <1>10, <1>12 DEF Planned
  <2>2. cell \in {db[u].value, records'[u].baseline} \/ Noted(u, cell)
    BY <1>2, <1>4, <1>5, <2>1 DEF PlannedPull
  <2>3. IF here \in runs[r].due THEN db[u].value = cell
        ELSE runs[r].before[u] \in {None, db[u].value}
    BY <1>5, <2>1 DEF PlannedPull
  <2>4. Free' = Free
    BY <1>2 DEF Free
  <2> QED BY <1>2, <1>3, <1>9, <2>2, <2>3, <2>4 DEF PullConverged, Noted
<1>13. /\ Pushes(config.direction)' = Pushes(config.direction)
       /\ PushConverged(r, u, cell)' = PushConverged(r, u, cell)'
  BY <1>2
<1> QED BY <1>2, <1>8, <1>9, <1>11, <1>12, <1>13 DEF cell

(* The baselines are recorded.                                             *)
LEMMA RecordPullCourse ==
    ASSUME TypeInv, QuietInv, NEW r \in Run, RecordPull(r)
    PROVE  QuietInv'
<1> DEFINE marks == runs[r].marks
           l == [runs[r] EXCEPT !.marks = <<>>]
           s == IF Twice(marks) THEN "failed" ELSE "success"
<1>1. /\ runs \in [Run -> RunState] /\ runs[r] \in RunState /\ step \in [Run -> RunStep] /\ TypeOK
  BY DEF TypeInv, TypeOK
<1>2. /\ Active(r) /\ step[r] = "recordPull" /\ Goto(r, s) /\ Set(r, l)
      /\ \/ UNCHANGED records
         \/ records' = [u \in User |->
                    IF \E i \in DOMAIN marks : marks[i].user = u
                    THEN [known |-> TRUE,
                          baseline |-> marks[CHOOSE i \in DOMAIN marks : marks[i].user = u].value]
                    ELSE records[u]]
  BY DEF RecordPull, At, Active
<1>3. /\ l.quiet = runs[r].quiet /\ l.aligned = runs[r].aligned /\ l.kind = runs[r].kind
      /\ l.configured = runs[r].configured
  BY <1>1 DEF RunState
<1>4. runs'[r] = l /\ step'[r] = s
  BY <1>1, <1>2 DEF Set, Goto
<1> HIDE DEF l
<1>5. BaselinesKnown'
  <2>1. \A u \in User : records'[u] = records[u] \/ records'[u].known
    <3> HIDE DEF marks
    <3> QED BY <1>2
  <2> QED BY <2>1 DEF QuietInv, BaselinesKnown
<1>6. ASSUME Watched(r)' PROVE OnCourse(r)'
  <2>1. Watched(r)
    BY <1>2, <1>3, <1>4, <1>6 DEF Watched, At
  <2>2. runs[r].writes = <<>> /\ (~Twice(marks) => AllPlanned(r))
    BY <1>2, <2>1 DEF QuietInv, OnCourse, At
  <2>3. s = "success" => Converged(r)'
    BY <2>2, RecordPullConverges
  <2> QED BY <1>4, <2>3 DEF OnCourse, At
<1> HIDE DEF s
<1> QED BY <1>1, <1>2, <1>3, <1>5, <1>6, CourseMoves

(* Whoever moves besides the run, it is not alone any more.                *)
LEMMA OthersCourse ==
    ASSUME TypeOK, QuietInv, (\E q \in Resolver : ResolverStep(q)) \/ Change
    PROVE  QuietInv'
<1>1. /\ runs \in [Run -> RunState] /\ records \in [User -> Record]
  BY DEF TypeOK
<1>2. Disturb
  BY DEF ResolverStep, TakeConflict, ApplyConflict, Acknowledge, MarkResolved, Change,
     EditCell, RemoveRow, ChangeUser, CreateUser, DeleteUser, UpdateConfig, Edit
<1>3. \A r \in Run : ~runs'[r].quiet
  BY <1>1, <1>2 DEF Disturb, RunState
<1>4. BaselinesKnown'
  <2>1. CASE UNCHANGED records
    BY <2>1 DEF QuietInv, BaselinesKnown
  <2>2. ASSUME NEW q \in Resolver, Acknowledge(q) PROVE BaselinesKnown'
    <3> DEFINE u == conflicts[resolutions[q].conflict].user
               v == conflicts[resolutions[q].conflict].value
    <3>1. UNCHANGED records \/ (records[u].known /\ records' = [records EXCEPT ![u].baseline = v])
      BY <2>2 DEF Acknowledge
    <3> HIDE DEF u, v
    <3> QED BY <1>1, <3>1 DEF QuietInv, BaselinesKnown, Record
  <2>3. UNCHANGED records \/ \E q \in Resolver : Acknowledge(q)
    BY DEF ResolverStep, TakeConflict, ApplyConflict, MarkResolved, Change,
       EditCell, RemoveRow, ChangeUser, CreateUser, DeleteUser, UpdateConfig, Edit
  <2> QED BY <2>1, <2>2, <2>3
<1> QED BY <1>3, <1>4 DEF QuietInv, Alone, Watched

(* No step of anybody takes an undisturbed run off its course.             *)
LEMMA QuietNext ==
    ASSUME TypeInv, QuietInv, [Next]_zohoVars
    PROVE  QuietInv'
<1>0. TypeOK
  BY DEF TypeInv
<1>1. ASSUME NEW r \in Run, RunStepOf(r) \/ Stop(r) PROVE QuietInv'
  BY <1>0, <1>1, AcquireCourse, PlainCourse, ReadUsersCourse, FlushCourse, RecordPushCourse,
     ReadRecordsCourse, WriteCellCourse, RecordConflictsCourse, RecordPullCourse DEF RunStepOf
<1>2. CASE (\E q \in Resolver : ResolverStep(q)) \/ Change
  BY <1>0, <1>2, OthersCourse
<1>3. CASE LockExpires \/ UNCHANGED zohoVars
  <2>1. UNCHANGED <<config, db, sheet, records, conflicts, verdicts, runs, step>>
    BY <1>3 DEF LockExpires, zohoVars, data, table
  <2>2. Alone' /\ BaselinesKnown'
    BY <2>1 DEF QuietInv, Alone, BaselinesKnown, Active
  <2>3. ASSUME NEW r \in Run PROVE Watched(r)' = Watched(r) /\ OnCourse(r)' = OnCourse(r)
    <3>1. Watched(r)' = Watched(r)
      BY <2>1 DEF Watched, At
    <3>2. /\ AsBegun(r)' = AsBegun(r) /\ Converged(r)' = Converged(r)
          /\ AllShown(db, sheet, config.direction)' = AllShown(db, sheet, config.direction)
          /\ OpsShow(runs[r].ops, db, sheet, config.direction)'
                = OpsShow(runs[r].ops, db, sheet, config.direction)
          /\ AllPlanned(r)' = AllPlanned(r)
      <4>1. AsBegun(r)' = AsBegun(r)
        BY <2>1 DEF AsBegun, ChangedInSheet, Live, HasRow
      <4>2. Converged(r)' = Converged(r)
        BY <2>1 DEF Converged, PushConverged, PullConverged, Live, RowsOf, RowIndex, Free
      <4>3. AllShown(db, sheet, config.direction)' = AllShown(db, sheet, config.direction)
        BY <2>1 DEF AllShown, Shown, Lowest
      <4>4. OpsShow(runs[r].ops, db, sheet, config.direction)'
                = OpsShow(runs[r].ops, db, sheet, config.direction)
        BY <2>1
      <4>5. AllPlanned(r)' = AllPlanned(r)
        BY <2>1 DEF AllPlanned, Live, Lowest, Planned, PlannedPush, PlannedPull, Writing,
           Marked, ToNote, Noted, Free, At
      <4> QED BY <4>1, <4>2, <4>3, <4>4, <4>5
    <3>3. (runs[r].users = [u \in User |-> IF Live(u) THEN db[u].value ELSE None])' =
          (runs[r].users = [u \in User |-> IF Live(u) THEN db[u].value ELSE None])
      BY <2>1 DEF Live
    <3> QED BY <2>1, <3>1, <3>2, <3>3 DEF OnCourse, At
  <2> QED BY <2>2, <2>3 DEF QuietInv
<1> QED BY <1>1, <1>2, <1>3 DEF Next

(* Nothing runs at first.                                                  *)
LEMMA InitQuiet == ASSUME Init PROVE QuietInv
BY DEF Init, QuietInv, Alone, BaselinesKnown, Watched, OnCourse, Active, At, NoRun

(* However many callers, users, rows and conflicts: a run in both          *)
(* directions that nothing came between, whose batches were aligned and    *)
(* whose job says that it worked leaves sheet, database and baselines as   *)
(* they ought to be.                                                       *)
THEOREM QuietRunsConverge == Spec => []QuietRunConverges
<1>1. Init => QuietInv
  BY InitQuiet
<1>2. TypeInv /\ QuietInv /\ [Next]_zohoVars => QuietInv'
  BY QuietNext
<1>3. QuietInv => QuietRunConverges
  BY DEF QuietInv, QuietRunConverges, SucceededAlone, Watched, OnCourse, At
<1> QED BY <1>1, <1>2, <1>3, TypesHold, PTL DEF Spec
=============================================================================
