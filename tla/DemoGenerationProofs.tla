------------------------- MODULE DemoGenerationProofs -------------------------
(***************************************************************************)
(* Proofs about DemoGeneration: as long as its lock has not run out on a   *)
(* job, whoever writes demo users has it, and the counts a job shows are   *)
(* true, for any number of jobs and users and with every fault of the      *)
(* model.  The counts are a sum over the jobs, which MapThenSumSet makes   *)
(* by recursion: what is said of it is shown by induction over the sets of *)
(* jobs, as the absence of a least counterexample (WFMin).                 *)
(***************************************************************************)
EXTENDS DemoGeneration, FiniteSetTheorems, WellFoundedInduction, TLAPS

(* All the proof needs to know of the background of a job is its step.     *)
WorkShape ==
    /\ work = [j \in Job |-> work[j]]
    /\ \A j \in Job : DOMAIN work[j] = {"step", "from", "inserted", "updated"}

LockInv ==
    /\ WorkShape
    /\ lapsed \in BOOLEAN
    /\ ~lapsed =>
         /\ \A j, k \in Job : Works(j) /\ Works(k) => j = k
         /\ (\E j \in Job : Works(j)) => lock

(* A step of one job, whatever it counts meanwhile.                        *)
Moves(j, s) ==
    /\ WorkShape'
    /\ work'[j].step = s
    /\ \A k \in Job \ {j} : work'[k] = work[k]

LEMMA GotoMoves ==
    ASSUME WorkShape, NEW j \in Job, NEW s, Goto(j, s)
    PROVE  Moves(j, s)
<1>1. work' = [k \in Job |-> IF k = j THEN [work[j] EXCEPT !.step = s] ELSE work[k]]
  BY DEF WorkShape, Goto
<1>2. DOMAIN [work[j] EXCEPT !.step = s] = {"step", "from", "inserted", "updated"}
  BY DEF WorkShape
<1>3. [work[j] EXCEPT !.step = s].step = s
  BY DEF WorkShape
<1> QED BY <1>1, <1>2, <1>3 DEF WorkShape, Moves

LEMMA UpsertMoves ==
    ASSUME WorkShape, NEW j \in Job, UpsertUsers(j)
    PROVE  Moves(j, "profiles")
<1> DEFINE w == [work[j] EXCEPT
                    !.step = "profiles",
                    !.inserted = @ + Cardinality(Batch(j) \ users),
                    !.updated = @ + Cardinality(Batch(j) \cap users)]
<1>1. w.step = "profiles" /\ DOMAIN w = {"step", "from", "inserted", "updated"}
  BY DEF WorkShape
<1>2. work' = [work EXCEPT ![j] = w]
  BY DEF WorkShape, UpsertUsers
<1> HIDE DEF w
<1> QED BY <1>1, <1>2 DEF WorkShape, Moves

LEMMA ProgressMoves ==
    ASSUME WorkShape, NEW j \in Job, RecordProgress(j)
    PROVE  Moves(j, "users") \/ Moves(j, "succeed")
<1> DEFINE s == IF work[j].from + BatchSize <= jobs[j].requested THEN "users" ELSE "succeed"
           w == [work[j] EXCEPT !.from = @ + BatchSize, !.step = s]
<1>1. w.step = s /\ DOMAIN w = {"step", "from", "inserted", "updated"}
  BY DEF WorkShape
<1>2. work' = [work EXCEPT ![j] = w]
  BY DEF WorkShape, RecordProgress
<1>3. s \in {"users", "succeed"}
  OBVIOUS
<1> HIDE DEF w, s
<1> QED BY <1>1, <1>2, <1>3 DEF WorkShape, Moves

-----------------------------------------------------------------------------
(* A job that writes already goes on: nobody else has come.                *)
LEMMA MoveKeeps ==
    ASSUME LockInv, NEW j \in Job, Works(j), NEW s, Moves(j, s), UNCHANGED <<lock, lapsed>>
    PROVE  LockInv'
<1>1. \A k \in Job : Works(k)' => Works(k)
  BY DEF Moves, Works
<1> QED BY <1>1 DEF LockInv, Moves

(* A job that does not write, and will not after the step.                 *)
LEMMA IdleMoveKeeps ==
    ASSUME LockInv, NEW j \in Job, NEW s, s \notin Working, Moves(j, s), UNCHANGED <<lock, lapsed>>
    PROVE  LockInv'
<1>1. \A k \in Job : Works(k)' => Works(k)
  BY DEF Moves, Works
<1> QED BY <1>1 DEF LockInv, Moves

(* What leaves work and lock alone.                                        *)
LEMMA StandKeeps ==
    ASSUME LockInv, UNCHANGED <<work, lock, lapsed>>
    PROVE  LockInv'
BY DEF LockInv, WorkShape, Works

LEMMA AcquireKeeps ==
    ASSUME LockInv, NEW j \in Job, AcquireLock(j)
    PROVE  LockInv'
<1>1. Moves(j, IF lock THEN "refuse" ELSE "start")
  BY GotoMoves DEF LockInv, AcquireLock
<1>2. lock' = TRUE /\ (lapsed' <=> lapsed /\ \E k \in Job : Works(k)) /\ lapsed' \in BOOLEAN
  BY DEF AcquireLock, LockInv
<1>3. ~Works(j)
  BY DEF AcquireLock, At, Works, Working, InTry
<1>4. CASE lock
  <2>1. \A k \in Job : Works(k)' => Works(k) /\ k # j
    BY <1>1, <1>4 DEF Moves, Works, Working, InTry
  <2>2. ~lapsed' => ~lapsed \/ \A k \in Job : ~Works(k)
    BY <1>2
  <2> QED BY <1>1, <1>2, <2>1, <2>2 DEF LockInv, Moves
<1>5. CASE ~lock
  <2>1. \A k \in Job : Works(k)' => Works(k) \/ k = j
    BY <1>1 DEF Moves, Works
  <2>2. ~lapsed' => \A k \in Job : ~Works(k)
    BY <1>2, <1>5 DEF LockInv
  <2> QED BY <1>1, <1>2, <2>1, <2>2 DEF LockInv, Moves
<1> QED BY <1>4, <1>5

(* Whoever releases the lock is the last who writes.                       *)
LEMMA ReleaseKeeps ==
    ASSUME LockInv, NEW j \in Job, ReleaseLock(j)
    PROVE  LockInv'
<1>1. Moves(j, "over") /\ lapsed' = lapsed
  BY GotoMoves DEF LockInv, ReleaseLock
<1>2. Works(j)
  BY DEF ReleaseLock, At, Works, Working
<1>3. \A k \in Job : Works(k)' => Works(k) /\ k # j
  BY <1>1 DEF Moves, Works, Working, InTry
<1>4. ~lapsed => \A k \in Job : ~Works(k)'
  BY <1>2, <1>3 DEF LockInv
<1> QED BY <1>1, <1>4 DEF LockInv, Moves

LEMMA JobKeeps ==
    ASSUME LockInv, NEW j \in Job, JobStep(j)
    PROVE  LockInv'
<1> USE DEF LockInv
<1>1. CASE AcquireLock(j)
  BY <1>1, AcquireKeeps
<1>2. CASE Refuse(j)
  BY <1>2, GotoMoves, IdleMoveKeeps DEF Refuse, Working, InTry
<1>3. CASE Run(j)
  BY <1>3, GotoMoves, MoveKeeps DEF Run, At, Works, Working, InTry
<1>4. CASE UpsertUsers(j)
  <2>1. Works(j) /\ UNCHANGED <<lock, lapsed>>
    BY <1>4 DEF UpsertUsers, At, Works, Working, InTry
  <2> QED BY <1>4, <2>1, UpsertMoves, MoveKeeps
<1>5. CASE UpsertProfiles(j)
  BY <1>5, GotoMoves, MoveKeeps DEF UpsertProfiles, At, Works, Working, InTry
<1>6. CASE UpsertEmployees(j)
  BY <1>6, GotoMoves, MoveKeeps DEF UpsertEmployees, At, Works, Working, InTry
<1>7. CASE GrantRole(j)
  BY <1>7, GotoMoves, MoveKeeps DEF GrantRole, At, Works, Working, InTry
<1>8. CASE RecordProgress(j)
  <2>1. Works(j) /\ UNCHANGED <<lock, lapsed>>
    BY <1>8 DEF RecordProgress, At, Works, Working, InTry
  <2> QED BY <1>8, <2>1, ProgressMoves, MoveKeeps
<1>9. CASE Succeed(j)
  BY <1>9, GotoMoves, MoveKeeps DEF Succeed, At, Works, Working, InTry
<1>10. CASE Fail(j)
  BY <1>10, GotoMoves, MoveKeeps DEF Fail, At, Works, Working
<1>11. CASE ReleaseLock(j)
  BY <1>11, ReleaseKeeps
<1> QED
  BY <1>1, <1>2, <1>3, <1>4, <1>5, <1>6, <1>7, <1>8, <1>9, <1>10, <1>11 DEF JobStep

(* Requests, polls and faults.                                             *)
LEMMA OthersKeep ==
    ASSUME LockInv,
           \/ \E j \in Job : Queue(j) \/ AnswerQueued(j) \/ Poll(j) \/ PollFails(j) \/ StatementFails(j)
           \/ LockExpires
           \/ Crash
    PROVE  LockInv'
<1>1. ASSUME NEW j \in Job, Queue(j) PROVE LockInv'
  <2>1. Goto(j, "lock") /\ UNCHANGED <<lock, lapsed>>
    BY <1>1 DEF Queue, Goto
  <2> QED BY <2>1, GotoMoves, IdleMoveKeeps DEF LockInv, Working, InTry
<1>2. ASSUME NEW j \in Job, AnswerQueued(j) \/ Poll(j) \/ PollFails(j) PROVE LockInv'
  BY <1>2, StandKeeps DEF AnswerQueued, Poll, PollFails
<1>3. ASSUME NEW j \in Job, StatementFails(j) PROVE LockInv'
  <2>1. UNCHANGED <<lock, lapsed>>
    BY <1>3 DEF StatementFails
  <2>2. PICK s \in {"fail", "release", "over"} :
            Goto(j, s) /\ (s = "over" \/ Works(j))
    BY <1>3 DEF StatementFails, At, Works, Working
  <2>3. Moves(j, s)
    BY <2>2, GotoMoves DEF LockInv
  <2> QED BY <2>1, <2>2, <2>3, MoveKeeps, IdleMoveKeeps DEF Working, InTry
<1>4. CASE LockExpires
  BY <1>4 DEF LockExpires, LockInv, WorkShape, Works
<1>5. CASE Crash
  <2>1. WorkShape'
    BY <1>5 DEF Crash, LockInv, WorkShape, Underway
  <2>2. \A k \in Job : Works(k)' => Works(k)
    BY <1>5 DEF Crash, LockInv, WorkShape, Underway, Works, Working, InTry
  <2> QED BY <1>5, <2>1, <2>2 DEF Crash, LockInv
<1> QED BY <1>1, <1>2, <1>3, <1>4, <1>5

-----------------------------------------------------------------------------
(* One job at a time writes demo users, unless the lock has run out on     *)
(* one: a job that finds the lock taken releases nothing, one that fails   *)
(* gives it up with its last statement, one that dies leaves it to its     *)
(* time to live (generateDemoUsers).                                       *)
THEOREM GenerationsExclude == Spec => []OneGenerationAtATime
<1>1. Init => LockInv
  <2> SUFFICES ASSUME Init PROVE LockInv
    OBVIOUS
  <2>1. WorkShape
    BY DEF Init, WorkShape
  <2>2. \A j \in Job : ~Works(j)
    BY DEF Init, Works, Working, InTry
  <2> QED BY <2>1, <2>2 DEF Init, LockInv
<1>2. LockInv /\ [Next]_vars => LockInv'
  <2> SUFFICES ASSUME LockInv, [Next]_vars PROVE LockInv'
    OBVIOUS
  <2>1. CASE UNCHANGED vars
    BY <2>1, StandKeeps DEF vars
  <2>2. CASE Next
    BY <2>2, JobKeeps, OthersKeep DEF Next, Progress
  <2> QED BY <2>1, <2>2
<1>3. LockInv => OneGenerationAtATime
  <2> SUFFICES ASSUME LockInv, ~lapsed
               PROVE  Cardinality({j \in Job : Works(j)}) <= 1
    BY DEF OneGenerationAtATime
  <2>1. CASE {j \in Job : Works(j)} = {}
    BY <2>1, FS_EmptySet
  <2>2. ASSUME NEW j \in Job, Works(j) PROVE Cardinality({k \in Job : Works(k)}) <= 1
    <3>1. {k \in Job : Works(k)} = {j}
      BY <2>2 DEF LockInv
    <3> QED BY <3>1, FS_Singleton
  <2> QED BY <2>1, <2>2
<1> QED BY <1>1, <1>2, <1>3, PTL DEF Spec

-----------------------------------------------------------------------------
(* Induction, and sums.                                                    *)

(* Induction over the naturals, as a statement about sets.                 *)
LEMMA NatSets ==
    ASSUME NEW S, 0 \in S, \A n \in S \cap Nat : n + 1 \in S
    PROVE  Nat \subseteq S
<1> DEFINE T == Nat \ S
<1> SUFFICES ASSUME T # {} PROVE FALSE
  OBVIOUS
<1>1. IsWellFoundedOn(OpToRel(<, Nat), Nat)
  BY Zenon, NatLessThanWellFounded
<1>2. T \subseteq Nat
  OBVIOUS
<1>3. PICK n \in T : \A m \in T : ~(<<m, n>> \in OpToRel(<, Nat))
  <2> HIDE DEF T
  <2> QED BY Zenon, <1>1, <1>2, WFMin
<1>4. \A m \in T : ~(m < n)
  BY <1>3 DEF OpToRel
<1>5. n # 0 /\ n - 1 \in Nat
  OBVIOUS
<1>6. n - 1 \in S
  BY <1>4, <1>5
<1> QED BY <1>5, <1>6

(* Induction over the subsets of a finite set: from each, the element that *)
(* a sum takes next is taken out.                                          *)
Pick(s) == CHOOSE x \in s : TRUE

(* An element of the set.                                                  *)
LEMMA PickIn == ASSUME NEW s, s # {} PROVE Pick(s) \in s
BY DEF Pick

(* What is left of a set when it is taken out.                             *)
LEMMA SubsetSmaller ==
    ASSUME NEW J, IsFiniteSet(J), NEW s \in SUBSET J, s # {}
    PROVE  /\ IsFiniteSet(s) /\ Cardinality(s) \in Nat
           /\ s \ {Pick(s)} \in SUBSET J
           /\ Cardinality(s \ {Pick(s)}) = Cardinality(s) - 1
<1>1. IsFiniteSet(s)
  BY FS_Subset
<1> HIDE DEF Pick
<1> QED BY <1>1, PickIn, FS_RemoveElement, FS_CardinalityType

(* Induction over the sets of a finite set's elements.                     *)
LEMMA SubsetSets ==
    ASSUME NEW J, IsFiniteSet(J), NEW P, {} \in P,
           \A s \in SUBSET J : s # {} /\ s \ {Pick(s)} \in P => s \in P
    PROVE  SUBSET J \subseteq P
<1> HIDE DEF Pick
<1> DEFINE S == {n \in Nat : \A s \in SUBSET J : Cardinality(s) = n => s \in P}
<1>0. \A s \in SUBSET J : IsFiniteSet(s) /\ Cardinality(s) \in Nat
  BY FS_Subset, FS_CardinalityType
<1>1. 0 \in S
  BY <1>0, FS_EmptySet
<1>2. ASSUME NEW n \in S \cap Nat PROVE n + 1 \in S
  <2> SUFFICES ASSUME NEW s \in SUBSET J, Cardinality(s) = n + 1 PROVE s \in P
    OBVIOUS
  <2>1. s # {}
    BY FS_EmptySet
  <2>2. /\ s \ {Pick(s)} \in SUBSET J
        /\ Cardinality(s \ {Pick(s)}) = Cardinality(s) - 1
    BY <2>1, SubsetSmaller
  <2>3. Cardinality(s \ {Pick(s)}) = n
    BY <2>2
  <2> QED BY <2>1, <2>2, <2>3
<1>3. Nat \subseteq S
  <2> HIDE DEF S
  <2> QED BY <1>1, <1>2, NatSets
<1> QED BY <1>0, <1>3

-----------------------------------------------------------------------------
(* Sums.  F is what MapThenSumSet makes of f: the sum of each set of jobs. *)
IsSum(F, f) ==
    F = [s \in SUBSET Job |-> IF s = {} THEN 0 ELSE f[Pick(s)] + F[s \ {Pick(s)}]]

SumAt(F, f, s) == IF s = {} THEN 0 ELSE f[Pick(s)] + F[s \ {Pick(s)}]

(* There is such a function, though it is defined by itself.               *)
LEMMA SumExists == ASSUME NEW f PROVE \E F : IsSum(F, f)
<1> HIDE DEF Pick
<1> DEFINE Upto(F, n) == \A s \in SUBSET Job : Cardinality(s) <= n => F[s] = SumAt(F, f, s)
           S == {n \in Nat : \E F : Upto(F, n)}
<1>0. \A s \in SUBSET Job : IsFiniteSet(s) /\ Cardinality(s) \in Nat
  BY FS_Subset, FS_CardinalityType, JobAssumption
<1>1. 0 \in S
  <2>1. Upto([s \in SUBSET Job |-> 0], 0)
    BY <1>0, FS_EmptySet DEF SumAt
  <2> QED BY <2>1
<1>2. ASSUME NEW n \in S \cap Nat PROVE n + 1 \in S
  <2>1. PICK F : Upto(F, n)
    OBVIOUS
  <2> DEFINE G == [s \in SUBSET Job |-> SumAt(F, f, s)]
  <2>2. \A s \in SUBSET Job : Cardinality(s) <= n => G[s] = F[s]
    BY <2>1
  <2>3. ASSUME NEW s \in SUBSET Job, Cardinality(s) <= n + 1
        PROVE  G[s] = SumAt(G, f, s)
    <3>1. CASE s = {}
      BY <3>1 DEF SumAt
    <3>2. CASE s # {}
      <4>1. s \ {Pick(s)} \in SUBSET Job /\ Cardinality(s \ {Pick(s)}) <= n
        BY <1>0, <2>3, <3>2, SubsetSmaller, JobAssumption
      <4>2. G[s \ {Pick(s)}] = F[s \ {Pick(s)}]
        BY <2>2, <4>1
      <4> QED BY <4>2 DEF SumAt
    <3> QED BY <3>1, <3>2
  <2>4. Upto(G, n + 1)
    BY <2>3
  <2>5. \E H : Upto(H, n + 1)
    <3> HIDE DEF Upto, G
    <3> QED BY <2>4
  <2> QED BY <2>5
<1>3. Cardinality(Job) \in Nat /\ Cardinality(Job) \in S
  <2>1. Nat \subseteq S
    <3> HIDE DEF S
    <3> QED BY <1>1, <1>2, NatSets
  <2> QED BY <2>1, FS_CardinalityType, JobAssumption
<1>4. PICK F : Upto(F, Cardinality(Job))
  BY <1>3
<1>5. \A s \in SUBSET Job : F[s] = SumAt(F, f, s)
  <2>1. \A s \in SUBSET Job : Cardinality(s) <= Cardinality(Job)
    BY FS_Subset, JobAssumption
  <2> QED BY <1>4, <2>1
<1> DEFINE G == [s \in SUBSET Job |-> F[s]]
<1>6. G = [s \in SUBSET Job |-> SumAt(G, f, s)]
  <2>1. \A s \in SUBSET Job : G[s] = SumAt(G, f, s)
    BY <1>5 DEF SumAt
  <2> QED BY <2>1
<1> QED BY <1>6 DEF IsSum, SumAt

(* The steps of a sum.                                                     *)
LEMMA SumSteps ==
    ASSUME NEW F, NEW f, IsSum(F, f)
    PROVE  /\ F[{}] = 0
           /\ \A s \in SUBSET Job : s # {} => F[s] = f[Pick(s)] + F[s \ {Pick(s)}]
<1> HIDE DEF Pick
<1> QED BY DEF IsSum

(* A sum of naturals is one.                                               *)
LEMMA SumType ==
    ASSUME NEW F, NEW f, f \in [Job -> Nat], IsSum(F, f)
    PROVE  \A s \in SUBSET Job : F[s] \in Nat
<1> HIDE DEF Pick
<1> DEFINE P == {s \in SUBSET Job : F[s] \in Nat}
<1>1. {} \in P
  BY SumSteps
<1>2. ASSUME NEW s \in SUBSET Job, s # {}, s \ {Pick(s)} \in P PROVE s \in P
  <2>1. F[s] = f[Pick(s)] + F[s \ {Pick(s)}]
    BY <1>2, SumSteps
  <2> QED BY <1>2, <2>1, PickIn
<1>3. SUBSET Job \subseteq P
  <2> HIDE DEF P
  <2> QED BY <1>1, <1>2, SubsetSets, JobAssumption
<1> QED BY <1>3

(* A sum of smaller numbers is smaller.                                    *)
LEMMA SumOfLess ==
    ASSUME NEW F, NEW f, f \in [Job -> Nat], IsSum(F, f),
           NEW G, NEW g, g \in [Job -> Nat], IsSum(G, g),
           \A j \in Job : f[j] <= g[j]
    PROVE  F[Job] <= G[Job]
<1> HIDE DEF Pick
<1> DEFINE P == {s \in SUBSET Job : F[s] <= G[s]}
<1>1. {} \in P
  BY SumSteps
<1>2. ASSUME NEW s \in SUBSET Job, s # {}, s \ {Pick(s)} \in P PROVE s \in P
  <2>1. /\ F[s] = f[Pick(s)] + F[s \ {Pick(s)}]
        /\ G[s] = g[Pick(s)] + G[s \ {Pick(s)}]
        /\ Pick(s) \in Job
    BY <1>2, SumSteps, PickIn
  <2>2. F[s \ {Pick(s)}] \in Nat /\ G[s \ {Pick(s)}] \in Nat
    BY <1>2, SumType
  <2> QED BY <1>2, <2>1, <2>2
<1>3. SUBSET Job \subseteq P
  <2> HIDE DEF P
  <2> QED BY <1>1, <1>2, SubsetSets, JobAssumption
<1> QED BY <1>3

(* A sum of numbers of which one has grown has grown by as much.           *)
LEMMA SumOfMore ==
    ASSUME NEW F, NEW f, f \in [Job -> Nat], IsSum(F, f),
           NEW G, NEW g, g \in [Job -> Nat], IsSum(G, g),
           NEW j \in Job, NEW d \in Nat, g[j] = f[j] + d,
           \A k \in Job \ {j} : g[k] = f[k]
    PROVE  G[Job] = F[Job] + d
<1> HIDE DEF Pick
<1> DEFINE P == {s \in SUBSET Job : G[s] = F[s] + (IF j \in s THEN d ELSE 0)}
<1>1. {} \in P
  BY SumSteps
<1>2. ASSUME NEW s \in SUBSET Job, s # {}, s \ {Pick(s)} \in P PROVE s \in P
  <2> DEFINE x == Pick(s)
             r == s \ {x}
  <2>1. x \in s /\ x \in Job /\ F[s] = f[x] + F[r] /\ G[s] = g[x] + G[r]
    <3>1. F[s] = f[x] + F[r]
      BY <1>2, SumSteps
    <3>2. G[s] = g[x] + G[r]
      BY <1>2, SumSteps
    <3> QED BY <1>2, <3>1, <3>2, PickIn
  <2>2. F[r] \in Nat /\ G[r] \in Nat /\ G[r] = F[r] + (IF j \in r THEN d ELSE 0)
    BY <1>2, SumType
  <2>3. CASE x = j
    BY <2>1, <2>2, <2>3
  <2>4. CASE x # j
    BY <2>1, <2>2, <2>4
  <2> QED BY <2>3, <2>4
<1>3. SUBSET Job \subseteq P
  <2> HIDE DEF P
  <2> QED BY <1>1, <1>2, SubsetSets, JobAssumption
<1> QED BY <1>3

(* A sum of nothing is nothing.                                            *)
LEMMA SumOfNone ==
    ASSUME NEW F, NEW f, IsSum(F, f), \A j \in Job : f[j] = 0
    PROVE  F[Job] = 0
<1> HIDE DEF Pick
<1> DEFINE P == {s \in SUBSET Job : F[s] = 0}
<1>1. {} \in P
  BY SumSteps
<1>2. ASSUME NEW s \in SUBSET Job, s # {}, s \ {Pick(s)} \in P PROVE s \in P
  <2>1. F[s] = f[Pick(s)] + F[s \ {Pick(s)}] /\ Pick(s) \in Job
    BY <1>2, SumSteps, PickIn
  <2> QED BY <1>2, <2>1
<1>3. SUBSET Job \subseteq P
  <2> HIDE DEF P
  <2> QED BY <1>1, <1>2, SubsetSets, JobAssumption
<1> QED BY <1>3

(* What MapThenSumSet makes of the rows' counts is such a sum.             *)
Shown == [j \in Job |-> jobs[j].inserted]

LEMMA ShownIsSum ==
    \E F : IsSum(F, Shown) /\ MapThenSumSet(LAMBDA j : jobs[j].inserted, Job) = F[Job]
<1> DEFINE Body(F) == [s \in SUBSET Job |->
                         IF s = {} THEN 0
                         ELSE LET x == CHOOSE x \in s : TRUE
                              IN  jobs[x].inserted + F[s \ {x}]]
           C == CHOOSE F : F = Body(F)
<1>1. MapThenSumSet(LAMBDA j : jobs[j].inserted, Job) = C[Job]
  BY DEF MapThenSumSet, MapThenFoldSet
<1>2. \A F : IsSum(F, Shown) <=> F = Body(F)
  <2> TAKE F
  <2>1. \A s \in SUBSET Job : s # {} => Shown[Pick(s)] = jobs[Pick(s)].inserted
    <3> HIDE DEF Pick
    <3> QED BY PickIn DEF Shown
  <2> DEFINE G == [s \in SUBSET Job |-> IF s = {} THEN 0 ELSE Shown[Pick(s)] + F[s \ {Pick(s)}]]
             H == [s \in SUBSET Job |-> IF s = {} THEN 0 ELSE jobs[Pick(s)].inserted + F[s \ {Pick(s)}]]
  <2>2. G = H
    <3> HIDE DEF Pick
    <3> QED BY <2>1
  <2>3. H = Body(F)
    BY DEF Pick
  <2> HIDE DEF Pick, Shown
  <2> QED BY <2>2, <2>3 DEF IsSum
<1>3. \E F : F = Body(F)
  <2> HIDE DEF Body
  <2> QED BY <1>2, SumExists
<1>4. C = Body(C)
  <2> HIDE DEF Body
  <2> QED BY <1>3
<1> HIDE DEF Body, C
<1> QED BY <1>1, <1>2, <1>4

(* The greatest number of users that may be asked for is one of Counts.    *)
LEMMA MaxOfCounts ==
    /\ Max(Counts) \in Counts /\ Max(Counts) \in Nat
    /\ \A n \in Counts : n \in Nat \ {0} /\ n <= Max(Counts)
<1> HIDE DEF Pick
<1> DEFINE P == {s \in SUBSET Counts : s # {} => \E m \in s : \A n \in s : m >= n}
<1>0. \A n \in Counts : n \in Nat \ {0}
  BY CountsAssumption
<1>1. {} \in P
  OBVIOUS
<1>2. ASSUME NEW s \in SUBSET Counts, s # {}, s \ {Pick(s)} \in P PROVE s \in P
  <2>1. Pick(s) \in s
    BY <1>2, PickIn
  <2>2. CASE s \ {Pick(s)} = {}
    <3>1. \A n \in s : n = Pick(s)
      BY <2>2
    <3> QED BY <1>0, <2>1, <3>1
  <2>3. CASE s \ {Pick(s)} # {}
    <3>1. PICK m \in s \ {Pick(s)} : \A n \in s \ {Pick(s)} : m >= n
      BY <1>2, <2>3
    <3>2. CASE m >= Pick(s)
      BY <3>1, <3>2
    <3>3. CASE ~(m >= Pick(s))
      <4>1. \A n \in s : Pick(s) >= n
        BY <1>0, <2>1, <3>1, <3>3
      <4> QED BY <2>1, <4>1
    <3> QED BY <3>2, <3>3
  <2> QED BY <2>2, <2>3
<1>3. Counts \in P
  <2>1. SUBSET Counts \subseteq P
    <3> HIDE DEF P
    <3> QED BY <1>1, <1>2, SubsetSets, CountsAssumption
  <2> QED BY <2>1
<1>4. \E m \in Counts : \A n \in Counts : m >= n
  BY <1>3, CountsAssumption
<1>5. Max(Counts) \in Counts /\ \A n \in Counts : Max(Counts) >= n
  BY <1>4 DEF Max
<1> QED BY <1>0, <1>5

-----------------------------------------------------------------------------
(* Counts.                                                                 *)

(* The users up to number n have all that belongs to them.                 *)
Belongs(n) ==
    /\ 1..n \subseteq profiles \cap employees
    /\ EmployeeRole => 1..n \subseteq grants

(* What a job that has written its last batch has to show.                 *)
Reached(j) ==
    /\ jobs[j].inserted + jobs[j].updated = jobs[j].requested
    /\ Belongs(jobs[j].requested)

Counted(j) == work[j].inserted + work[j].updated
InBatch(j) == work[j].step \in {"profiles", "employees", "grants", "progress"}

(* A job is asked for once, and has a number of users from then on.        *)
Requested(j) ==
    IF handlers[j] = "idle"
      THEN /\ jobs[j].status = "none" /\ jobs[j].requested = 0
           /\ work[j].step = "idle" /\ work[j].from = 1
      ELSE jobs[j].requested \in Counts /\ work[j].step # "idle"

(* It has counted the users before its batch, and in its batch these too.  *)
Counting(j) ==
    /\ work[j].from > 0
    /\ jobs[j].inserted <= work[j].inserted
    /\ jobs[j].updated <= work[j].updated
    /\ Counted(j) <= jobs[j].requested
    /\ work[j].step \in {"lock", "start"} => work[j].from = 1
    /\ work[j].step \in {"idle", "lock", "start", "users"} =>
         Counted(j) = work[j].from - 1
    /\ InBatch(j) => Counted(j) = BatchEnd(j)

(* The rows of these users are there, as far as its statements have come.  *)
Writing(j) ==
    /\ work[j].step = "users" \/ InBatch(j) =>
         work[j].from <= jobs[j].requested /\ Belongs(work[j].from - 1)
    /\ InBatch(j) => Batch(j) \subseteq users
    /\ InBatch(j) /\ work[j].step # "profiles" => Batch(j) \subseteq profiles
    /\ work[j].step \in {"grants", "progress"} => Batch(j) \subseteq employees
    /\ work[j].step = "progress" /\ EmployeeRole => Batch(j) \subseteq grants
    /\ work[j].step = "succeed" => Reached(j)
    /\ jobs[j].status = "success" =>
         Reached(j) /\ work[j].step \in {"release", "over"}

JobInv(j) == Requested(j) /\ Counting(j) /\ Writing(j)

(* Every user inserted is counted by the job that inserted it.             *)
Inserted == [j \in Job |-> work[j].inserted]

InsertedAdd ==
    /\ Present \subseteq users
    /\ \A F : IsSum(F, Inserted) => F[Job] = Cardinality(users \ Present)

CountInv == TypeOK /\ (\A j \in Job : JobInv(j)) /\ InsertedAdd

-----------------------------------------------------------------------------
(* The last of a batch is its BatchSize-th user, or the last asked for.    *)
LEMMA BatchEnds ==
    ASSUME TypeOK, NEW j \in Job
    PROVE  /\ BatchEnd(j) = IF work[j].from + BatchSize - 1 <= jobs[j].requested
                            THEN work[j].from + BatchSize - 1 ELSE jobs[j].requested
           /\ BatchEnd(j) \in Int
<1> DEFINE a == work[j].from + BatchSize - 1
           b == jobs[j].requested
<1>1. a \in Int /\ b \in Int
  BY BatchAssumption, MaxOfCounts DEF TypeOK
<1>2. Min({a, b}) = IF a <= b THEN a ELSE b
  <2> HIDE DEF a, b
  <2>1. (IF a <= b THEN a ELSE b) \in {a, b} /\ \A y \in {a, b} : (IF a <= b THEN a ELSE b) <= y
    BY <1>1
  <2>2. \A x \in {a, b} : (\A y \in {a, b} : x <= y) => x = IF a <= b THEN a ELSE b
    BY <1>1
  <2> QED BY <2>1, <2>2 DEF Min
<1> QED BY <1>1, <1>2 DEF BatchEnd

JobRow == [status : {"none", "queued", "running", "success", "failed"},
           requested : Counts \cup {0}, inserted : Number \cup {0},
           updated : Number \cup {0}]
WorkRow == [step : Step, from : Nat, inserted : Nat, updated : Nat]

(* What the statements do to the row and to the work of a job.             *)
LEMMA GotoFacts ==
    ASSUME TypeOK, NEW j \in Job, NEW s \in Step, Goto(j, s)
    PROVE  /\ work' \in [Job -> WorkRow]
           /\ \A k \in Job \ {j} : work'[k] = work[k]
           /\ work'[j].step = s
           /\ work'[j].from = work[j].from
           /\ work'[j].inserted = work[j].inserted
           /\ work'[j].updated = work[j].updated
BY DEF TypeOK, Goto, WorkRow

(* What a statement that sets the status does to the rows.                 *)
LEMMA StatusFacts ==
    ASSUME TypeOK, NEW j \in Job, NEW st \in {"running", "success", "failed"},
           jobs' = [jobs EXCEPT ![j].status = st]
    PROVE  /\ jobs' \in [Job -> JobRow]
           /\ \A k \in Job \ {j} : jobs'[k] = jobs[k]
           /\ jobs'[j].status = st
           /\ jobs'[j].requested = jobs[j].requested
           /\ jobs'[j].inserted = jobs[j].inserted
           /\ jobs'[j].updated = jobs[j].updated
<1>1. jobs \in [Job -> JobRow]
  BY DEF TypeOK, JobRow
<1>2. st \in {"none", "queued", "running", "success", "failed"}
  OBVIOUS
<1> QED BY <1>1, <1>2 DEF JobRow

(* What the upsert of users does to the work of the job.                   *)
LEMMA UpsertFacts ==
    ASSUME TypeOK, NEW j \in Job, UpsertUsers(j)
    PROVE  /\ \A k \in Job \ {j} : work'[k] = work[k]
           /\ work'[j].step = "profiles"
           /\ work'[j].from = work[j].from
           /\ work'[j].inserted = work[j].inserted + Cardinality(Batch(j) \ users)
           /\ work'[j].updated = work[j].updated + Cardinality(Batch(j) \cap users)
           /\ IsFiniteSet(Batch(j) \ users) /\ IsFiniteSet(Batch(j) \cap users)
           /\ work' \in [Job -> WorkRow]
<1> DEFINE m == Cardinality(Batch(j) \ users)
           n == Cardinality(Batch(j) \cap users)
           w == [work[j] EXCEPT !.step = "profiles", !.inserted = @ + m, !.updated = @ + n]
<1>1. work' = [work EXCEPT ![j] = w]
  BY DEF UpsertUsers, TypeOK
<1>2. m \in Nat /\ n \in Nat /\ IsFiniteSet(Batch(j) \ users) /\ IsFiniteSet(Batch(j) \cap users)
  <2>1. IsFiniteSet(Batch(j))
    <3>1. work[j].from \in Int /\ BatchEnd(j) \in Int
      BY BatchEnds DEF TypeOK
    <3> QED BY <3>1, FS_Interval DEF Batch
  <2>2. Batch(j) \ users \in SUBSET Batch(j) /\ Batch(j) \cap users \in SUBSET Batch(j)
    OBVIOUS
  <2> QED BY <2>1, <2>2, FS_Subset, FS_CardinalityType
<1>3. /\ w \in WorkRow
      /\ w.step = "profiles" /\ w.from = work[j].from
      /\ w.inserted = work[j].inserted + m /\ w.updated = work[j].updated + n
  <2>1. "profiles" \in Step
    BY DEF Step, Working, InTry
  <2>2. work[j] \in WorkRow
    BY DEF TypeOK, WorkRow
  <2>3. m \in Nat /\ n \in Nat
    BY <1>2
  <2> HIDE DEF m, n
  <2>4. work[j].inserted + m \in Nat /\ work[j].updated + n \in Nat
    BY <2>2, <2>3 DEF WorkRow
  <2> QED BY <2>1, <2>2, <2>4 DEF WorkRow
<1> HIDE DEF w
<1> QED BY <1>1, <1>2, <1>3 DEF TypeOK, WorkRow

(* What the record of progress does to row and work.                       *)
LEMMA ProgressFacts ==
    ASSUME TypeOK, NEW j \in Job, JobInv(j), RecordProgress(j)
    PROVE  /\ \A k \in Job \ {j} : work'[k] = work[k] /\ jobs'[k] = jobs[k]
           /\ work' \in [Job -> WorkRow] /\ jobs' \in [Job -> JobRow]
           /\ work'[j].step = IF work[j].from + BatchSize <= jobs[j].requested
                              THEN "users" ELSE "succeed"
           /\ work'[j].from = work[j].from + BatchSize
           /\ work'[j].inserted = work[j].inserted
           /\ work'[j].updated = work[j].updated
           /\ jobs'[j].status = jobs[j].status
           /\ jobs'[j].requested = jobs[j].requested
           /\ jobs'[j].inserted = work[j].inserted
           /\ jobs'[j].updated = work[j].updated
<1> DEFINE s == IF work[j].from + BatchSize <= jobs[j].requested THEN "users" ELSE "succeed"
           w == [work[j] EXCEPT !.from = @ + BatchSize, !.step = s]
           r == [jobs[j] EXCEPT !.inserted = work[j].inserted, !.updated = work[j].updated]
<1>0. jobs \in [Job -> JobRow] /\ work \in [Job -> WorkRow]
  BY DEF TypeOK, JobRow, WorkRow
<1>1. work' = [work EXCEPT ![j] = w] /\ jobs' = [jobs EXCEPT ![j] = r]
  BY DEF RecordProgress, TypeOK
<1>2. /\ w \in WorkRow /\ w.step = s /\ w.from = work[j].from + BatchSize
      /\ w.inserted = work[j].inserted /\ w.updated = work[j].updated
  <2>1. s \in Step
    BY DEF Step, Working, InTry
  <2>2. work[j] \in WorkRow /\ work[j].from + BatchSize \in Nat
    BY <1>0, BatchAssumption DEF WorkRow
  <2> HIDE DEF s
  <2> QED BY <2>1, <2>2 DEF WorkRow
<1>3. work[j].inserted \in Number \cup {0} /\ work[j].updated \in Number \cup {0}
  <2>1. work[j].inserted \in Nat /\ work[j].updated \in Nat /\ jobs[j].requested \in Counts \cup {0}
    BY <1>0 DEF JobRow, WorkRow
  <2>2. Counted(j) <= jobs[j].requested
    BY DEF JobInv, Counting
  <2>3. work[j].inserted <= Max(Counts) /\ work[j].updated <= Max(Counts)
    BY <2>1, <2>2, MaxOfCounts DEF Counted
  <2> QED BY <2>1, <2>3, MaxOfCounts DEF Number
<1>4. /\ r \in JobRow /\ r.status = jobs[j].status /\ r.requested = jobs[j].requested
      /\ r.inserted = work[j].inserted /\ r.updated = work[j].updated
  BY <1>0, <1>3 DEF JobRow
<1> HIDE DEF w, r
<1> QED BY <1>0, <1>1, <1>2, <1>4

(* What the request does to row and work.                                  *)
LEMMA QueueFacts ==
    ASSUME TypeOK, NEW j \in Job, Queue(j)
    PROVE  /\ \A k \in Job \ {j} : work'[k] = work[k] /\ jobs'[k] = jobs[k] /\ handlers'[k] = handlers[k]
           /\ handlers[j] = "idle" /\ handlers'[j] = "audit"
           /\ work' \in [Job -> WorkRow] /\ jobs' \in [Job -> JobRow]
           /\ work'[j].step = "lock"
           /\ work'[j].from = work[j].from
           /\ work'[j].inserted = work[j].inserted
           /\ work'[j].updated = work[j].updated
           /\ jobs'[j].status = "queued"
           /\ jobs'[j].requested \in Counts
           /\ jobs'[j].inserted = jobs[j].inserted
           /\ jobs'[j].updated = jobs[j].updated
<1>0. jobs \in [Job -> JobRow] /\ work \in [Job -> WorkRow]
  BY DEF TypeOK, JobRow, WorkRow
<1>1. PICK n \in Counts : jobs' = [jobs EXCEPT ![j].status = "queued", ![j].requested = n]
  BY DEF Queue
<1>2. /\ jobs' \in [Job -> JobRow]
      /\ \A k \in Job \ {j} : jobs'[k] = jobs[k]
      /\ jobs'[j].status = "queued"
      /\ jobs'[j].requested = n
      /\ jobs'[j].inserted = jobs[j].inserted
      /\ jobs'[j].updated = jobs[j].updated
  BY <1>0, <1>1 DEF JobRow
<1>3. Goto(j, "lock") /\ "lock" \in Step
  BY DEF Queue, Goto, Step
<1>4. /\ handlers[j] = "idle" /\ handlers'[j] = "audit"
      /\ \A k \in Job \ {j} : handlers'[k] = handlers[k]
  BY DEF Queue, TypeOK
<1> QED BY <1>2, <1>3, <1>4, GotoFacts

RowsGrow ==
    /\ users \subseteq users' /\ profiles \subseteq profiles'
    /\ employees \subseteq employees' /\ grants \subseteq grants'

(* What a job has counted stays, and what belongs to the users is not      *)
(* taken away.                                                             *)
SameNumbers(j) ==
    /\ work'[j].from = work[j].from
    /\ work'[j].inserted = work[j].inserted /\ work'[j].updated = work[j].updated
    /\ jobs'[j].requested = jobs[j].requested
    /\ jobs'[j].inserted = jobs[j].inserted /\ jobs'[j].updated = jobs[j].updated

(* What follows from the same numbers.                                     *)
LEMMA SameFacts ==
    ASSUME NEW j \in Job, SameNumbers(j), RowsGrow
    PROVE  /\ BatchEnd(j)' = BatchEnd(j) /\ Batch(j)' = Batch(j)
           /\ Counted(j)' = Counted(j)
           /\ Belongs(work[j].from - 1) => Belongs(work[j].from - 1)'
           /\ Reached(j) => Reached(j)'
<1>1. BatchEnd(j)' = BatchEnd(j)
  BY DEF SameNumbers, BatchEnd
<1>2. Batch(j)' = Batch(j) /\ Counted(j)' = Counted(j)
  BY <1>1 DEF SameNumbers, Batch, Counted
<1>3. Belongs(work[j].from - 1) => Belongs(work[j].from - 1)'
  BY DEF SameNumbers, RowsGrow, Belongs
<1>4. Reached(j) => Reached(j)'
  BY DEF SameNumbers, RowsGrow, Belongs, Reached
<1> QED BY <1>1, <1>2, <1>3, <1>4

(* A job that another one's step does not touch.                           *)
LEMMA OtherJobKept ==
    ASSUME NEW k \in Job, JobInv(k), RowsGrow,
           jobs'[k] = jobs[k], work'[k] = work[k],
           (handlers'[k] = "idle") <=> (handlers[k] = "idle")
    PROVE  JobInv(k)'
<1>1. SameNumbers(k)
  BY DEF SameNumbers
<1>2. Requested(k)'
  BY DEF JobInv, Requested
<1>3. Counting(k)'
  BY <1>1, SameFacts DEF JobInv, Counting, InBatch
<1>4. Writing(k)'
  BY <1>1, SameFacts DEF JobInv, Writing, InBatch, RowsGrow
<1> QED BY <1>2, <1>3, <1>4 DEF JobInv

(* A statement that counts nothing: what it does to the job's own row and  *)
(* work, whatever the rows of users are.                                   *)
LEMMA StatementFacts ==
    ASSUME TypeOK, NEW j \in Job, NEW s \in Step, Goto(j, s),
           \/ jobs' = jobs
           \/ \E st \in {"running", "success", "failed"} : jobs' = [jobs EXCEPT ![j].status = st]
    PROVE  /\ SameNumbers(j) /\ work'[j].step = s
           /\ work' \in [Job -> WorkRow] /\ jobs' \in [Job -> JobRow]
           /\ \A k \in Job \ {j} : work'[k] = work[k] /\ jobs'[k] = jobs[k]
<1>1. CASE jobs' = jobs
  <2>1. jobs \in [Job -> JobRow]
    BY DEF TypeOK, JobRow
  <2> QED BY <1>1, <2>1, GotoFacts DEF SameNumbers
<1>2. ASSUME NEW st \in {"running", "success", "failed"},
             jobs' = [jobs EXCEPT ![j].status = st]
      PROVE  /\ SameNumbers(j) /\ work'[j].step = s
             /\ work' \in [Job -> WorkRow] /\ jobs' \in [Job -> JobRow]
             /\ \A k \in Job \ {j} : work'[k] = work[k] /\ jobs'[k] = jobs[k]
  <2>1. /\ jobs' \in [Job -> JobRow]
        /\ \A k \in Job \ {j} : jobs'[k] = jobs[k]
        /\ jobs'[j].requested = jobs[j].requested
        /\ jobs'[j].inserted = jobs[j].inserted
        /\ jobs'[j].updated = jobs[j].updated
    BY <1>2, StatusFacts
  <2> QED BY <2>1, GotoFacts DEF SameNumbers
<1> QED BY <1>1, <1>2

(* What follows for the job: it goes from a step that is not "idle" to one *)
(* that is not, before its batches or after them, or within a batch.       *)
LEMMA StatementKeeps ==
    ASSUME TypeOK, NEW j \in Job, JobInv(j), NEW s \in Step \ {"idle"}, work[j].step # "idle",
           SameNumbers(j), work'[j].step = s, RowsGrow,
           handlers'[j] = "idle" <=> handlers[j] = "idle",
           s \in {"lock", "start"} => work[j].from = 1,
           s \in {"lock", "start", "users"} => Counted(j) = work[j].from - 1,
           s \in {"profiles", "employees", "grants", "progress"} => InBatch(j),
           s = "users" => work[j].from <= jobs[j].requested /\ Belongs(work[j].from - 1),
           s \in {"employees", "grants", "progress"} => Batch(j) \subseteq profiles',
           s \in {"grants", "progress"} => Batch(j) \subseteq employees',
           s = "progress" /\ EmployeeRole => Batch(j) \subseteq grants',
           s = "succeed" => Reached(j),
           jobs'[j].status = "success" => Reached(j) /\ s \in {"release", "over"}
    PROVE  JobInv(j)'
<1>1. Requested(j)'
  BY DEF JobInv, Requested, SameNumbers
<1>2. Counting(j)'
  <2>1. /\ work'[j].from > 0
        /\ jobs'[j].inserted <= work'[j].inserted
        /\ jobs'[j].updated <= work'[j].updated
        /\ Counted(j)' <= jobs'[j].requested
    BY SameFacts DEF JobInv, Counting, SameNumbers
  <2>2. s \in {"lock", "start"} => work'[j].from = 1
    BY DEF SameNumbers
  <2>3. s \in {"lock", "start", "users"} => Counted(j)' = work'[j].from - 1
    BY SameFacts DEF SameNumbers
  <2>4. InBatch(j)' => Counted(j)' = BatchEnd(j)'
    BY SameFacts DEF InBatch, JobInv, Counting
  <2> QED BY <2>1, <2>2, <2>3, <2>4 DEF Counting
<1>3. Writing(j)'
  <2>1. s = "users" \/ InBatch(j)' =>
          work'[j].from <= jobs'[j].requested /\ Belongs(work[j].from - 1)'
    BY SameFacts DEF SameNumbers, InBatch, JobInv, Writing
  <2>3. InBatch(j)' => Batch(j)' \subseteq users'
    BY SameFacts DEF InBatch, JobInv, Writing, RowsGrow
  <2>4. /\ InBatch(j)' /\ s # "profiles" => Batch(j)' \subseteq profiles'
        /\ s \in {"grants", "progress"} => Batch(j)' \subseteq employees'
        /\ s = "progress" /\ EmployeeRole => Batch(j)' \subseteq grants'
    BY SameFacts DEF InBatch
  <2>5. /\ s = "succeed" => Reached(j)'
        /\ jobs'[j].status = "success" => Reached(j)' /\ s \in {"release", "over"}
    BY SameFacts
  <2> QED BY <2>1, <2>3, <2>4, <2>5 DEF Writing
<1> QED BY <1>1, <1>2, <1>3 DEF JobInv

(* A statement of a job that counts nothing.                               *)
LEMMA QuietStatement ==
    ASSUME TypeOK, NEW j \in Job, JobInv(j),
           \/ AcquireLock(j) \/ Refuse(j) \/ Run(j) \/ UpsertProfiles(j) \/ UpsertEmployees(j)
           \/ GrantRole(j) \/ Succeed(j) \/ Fail(j) \/ ReleaseLock(j)
    PROVE  /\ JobInv(j)' /\ SameNumbers(j)
           /\ work' \in [Job -> WorkRow] /\ jobs' \in [Job -> JobRow]
           /\ \A k \in Job \ {j} : work'[k] = work[k] /\ jobs'[k] = jobs[k]
<1> DEFINE Goal == /\ JobInv(j)' /\ SameNumbers(j)
                   /\ work' \in [Job -> WorkRow] /\ jobs' \in [Job -> JobRow]
                   /\ \A k \in Job \ {j} : work'[k] = work[k] /\ jobs'[k] = jobs[k]
<1>s. handlers' = handlers /\ RowsGrow
  BY DEF AcquireLock, Refuse, Run, UpsertProfiles, UpsertEmployees, GrantRole, Succeed,
         Fail, ReleaseLock, UnchangedRequest, rows, RowsGrow
<1>n. {"start", "refuse", "over", "users", "employees", "grants", "progress", "release"}
        \subseteq Step
  BY DEF Step, Working, InTry
<1>j. /\ Counting(j) /\ Writing(j)
      /\ jobs[j].status = "success" => work[j].step \in {"release", "over"}
      /\ jobs[j].status = "success" => Reached(j)
  BY DEF JobInv, Writing
<1>1. CASE AcquireLock(j)
  <2>1. PICK s \in {"refuse", "start"} : Goto(j, s) /\ jobs' = jobs /\ work[j].step = "lock"
    BY <1>1 DEF AcquireLock, At
  <2>2. SameNumbers(j) /\ work'[j].step = s
    BY <1>n, <2>1, StatementFacts
  <2>3. JobInv(j)'
    BY <1>s, <1>n, <1>j, <2>1, <2>2, StatementKeeps DEF Counting
  <2> QED BY <1>n, <2>1, <2>3, StatementFacts
<1>2. CASE Refuse(j)
  <2>1. Goto(j, "over") /\ work[j].step = "refuse" /\ jobs' = [jobs EXCEPT ![j].status = "failed"]
    BY <1>2 DEF Refuse, At
  <2>2. SameNumbers(j) /\ work'[j].step = "over"
    BY <1>n, <2>1, StatementFacts
  <2>3. jobs'[j].status = "failed"
    BY <2>1, StatusFacts
  <2>4. JobInv(j)'
    BY <1>s, <1>n, <1>j, <2>1, <2>2, <2>3, StatementKeeps
  <2> QED BY <1>n, <2>1, <2>2, <2>4, StatementFacts
<1>3. CASE Run(j)
  <2>1. Goto(j, "users") /\ work[j].step = "start" /\ jobs' = [jobs EXCEPT ![j].status = "running"]
    BY <1>3 DEF Run, At
  <2>2. SameNumbers(j) /\ work'[j].step = "users"
    BY <1>n, <2>1, StatementFacts
  <2>3. jobs'[j].status = "running"
    BY <2>1, StatusFacts
  <2>4. /\ work[j].from = 1 /\ Counted(j) = work[j].from - 1
        /\ jobs[j].requested \in Counts
    BY <1>j, <2>1 DEF Counting, JobInv, Requested
  <2>5. work[j].from <= jobs[j].requested /\ Belongs(work[j].from - 1)
    BY <2>4, MaxOfCounts DEF Belongs
  <2>6. JobInv(j)'
    BY <1>s, <1>n, <1>j, <2>1, <2>2, <2>3, <2>4, <2>5, StatementKeeps
  <2> QED BY <1>n, <2>1, <2>2, <2>6, StatementFacts
<1>4. CASE UpsertProfiles(j)
  <2>1. /\ Goto(j, "employees") /\ work[j].step = "profiles" /\ jobs' = jobs
        /\ Batch(j) \subseteq profiles'
    BY <1>4 DEF UpsertProfiles, At
  <2>2. SameNumbers(j) /\ work'[j].step = "employees"
    BY <1>n, <2>1, StatementFacts
  <2>3. JobInv(j)'
    BY <1>s, <1>n, <1>j, <2>1, <2>2, StatementKeeps DEF InBatch
  <2> QED BY <1>n, <2>1, <2>2, <2>3, StatementFacts
<1>5. CASE UpsertEmployees(j)
  <2>1. PICK s \in {"grants", "progress"} :
          /\ Goto(j, s) /\ work[j].step = "employees" /\ jobs' = jobs
          /\ Batch(j) \subseteq employees' /\ (EmployeeRole => s = "grants")
          /\ profiles' = profiles
    BY <1>5 DEF UpsertEmployees, At
  <2>2. SameNumbers(j) /\ work'[j].step = s
    BY <1>n, <2>1, StatementFacts
  <2>3. InBatch(j) /\ Batch(j) \subseteq profiles
    BY <1>j, <2>1 DEF Writing, InBatch
  <2>4. JobInv(j)'
    BY <1>s, <1>n, <1>j, <2>1, <2>2, <2>3, StatementKeeps
  <2> QED BY <1>n, <2>1, <2>2, <2>4, StatementFacts
<1>6. CASE GrantRole(j)
  <2>1. /\ Goto(j, "progress") /\ work[j].step = "grants" /\ jobs' = jobs
        /\ Batch(j) \subseteq grants' /\ profiles' = profiles /\ employees' = employees
    BY <1>6 DEF GrantRole, At
  <2>2. SameNumbers(j) /\ work'[j].step = "progress"
    BY <1>n, <2>1, StatementFacts
  <2>3. InBatch(j) /\ Batch(j) \subseteq profiles /\ Batch(j) \subseteq employees
    BY <1>j, <2>1 DEF Writing, InBatch
  <2>4. JobInv(j)'
    BY <1>s, <1>n, <1>j, <2>1, <2>2, <2>3, StatementKeeps
  <2> QED BY <1>n, <2>1, <2>2, <2>4, StatementFacts
<1>7. CASE Succeed(j)
  <2>1. Goto(j, "release") /\ work[j].step = "succeed" /\ jobs' = [jobs EXCEPT ![j].status = "success"]
    BY <1>7 DEF Succeed, At
  <2>2. SameNumbers(j) /\ work'[j].step = "release"
    BY <1>n, <2>1, StatementFacts
  <2>3. Reached(j)
    BY <1>j, <2>1 DEF Writing
  <2>4. JobInv(j)'
    BY <1>s, <1>n, <2>1, <2>2, <2>3, StatementKeeps
  <2> QED BY <1>n, <2>1, <2>2, <2>4, StatementFacts
<1>8. CASE Fail(j)
  <2>1. Goto(j, "release") /\ work[j].step = "fail" /\ jobs' = [jobs EXCEPT ![j].status = "failed"]
    BY <1>8 DEF Fail, At
  <2>2. SameNumbers(j) /\ work'[j].step = "release"
    BY <1>n, <2>1, StatementFacts
  <2>3. jobs'[j].status = "failed"
    BY <2>1, StatusFacts
  <2>4. JobInv(j)'
    BY <1>s, <1>n, <2>1, <2>2, <2>3, StatementKeeps
  <2> QED BY <1>n, <2>1, <2>2, <2>4, StatementFacts
<1>9. CASE ReleaseLock(j)
  <2>1. Goto(j, "over") /\ work[j].step = "release" /\ jobs' = jobs
    BY <1>9 DEF ReleaseLock, At
  <2>2. SameNumbers(j) /\ work'[j].step = "over"
    BY <1>n, <2>1, StatementFacts
  <2>3. JobInv(j)'
    BY <1>s, <1>n, <1>j, <2>1, <2>2, StatementKeeps
  <2> QED BY <1>n, <2>1, <2>2, <2>3, StatementFacts
<1> QED BY <1>1, <1>2, <1>3, <1>4, <1>5, <1>6, <1>7, <1>8, <1>9

(* The users of a batch are counted once, inserted or updated.             *)
LEMMA UpsertKeeps ==
    ASSUME TypeOK, NEW j \in Job, JobInv(j), UpsertUsers(j)
    PROVE  JobInv(j)'
<1>0. /\ work[j].step = "users" /\ users' = users \cup Batch(j)
      /\ UNCHANGED <<jobs, handlers, profiles, employees, grants>>
  BY DEF UpsertUsers, At, UnchangedRequest
<1>1. /\ work'[j].step = "profiles" /\ work'[j].from = work[j].from
      /\ work'[j].inserted = work[j].inserted + Cardinality(Batch(j) \ users)
      /\ work'[j].updated = work[j].updated + Cardinality(Batch(j) \cap users)
      /\ IsFiniteSet(Batch(j) \ users) /\ IsFiniteSet(Batch(j) \cap users)
  BY UpsertFacts
<1>2. /\ Counting(j) /\ Writing(j) /\ jobs[j].requested \in Counts
      /\ work[j].from <= jobs[j].requested /\ Belongs(work[j].from - 1)
      /\ Counted(j) = work[j].from - 1
  BY <1>0 DEF JobInv, Counting, Writing, Requested
<1>3. /\ work[j].from \in Nat /\ work[j].inserted \in Nat /\ work[j].updated \in Nat
      /\ jobs[j].inserted \in Nat /\ jobs[j].updated \in Nat
      /\ jobs[j].requested \in Nat
  BY <1>2, MaxOfCounts DEF TypeOK, Number
<1>4. /\ BatchEnd(j) \in Int /\ work[j].from <= BatchEnd(j) /\ BatchEnd(j) <= jobs[j].requested
  BY <1>2, <1>3, BatchEnds, BatchAssumption
<1>5. Cardinality(Batch(j)) = BatchEnd(j) - work[j].from + 1 /\ IsFiniteSet(Batch(j))
  <2>1. work[j].from \in Int /\ ~(work[j].from > BatchEnd(j))
    BY <1>3, <1>4
  <2> QED BY <1>4, <2>1, FS_Interval DEF Batch
<1>6. /\ Cardinality(Batch(j) \ users) = Cardinality(Batch(j)) - Cardinality(Batch(j) \cap users)
      /\ Cardinality(Batch(j) \ users) \in Nat /\ Cardinality(Batch(j) \cap users) \in Nat
  <2>1. Cardinality(Batch(j) \ users) = Cardinality(Batch(j)) - Cardinality(Batch(j) \cap users)
    BY <1>5, FS_Difference
  <2> QED BY <1>1, <2>1, FS_CardinalityType
<1>7. work'[j].inserted + work'[j].updated = BatchEnd(j)
  <2> DEFINE m == Cardinality(Batch(j) \ users)
             n == Cardinality(Batch(j) \cap users)
             b == Cardinality(Batch(j))
  <2>1. m = b - n /\ m \in Nat /\ n \in Nat /\ b = BatchEnd(j) - work[j].from + 1
    BY <1>5, <1>6
  <2>2. work'[j].inserted = work[j].inserted + m /\ work'[j].updated = work[j].updated + n
    BY <1>1
  <2> HIDE DEF m, n, b
  <2> QED BY <1>2, <1>3, <1>4, <2>1, <2>2 DEF Counted
<1>8. BatchEnd(j)' = BatchEnd(j) /\ Batch(j)' = Batch(j)
  <2>1. BatchEnd(j)' = BatchEnd(j)
    BY <1>0, <1>1 DEF BatchEnd
  <2> QED BY <1>1, <2>1 DEF Batch
<1>9. Requested(j)'
  BY <1>0, <1>1, <1>2 DEF JobInv, Requested
<1>10. Counting(j)'
  <2>1. work'[j].inserted >= work[j].inserted /\ work'[j].updated >= work[j].updated
    <3> DEFINE m == Cardinality(Batch(j) \ users)
               n == Cardinality(Batch(j) \cap users)
    <3>1. /\ m \in Nat /\ n \in Nat
          /\ work'[j].inserted = work[j].inserted + m /\ work'[j].updated = work[j].updated + n
      BY <1>1, <1>6
    <3> HIDE DEF m, n
    <3> QED BY <1>3, <3>1
  <2>2. work'[j].inserted \in Int /\ work'[j].updated \in Int
    <3>1. work' \in [Job -> WorkRow]
      BY UpsertFacts
    <3> QED BY <3>1 DEF WorkRow
  <2>3. /\ jobs'[j].inserted <= work'[j].inserted
        /\ jobs'[j].updated <= work'[j].updated
    BY <1>0, <1>2, <1>3, <2>1, <2>2 DEF Counting
  <2>4. Counted(j)' = BatchEnd(j)' /\ Counted(j)' <= jobs'[j].requested /\ work'[j].from > 0
    BY <1>0, <1>1, <1>2, <1>4, <1>7, <1>8 DEF Counted, Counting
  <2> QED BY <1>1, <2>3, <2>4 DEF Counting, InBatch
<1>11. Writing(j)'
  <2>1. Belongs(work[j].from - 1)'
    BY <1>0, <1>1, <1>2 DEF Belongs
  <2>2. Batch(j)' \subseteq users'
    BY <1>0, <1>8
  <2>3. jobs'[j].status # "success"
    BY <1>0, <1>2 DEF Writing
  <2> QED BY <1>0, <1>1, <1>2, <2>1, <2>2, <2>3 DEF Writing, InBatch
<1> QED BY <1>9, <1>10, <1>11 DEF JobInv

(* What the row shows is counted, and the next batch begins where the last *)
(* one ended, or that was all.                                             *)
LEMMA ProgressKeeps ==
    ASSUME TypeOK, NEW j \in Job, JobInv(j), RecordProgress(j)
    PROVE  JobInv(j)'
<1>0. /\ work[j].step = "progress" /\ UNCHANGED <<handlers, users, profiles, employees, grants>>
  BY DEF RecordProgress, At, UnchangedRequest, rows
<1>1. /\ work'[j].step = IF work[j].from + BatchSize <= jobs[j].requested
                         THEN "users" ELSE "succeed"
      /\ work'[j].from = work[j].from + BatchSize
      /\ work'[j].inserted = work[j].inserted
      /\ work'[j].updated = work[j].updated
      /\ jobs'[j].status = jobs[j].status
      /\ jobs'[j].requested = jobs[j].requested
      /\ jobs'[j].inserted = work[j].inserted
      /\ jobs'[j].updated = work[j].updated
  BY ProgressFacts
<1>2. /\ jobs[j].requested \in Counts /\ work[j].from <= jobs[j].requested
      /\ work[j].inserted + work[j].updated = BatchEnd(j)
      /\ Belongs(work[j].from - 1)
      /\ Batch(j) \subseteq profiles /\ Batch(j) \subseteq employees
      /\ EmployeeRole => Batch(j) \subseteq grants
      /\ jobs[j].status # "success"
  BY <1>0 DEF JobInv, Counting, Writing, Requested, InBatch, Counted
<1>3. /\ work[j].from \in Nat \ {0} /\ work[j].inserted \in Nat /\ work[j].updated \in Nat
      /\ jobs[j].requested \in Nat /\ BatchSize \in Nat \ {0}
  BY <1>2, MaxOfCounts, BatchAssumption DEF TypeOK, JobInv, Counting
<1>4. BatchEnd(j) = IF work[j].from + BatchSize <= jobs[j].requested
                    THEN work[j].from + BatchSize - 1 ELSE jobs[j].requested
  <2>1. BatchEnd(j) = IF work[j].from + BatchSize - 1 <= jobs[j].requested
                      THEN work[j].from + BatchSize - 1 ELSE jobs[j].requested
    BY BatchEnds
  <2> QED BY <1>3, <2>1
<1>5. Belongs(BatchEnd(j))
  <2>1. 1..BatchEnd(j) = (1..(work[j].from - 1)) \cup Batch(j)
    <3>1. BatchEnd(j) \in Int /\ work[j].from <= BatchEnd(j)
      BY <1>2, <1>3, <1>4
    <3> QED BY <1>3, <3>1 DEF Batch
  <2> QED BY <1>2, <2>1 DEF Belongs
<1>6. Requested(j)'
  BY <1>0, <1>1, <1>2 DEF JobInv, Requested
<1>7. CASE work[j].from + BatchSize <= jobs[j].requested
  <2>1. work'[j].step = "users" /\ BatchEnd(j) = work'[j].from - 1 /\ work'[j].from > 0
    BY <1>1, <1>3, <1>4, <1>7
  <2>2. Counting(j)'
    BY <1>1, <1>2, <1>3, <1>4, <1>7, <2>1 DEF Counting, Counted, InBatch
  <2>3. Belongs(work[j].from - 1)'
    BY <1>0, <1>5, <2>1 DEF Belongs
  <2>4. Writing(j)'
    BY <1>1, <1>2, <1>7, <2>1, <2>3 DEF Writing, InBatch
  <2> QED BY <1>6, <2>2, <2>4 DEF JobInv
<1>8. CASE ~(work[j].from + BatchSize <= jobs[j].requested)
  <2>1. work'[j].step = "succeed" /\ BatchEnd(j) = jobs[j].requested /\ work'[j].from > 0
    BY <1>1, <1>3, <1>4, <1>8
  <2>2. Counting(j)'
    BY <1>1, <1>2, <1>3, <2>1 DEF Counting, Counted, InBatch
  <2>3. Reached(j)'
    BY <1>0, <1>1, <1>2, <1>5, <2>1 DEF Reached, Belongs
  <2>4. Writing(j)'
    BY <1>1, <1>2, <2>1, <2>3 DEF Writing, InBatch
  <2> QED BY <1>6, <2>2, <2>4 DEF JobInv
<1> QED BY <1>7, <1>8

(* The request that stores the job.                                        *)
LEMMA QueueKeeps ==
    ASSUME TypeOK, NEW j \in Job, JobInv(j), Queue(j)
    PROVE  JobInv(j)'
<1>0. UNCHANGED <<users, profiles, employees, grants>>
  BY DEF Queue, rows
<1>1. /\ handlers[j] = "idle" /\ handlers'[j] = "audit"
      /\ work'[j].step = "lock" /\ work'[j].from = work[j].from
      /\ work'[j].inserted = work[j].inserted
      /\ work'[j].updated = work[j].updated
      /\ jobs'[j].status = "queued"
      /\ jobs'[j].requested \in Counts
      /\ jobs'[j].inserted = jobs[j].inserted
      /\ jobs'[j].updated = jobs[j].updated
  BY QueueFacts
<1>2. /\ work[j].step = "idle" /\ work[j].from = 1 /\ Counted(j) = work[j].from - 1
      /\ jobs[j].inserted <= work[j].inserted /\ jobs[j].updated <= work[j].updated
  BY <1>1 DEF JobInv, Requested, Counting
<1>3. Requested(j)'
  BY <1>1 DEF Requested
<1>4. Counting(j)'
  BY <1>1, <1>2, MaxOfCounts DEF Counting, Counted, InBatch
<1>5. Writing(j)'
  BY <1>1 DEF Writing, InBatch
<1> QED BY <1>3, <1>4, <1>5 DEF JobInv

(* A statement that fails, or the end of the process, takes the job out of *)
(* its batches.                                                            *)
LEMMA StopKeeps ==
    ASSUME TypeOK, NEW j \in Job, JobInv(j), work[j].step \notin {"idle", "over"},
           SameNumbers(j), RowsGrow, jobs' = jobs,
           handlers'[j] = "idle" <=> handlers[j] = "idle",
           NEW s \in {"fail", "release", "over"}, work'[j].step = s,
           s = "fail" => jobs[j].status # "success"
    PROVE  JobInv(j)'
<1>1. jobs[j].status = "success" => Reached(j) /\ s \in {"release", "over"}
  BY DEF JobInv, Writing
<1>2. s \in Step \ {"idle"}
  BY DEF Step, Working, InTry
<1> QED BY <1>1, <1>2, StatementKeeps

-----------------------------------------------------------------------------
(* The sum of what the jobs have inserted.                                 *)

(* A step that inserts nobody.                                             *)
LEMMA InsertedStays ==
    ASSUME InsertedAdd, users' = users, \A j \in Job : work'[j].inserted = work[j].inserted
    PROVE  InsertedAdd'
<1>1. Inserted' = Inserted
  BY DEF Inserted
<1> QED BY <1>1 DEF InsertedAdd

(* The users a batch inserts are counted by its job alone.                 *)
LEMMA InsertedGrows ==
    ASSUME TypeOK, InsertedAdd, NEW j \in Job, UpsertUsers(j)
    PROVE  InsertedAdd'
<1> DEFINE d == Cardinality(Batch(j) \ users)
<1>1. /\ \A k \in Job \ {j} : work'[k] = work[k]
      /\ work'[j].inserted = work[j].inserted + d
      /\ IsFiniteSet(Batch(j) \ users) /\ work' \in [Job -> WorkRow]
  BY UpsertFacts
<1>2. d \in Nat
  BY <1>1, FS_CardinalityType
<1>3. /\ Inserted \in [Job -> Nat] /\ Inserted' \in [Job -> Nat]
      /\ Inserted'[j] = Inserted[j] + d
      /\ \A k \in Job \ {j} : Inserted'[k] = Inserted[k]
  <2> HIDE DEF d
  <2> QED BY <1>1 DEF Inserted, TypeOK, WorkRow
<1>4. PICK F : IsSum(F, Inserted)
  BY SumExists
<1>5. users' = users \cup Batch(j)
  BY DEF UpsertUsers
<1>6. Cardinality(users' \ Present) = Cardinality(users \ Present) + d
  <2>1. users' \ Present = (users \ Present) \cup (Batch(j) \ users)
    BY <1>5 DEF InsertedAdd
  <2>2. (users \ Present) \cap (Batch(j) \ users) = {}
    OBVIOUS
  <2>3. IsFiniteSet(users \ Present)
    <3>1. IsFiniteSet(Number)
      BY MaxOfCounts, FS_Interval DEF Number
    <3> QED BY <3>1, FS_Subset DEF TypeOK
  <2>4. Cardinality(users' \ Present) = Cardinality(users \ Present) + d
                     - Cardinality((users \ Present) \cap (Batch(j) \ users))
    BY <1>1, <2>1, <2>3, FS_Union
  <2>5. Cardinality(users \ Present) \in Nat
    BY <2>3, FS_CardinalityType
  <2>6. Cardinality((users \ Present) \cap (Batch(j) \ users)) = 0
    BY <2>2, FS_EmptySet
  <2> HIDE DEF d
  <2> QED BY <1>2, <2>4, <2>5, <2>6
<1>7. ASSUME NEW G, IsSum(G, Inserted') PROVE G[Job] = Cardinality(users' \ Present)
  <2>1. G[Job] = F[Job] + d
    <3> HIDE DEF d
    <3> QED BY <1>2, <1>3, <1>4, <1>7, SumOfMore
  <2>2. F[Job] = Cardinality(users \ Present)
    BY <1>4 DEF InsertedAdd
  <2> QED BY <1>6, <2>1, <2>2
<1>8. Present \subseteq users'
  BY <1>5 DEF InsertedAdd
<1> QED BY <1>7, <1>8 DEF InsertedAdd

(* A batch is of numbers of users.                                         *)
LEMMA BatchNumbers ==
    ASSUME TypeOK, NEW j \in Job, JobInv(j), work[j].step = "users" \/ InBatch(j)
    PROVE  Batch(j) \subseteq Number
<1>1. /\ work[j].from \in Nat /\ work[j].from > 0 /\ jobs[j].requested \in Counts
  BY DEF TypeOK, JobInv, Counting, Requested, InBatch
<1>2. jobs[j].requested \in Nat /\ jobs[j].requested <= Max(Counts) /\ Max(Counts) \in Nat
  BY <1>1, MaxOfCounts
<1>3. BatchEnd(j) \in Int /\ BatchEnd(j) <= jobs[j].requested
  BY <1>1, <1>2, BatchEnds, BatchAssumption
<1> QED BY <1>1, <1>2, <1>3 DEF Batch, Number

(* The rows of users that a statement of a job leaves.                     *)
LEMMA RowsType ==
    ASSUME TypeOK, NEW j \in Job, JobInv(j), JobStep(j)
    PROVE  /\ users' \subseteq Number /\ profiles' \subseteq users'
           /\ employees' \subseteq users' /\ grants' \subseteq users'
           /\ RowsGrow
<1>1. CASE UpsertUsers(j)
  <2>1. /\ users' = users \cup Batch(j) /\ UNCHANGED <<profiles, employees, grants>>
        /\ work[j].step = "users"
    BY <1>1 DEF UpsertUsers, At
  <2> QED BY <2>1, BatchNumbers DEF TypeOK, RowsGrow
<1>2. CASE UpsertProfiles(j) \/ UpsertEmployees(j) \/ GrantRole(j)
  <2>1. /\ users' = users
        /\ profiles' \in {profiles, profiles \cup Batch(j)}
        /\ employees' \in {employees, employees \cup Batch(j)}
        /\ grants' \in {grants, grants \cup Batch(j)}
        /\ InBatch(j)
    BY <1>2 DEF UpsertProfiles, UpsertEmployees, GrantRole, At, InBatch
  <2>2. Batch(j) \subseteq users
    BY <2>1 DEF JobInv, Writing
  <2> QED BY <2>1, <2>2 DEF TypeOK, RowsGrow
<1>3. CASE UNCHANGED rows
  BY <1>3 DEF rows, TypeOK, RowsGrow
<1> QED
  BY <1>1, <1>2, <1>3 DEF JobStep, AcquireLock, Refuse, Run, RecordProgress, Succeed, Fail,
                          ReleaseLock

(* Every statement of a job keeps the invariant.                           *)
LEMMA JobStepInv ==
    ASSUME CountInv, NEW j \in Job, JobStep(j)
    PROVE  CountInv'
<1>0. TypeOK /\ JobInv(j) /\ InsertedAdd
  BY DEF CountInv
<1>1. /\ JobInv(j)'
      /\ work' \in [Job -> WorkRow] /\ jobs' \in [Job -> JobRow]
      /\ \A k \in Job \ {j} : work'[k] = work[k] /\ jobs'[k] = jobs[k]
  <2>1. CASE UpsertUsers(j)
    <3>1. jobs' = jobs /\ jobs \in [Job -> JobRow]
      BY <1>0, <2>1 DEF UpsertUsers, TypeOK, JobRow
    <3> QED BY <1>0, <2>1, <3>1, UpsertKeeps, UpsertFacts
  <2>2. CASE RecordProgress(j)
    BY <1>0, <2>2, ProgressKeeps, ProgressFacts
  <2>3. CASE ~UpsertUsers(j) /\ ~RecordProgress(j)
    BY <1>0, <2>3, QuietStatement DEF JobStep
  <2> QED BY <2>1, <2>2, <2>3
<1>2. UNCHANGED <<handlers, pages, stranded, incidents>>
  BY DEF JobStep, AcquireLock, Refuse, Run, UpsertUsers, UpsertProfiles, UpsertEmployees,
         GrantRole, RecordProgress, Succeed, Fail, ReleaseLock, UnchangedRequest
<1>3. lock' \in BOOLEAN /\ lapsed' \in BOOLEAN
  <2>1. CASE AcquireLock(j)
    BY <1>0, <2>1, Zenon DEF AcquireLock, TypeOK
  <2>2. CASE lock' \in {lock, FALSE} /\ lapsed' = lapsed
    BY <1>0, <2>2 DEF TypeOK
  <2> QED
    BY <2>1, <2>2 DEF JobStep, Refuse, Run, UpsertUsers, UpsertProfiles, UpsertEmployees,
                      GrantRole, RecordProgress, Succeed, Fail, ReleaseLock
<1>4. TypeOK'
  BY <1>0, <1>1, <1>2, <1>3, RowsType DEF TypeOK, JobRow, WorkRow
<1>5. \A k \in Job : JobInv(k)'
  <2>1. ASSUME NEW k \in Job \ {j} PROVE JobInv(k)'
    BY <1>0, <1>1, <1>2, RowsType, OtherJobKept DEF CountInv
  <2> QED BY <1>1, <2>1
<1>6. InsertedAdd'
  <2>1. CASE UpsertUsers(j)
    BY <1>0, <2>1, InsertedGrows
  <2>2. CASE RecordProgress(j)
    <3>1. users' = users
      BY <2>2 DEF RecordProgress, rows
    <3> QED BY <1>0, <2>2, <3>1, ProgressFacts, InsertedStays
  <2>3. CASE ~UpsertUsers(j) /\ ~RecordProgress(j)
    <3>1. users' = users
      BY <2>3 DEF JobStep, AcquireLock, Refuse, Run, UpsertProfiles, UpsertEmployees,
                  GrantRole, Succeed, Fail, ReleaseLock, rows
    <3>2. SameNumbers(j)
      BY <1>0, <2>3, QuietStatement DEF JobStep
    <3> QED BY <1>0, <1>1, <3>1, <3>2, InsertedStays DEF SameNumbers
  <2> QED BY <2>1, <2>2, <2>3
<1> QED BY <1>4, <1>5, <1>6 DEF CountInv

(* The request, the page and the faults.                                   *)
LEMMA OtherStepInv ==
    ASSUME CountInv, Next, ~\E j \in Job : JobStep(j)
    PROVE  CountInv'
<1>0. TypeOK /\ (\A j \in Job : JobInv(j)) /\ InsertedAdd
  BY DEF CountInv
<1>a. jobs \in [Job -> JobRow] /\ work \in [Job -> WorkRow]
  BY <1>0 DEF TypeOK, JobRow, WorkRow
<1>b. ASSUME RowsGrow, users' = users, jobs' = jobs, work' = work,
             \A k \in Job : (handlers'[k] = "idle") <=> (handlers[k] = "idle")
      PROVE  (\A k \in Job : JobInv(k)') /\ InsertedAdd'
  BY <1>0, <1>b, OtherJobKept, InsertedStays
<1>c. Incident => incidents' \in 0..MaxIncidents
  BY <1>0, IncidentsAssumption DEF Incident, TypeOK
<1>1. ASSUME NEW j \in Job, Queue(j) PROVE CountInv'
  <2>1. /\ UNCHANGED <<lock, lapsed, rows, stranded, incidents>>
        /\ handlers' = [handlers EXCEPT ![j] = "audit"]
        /\ pages' = [pages EXCEPT ![j] = "posting"]
    BY <1>1 DEF Queue
  <2>2. TypeOK'
    <3>1. work' \in [Job -> WorkRow] /\ jobs' \in [Job -> JobRow]
      BY <1>0, <1>1, QueueFacts
    <3>2. /\ handlers' \in [Job -> {"idle", "audit", "over"}]
          /\ pages' \in [Job -> {"idle", "posting", "polling", "settled", "stuck"}]
      BY <1>0, <2>1 DEF TypeOK
    <3> QED BY <1>0, <2>1, <3>1, <3>2 DEF TypeOK, JobRow, WorkRow, rows
  <2>3. \A k \in Job \ {j} : work'[k] = work[k] /\ jobs'[k] = jobs[k] /\ handlers'[k] = handlers[k]
    BY <1>0, <1>1, QueueFacts
  <2>4. RowsGrow /\ users' = users
    BY <2>1 DEF rows, RowsGrow
  <2>5. \A k \in Job : JobInv(k)'
    <3>1. ASSUME NEW k \in Job \ {j} PROVE JobInv(k)'
      BY <1>0, <2>3, <2>4, OtherJobKept
    <3> QED BY <1>0, <1>1, <3>1, QueueKeeps
  <2>6. InsertedAdd'
    BY <1>0, <1>1, <2>3, <2>4, QueueFacts, InsertedStays
  <2> QED BY <2>2, <2>5, <2>6 DEF CountInv
<1>2. ASSUME NEW j \in Job, AnswerQueued(j) \/ Poll(j) \/ PollFails(j) PROVE CountInv'
  <2>1. /\ UNCHANGED <<jobs, work, lock, lapsed, rows, stranded>>
        /\ handlers' = handlers \/ (handlers[j] = "audit" /\ handlers' = [handlers EXCEPT ![j] = "over"])
        /\ \E p \in {"polling", "settled", "stuck"} : pages' = [pages EXCEPT ![j] = p]
        /\ incidents' = incidents \/ Incident
    BY <1>2 DEF AnswerQueued, Poll, PollFails
  <2>2. /\ handlers' \in [Job -> {"idle", "audit", "over"}]
        /\ \A k \in Job : (handlers'[k] = "idle") <=> (handlers[k] = "idle")
    BY <1>0, <2>1 DEF TypeOK
  <2>3. pages' \in [Job -> {"idle", "posting", "polling", "settled", "stuck"}]
    BY <1>0, <2>1 DEF TypeOK
  <2>4. RowsGrow /\ users' = users
    BY <2>1 DEF rows, RowsGrow
  <2>5. TypeOK'
    BY <1>0, <1>c, <2>1, <2>2, <2>3 DEF TypeOK, rows
  <2> QED BY <1>b, <2>1, <2>2, <2>4, <2>5 DEF CountInv
<1>3. ASSUME NEW j \in Job, StatementFails(j) PROVE CountInv'
  <2>1. /\ UNCHANGED <<jobs, lock, lapsed, rows, handlers, pages>> /\ Incident
        /\ stranded' \in {stranded, stranded \cup {j}}
        /\ work[j].step \in Step \ {"idle", "over"}
    BY <1>3 DEF StatementFails, UnchangedRequest
  <2>2. PICK s \in {"fail", "release", "over"} :
          /\ Goto(j, s)
          /\ s = "fail" => work[j].step \in InTry
    BY <1>3 DEF StatementFails
  <2>3. s \in Step
    BY DEF Step, Working, InTry
  <2>4. /\ SameNumbers(j) /\ work'[j].step = s /\ work' \in [Job -> WorkRow]
        /\ \A k \in Job \ {j} : work'[k] = work[k]
    BY <1>0, <2>1, <2>2, <2>3, StatementFacts
  <2>5. RowsGrow /\ users' = users
    BY <2>1 DEF rows, RowsGrow
  <2>6. \A k \in Job : JobInv(k)'
    <3>1. ASSUME NEW k \in Job \ {j} PROVE JobInv(k)'
      BY <1>0, <2>1, <2>4, <2>5, OtherJobKept
    <3>2. s = "fail" => jobs[j].status # "success"
      BY <1>0, <2>2 DEF JobInv, Writing, InTry
    <3>3. JobInv(j)'
      BY <1>0, <2>1, <2>4, <2>5, <3>2, StopKeeps
    <3> QED BY <3>1, <3>3
  <2>7. InsertedAdd'
    BY <1>0, <2>4, <2>5, InsertedStays DEF SameNumbers
  <2>8. TypeOK'
    BY <1>0, <1>c, <2>1, <2>4 DEF TypeOK, rows, WorkRow
  <2> QED BY <2>6, <2>7, <2>8 DEF CountInv
<1>4. CASE LockExpires
  <2>1. /\ UNCHANGED <<jobs, work, rows, stranded, handlers, pages>>
        /\ lock' = FALSE /\ lapsed' \in {lapsed, TRUE} /\ (incidents' = incidents \/ Incident)
    BY <1>4 DEF LockExpires, UnchangedRequest
  <2>2. RowsGrow /\ users' = users
    BY <2>1 DEF rows, RowsGrow
  <2>3. lapsed' \in BOOLEAN
    BY <1>0, <2>1 DEF TypeOK
  <2>4. TypeOK'
    BY <1>0, <1>c, <2>1, <2>3 DEF TypeOK, rows
  <2> QED BY <1>b, <2>1, <2>2, <2>4 DEF CountInv
<1>5. CASE Crash
  <2>1. /\ UNCHANGED <<jobs, lock, lapsed, rows>> /\ Incident
        /\ work' = [j \in Job |-> IF Underway(j) THEN [work[j] EXCEPT !.step = "over"] ELSE work[j]]
        /\ handlers' = [j \in Job |-> IF handlers[j] = "audit" THEN "over" ELSE handlers[j]]
        /\ pages' = [j \in Job |-> IF handlers[j] = "audit" THEN "settled" ELSE pages[j]]
        /\ stranded' \subseteq stranded \cup Job
    BY <1>5 DEF Crash
  <2>2. RowsGrow /\ users' = users
    BY <2>1 DEF rows, RowsGrow
  <2>3. /\ handlers' \in [Job -> {"idle", "audit", "over"}]
        /\ \A k \in Job : (handlers'[k] = "idle") <=> (handlers[k] = "idle")
        /\ pages' \in [Job -> {"idle", "posting", "polling", "settled", "stuck"}]
    BY <1>0, <2>1 DEF TypeOK
  <2>4. ASSUME NEW k \in Job
        PROVE  /\ work'[k] \in WorkRow /\ SameNumbers(k)
               /\ ~Underway(k) => work'[k] = work[k]
               /\ Underway(k) => work'[k].step = "over"
    <3>1. work[k] \in WorkRow /\ "over" \in Step
      BY <1>a DEF Step
    <3>2. CASE Underway(k)
      <4>1. work'[k] = [work[k] EXCEPT !.step = "over"]
        BY <2>1, <3>2
      <4> QED BY <2>1, <3>1, <3>2, <4>1 DEF WorkRow, SameNumbers
    <3>3. CASE ~Underway(k)
      <4>1. work'[k] = work[k]
        BY <2>1, <3>3
      <4> QED BY <2>1, <3>1, <3>3, <4>1 DEF SameNumbers
    <3> QED BY <3>2, <3>3
  <2>5. \A k \in Job : JobInv(k)'
    <3>1. ASSUME NEW k \in Job, ~Underway(k) PROVE JobInv(k)'
      BY <1>0, <2>1, <2>2, <2>3, <2>4, <3>1, OtherJobKept
    <3>2. ASSUME NEW k \in Job, Underway(k) PROVE JobInv(k)'
      <4>1. work[k].step \notin {"idle", "over"} /\ SameNumbers(k) /\ work'[k].step = "over"
        BY <2>4, <3>2 DEF Underway
      <4> QED BY <1>0, <2>1, <2>2, <2>3, <4>1, StopKeeps
    <3> QED BY <3>1, <3>2
  <2>6. InsertedAdd'
    BY <1>0, <2>2, <2>4, InsertedStays DEF SameNumbers
  <2>7. TypeOK'
    <3>1. work' \in [Job -> WorkRow]
      BY <2>1, <2>4
    <3>2. stranded' \subseteq Job
      BY <1>0, <2>1 DEF TypeOK
    <3> QED BY <1>0, <1>c, <2>1, <2>3, <3>1, <3>2 DEF TypeOK, rows, WorkRow
  <2> QED BY <2>5, <2>6, <2>7 DEF CountInv
<1> QED BY <1>1, <1>2, <1>3, <1>4, <1>5 DEF Next, Progress

(* It holds at the start.                                                  *)
LEMMA CountInit == Init => CountInv
<1> SUFFICES ASSUME Init PROVE CountInv
  OBVIOUS
<1>1. TypeOK
  <2>1. /\ jobs \in [Job -> JobRow] /\ work \in [Job -> WorkRow]
        /\ handlers \in [Job -> {"idle", "audit", "over"}]
        /\ pages \in [Job -> {"idle", "posting", "polling", "settled", "stuck"}]
    BY DEF Init, JobRow, WorkRow, Step
  <2>2. incidents \in 0..MaxIncidents
    BY IncidentsAssumption DEF Init
  <2> QED BY <2>1, <2>2, PresentAssumption DEF Init, TypeOK, JobRow, WorkRow, Number
<1>2. \A j \in Job : JobInv(j)
  <2> TAKE j \in Job
  <2>1. Requested(j)
    BY DEF Init, Requested
  <2>2. Counting(j)
    BY DEF Init, Counting, Counted, InBatch
  <2>3. Writing(j)
    BY DEF Init, Writing, InBatch
  <2> QED BY <2>1, <2>2, <2>3 DEF JobInv
<1>3. InsertedAdd
  <2>1. \A F : IsSum(F, Inserted) => F[Job] = 0
    <3> SUFFICES ASSUME NEW F, IsSum(F, Inserted) PROVE F[Job] = 0
      OBVIOUS
    <3>1. Inserted \in [Job -> Nat] /\ \A j \in Job : Inserted[j] = 0
      BY DEF Init, Inserted
    <3> QED BY <3>1, SumOfNone
  <2>2. users \ Present = {} /\ Present \subseteq users
    BY DEF Init
  <2> QED BY <2>1, <2>2, FS_EmptySet DEF InsertedAdd
<1> QED BY <1>1, <1>2, <1>3 DEF CountInv

(* The invariant, with the faults of the model and for any number of jobs. *)
LEMMA CountInvariance == Spec => []CountInv
<1>1. CountInv /\ [Next]_vars => CountInv'
  <2> SUFFICES ASSUME CountInv, [Next]_vars PROVE CountInv'
    OBVIOUS
  <2>1. CASE UNCHANGED vars
    <3>1. TypeOK'
      BY <2>1 DEF vars, rows, CountInv, TypeOK
    <3>2. \A k \in Job : JobInv(k)'
      BY <2>1, OtherJobKept DEF vars, rows, CountInv, RowsGrow
    <3>3. InsertedAdd'
      BY <2>1, InsertedStays DEF vars, rows, CountInv
    <3> QED BY <3>1, <3>2, <3>3 DEF CountInv
  <2>2. CASE Next
    BY <2>2, JobStepInv, OtherStepInv
  <2> QED BY <2>1, <2>2
<1> QED BY <1>1, CountInit, PTL DEF Spec

(* Rows, work, requests, pages and the users' rows are always of their     *)
(* types: a row shows no more users than can be asked for.                 *)
THEOREM GenerationTypeCorrect == Spec => []TypeOK
<1>1. CountInv => TypeOK
  BY DEF CountInv
<1> QED BY <1>1, CountInvariance, PTL

(* What the page shows for a job that succeeded is so, for any number of   *)
(* jobs and users and any size of batch, whatever failed or ran beside it; *)
(* and no two jobs count a user as inserted.                               *)
THEOREM CountsAreTrueHolds == Spec => []CountsAreTrue
<1>1. CountInv => CountsAreTrue
  <2> SUFFICES ASSUME CountInv PROVE CountsAreTrue
    OBVIOUS
  <2>1. ASSUME NEW j \in Job, jobs[j].status = "success"
        PROVE  /\ jobs[j].inserted + jobs[j].updated = jobs[j].requested
               /\ 1..jobs[j].requested \subseteq profiles \cap employees
               /\ EmployeeRole => 1..jobs[j].requested \subseteq grants
    BY <2>1 DEF CountInv, JobInv, Writing, Reached, Belongs
  <2>2. PICK F : IsSum(F, Shown) /\ MapThenSumSet(LAMBDA j : jobs[j].inserted, Job) = F[Job]
    BY ShownIsSum
  <2>3. PICK G : IsSum(G, Inserted)
    BY SumExists
  <2>4. G[Job] = Cardinality(users \ Present)
    BY <2>3 DEF CountInv, InsertedAdd
  <2>5. /\ Shown \in [Job -> Nat] /\ Inserted \in [Job -> Nat]
        /\ \A j \in Job : Shown[j] <= Inserted[j]
    <3>1. \A j \in Job : jobs[j].inserted \in Nat /\ work[j].inserted \in Nat
      BY DEF CountInv, TypeOK, Number
    <3>2. \A j \in Job : jobs[j].inserted <= work[j].inserted
      BY DEF CountInv, JobInv, Counting
    <3> QED BY <3>1, <3>2 DEF Shown, Inserted
  <2>6. F[Job] <= G[Job]
    BY <2>2, <2>3, <2>5, SumOfLess
  <2> QED BY <2>1, <2>2, <2>4, <2>6 DEF CountsAreTrue
<1> QED BY <1>1, CountInvariance, PTL
=============================================================================
