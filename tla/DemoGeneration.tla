--------------------------- MODULE DemoGeneration ---------------------------
(***************************************************************************)
(* The generator of demo users and the page that follows it:               *)
(* apps/api/src/services/demo-generator.ts, the last routes of             *)
(* routes/sync.ts, and generateDemo of apps/web ZohoSync.tsx.              *)
(*                                                                         *)
(* A request stores a job, leaves it running in the background and answers *)
(* with its name; the page asks for the job until it is over.  A job takes *)
(* a lock with a time to live and writes the users in batches, four        *)
(* statements each.  Every statement and every call of Redis is an action. *)
(***************************************************************************)
EXTENDS Naturals, FiniteSets, FiniteSetsExt

CONSTANTS
    Job,
    Counts,                 \* how many users may be asked for
    BatchSize,              \* BATCH_SIZE
    EmployeeRole,           \* whether there is a role EMPLOYEE
    Present,                \* the demo users there are before
    MaxIncidents            \* bound: faults of all kinds in a behaviour

ASSUME JobAssumption == IsFiniteSet(Job)
ASSUME CountsAssumption == Counts # {} /\ Counts \subseteq Nat \ {0} /\ IsFiniteSet(Counts)
ASSUME BatchAssumption == BatchSize \in Nat \ {0}
ASSUME RoleAssumption == EmployeeRole \in BOOLEAN
ASSUME PresentAssumption == Present \subseteq 1..Max(Counts)
ASSUME IncidentsAssumption == MaxIncidents \in Nat

VARIABLES
    jobs,                   \* the rows of demo_generation_jobs
    work,                   \* where the background of each job stands
    handlers,               \* where the request for each job stands
    pages,                  \* what the page that made the request does
    lock, lapsed,           \* lock:zoho-demo-gen; whether it ran out on a job
    users, profiles, employees, grants,
    stranded,               \* jobs that will not be given an end any more
    incidents

vars == <<jobs, work, handlers, pages, lock, lapsed, users, profiles, employees,
          grants, stranded, incidents>>
rows == <<users, profiles, employees, grants>>

(* The demo users are numbered from 1.                                     *)
Number == 1..Max(Counts)

InTry == {"start", "users", "profiles", "employees", "grants", "progress", "succeed"}
Working == InTry \cup {"fail", "release"}
Step == {"idle", "lock", "refuse", "over"} \cup Working

TypeOK ==
    /\ jobs \in [Job -> [status : {"none", "queued", "running", "success", "failed"},
                         requested : Counts \cup {0}, inserted : Number \cup {0},
                         updated : Number \cup {0}]]
    /\ work \in [Job -> [step : Step, from : Nat, inserted : Nat, updated : Nat]]
    /\ handlers \in [Job -> {"idle", "audit", "over"}]
    /\ pages \in [Job -> {"idle", "posting", "polling", "settled", "stuck"}]
    /\ lock \in BOOLEAN
    /\ lapsed \in BOOLEAN
    /\ users \subseteq Number
    /\ profiles \subseteq users
    /\ employees \subseteq users
    /\ grants \subseteq users
    /\ stranded \subseteq Job
    /\ incidents \in 0..MaxIncidents

Init ==
    /\ jobs = [j \in Job |-> [status |-> "none", requested |-> 0, inserted |-> 0, updated |-> 0]]
    /\ work = [j \in Job |-> [step |-> "idle", from |-> 1, inserted |-> 0, updated |-> 0]]
    /\ handlers = [j \in Job |-> "idle"]
    /\ pages = [j \in Job |-> "idle"]
    /\ lock = FALSE
    /\ lapsed = FALSE
    /\ users = Present
    /\ profiles = Present
    /\ employees = Present
    /\ grants = {}
    /\ stranded = {}
    /\ incidents = 0

Incident == incidents < MaxIncidents /\ incidents' = incidents + 1

-----------------------------------------------------------------------------
(* The page and the request.                                               *)

(* queueDemoGeneration: the row, and the background that runs on.          *)
Queue(j) ==
    /\ handlers[j] = "idle"
    /\ handlers' = [handlers EXCEPT ![j] = "audit"]
    /\ pages' = [pages EXCEPT ![j] = "posting"]
    /\ \E n \in Counts :
        jobs' = [jobs EXCEPT ![j].status = "queued", ![j].requested = n]
    /\ work' = [work EXCEPT ![j].step = "lock"]
    /\ UNCHANGED <<lock, lapsed, rows, stranded, incidents>>

(* recordAudit, and the answer: a request that fails here leaves its job   *)
(* running, and the page does not hear of it.                              *)
AnswerQueued(j) ==
    /\ handlers[j] = "audit"
    /\ handlers' = [handlers EXCEPT ![j] = "over"]
    /\ \/ pages' = [pages EXCEPT ![j] = "polling"] /\ UNCHANGED incidents
       \/ pages' = [pages EXCEPT ![j] = "settled"] /\ Incident
    /\ UNCHANGED <<jobs, work, lock, lapsed, rows, stranded>>

(* The page reads the row: it asks again in two seconds, or is done.       *)
Poll(j) ==
    /\ pages[j] = "polling"
    /\ jobs[j].status \in {"success", "failed"}
    /\ pages' = [pages EXCEPT ![j] = "settled"]
    /\ UNCHANGED <<jobs, work, handlers, lock, lapsed, rows, stranded, incidents>>

(* A request that fails ends the asking, and nothing tells the page.       *)
PollFails(j) ==
    /\ pages[j] = "polling"
    /\ Incident
    /\ pages' = [pages EXCEPT ![j] = "stuck"]
    /\ UNCHANGED <<jobs, work, handlers, lock, lapsed, rows, stranded>>

-----------------------------------------------------------------------------
(* The background.                                                         *)
At(j, s) == work[j].step = s
Goto(j, s) == work' = [work EXCEPT ![j].step = s]
Works(j) == work[j].step \in Working
UnchangedRequest == UNCHANGED <<handlers, pages>>

(* SET NX: a lock nobody holds has run out on nobody.                      *)
AcquireInAnyCase(j) ==
    /\ At(j, "lock")
    /\ lock' = TRUE
    /\ Goto(j, "start")
    /\ UNCHANGED <<jobs, lapsed, rows, stranded, incidents>> /\ UnchangedRequest

AcquireLock(j) ==
    /\ At(j, "lock")
    /\ lock' = TRUE
    /\ Goto(j, IF lock THEN "refuse" ELSE "start")
    /\ lapsed' = (lapsed /\ \E k \in Job : Works(k))
    /\ UNCHANGED <<jobs, rows, stranded, incidents>> /\ UnchangedRequest

(* Whoever finds the lock taken is told so, or not.                        *)
ReturnSilently(j) ==
    /\ At(j, "refuse")
    /\ Goto(j, "over")
    /\ UNCHANGED <<jobs, lock, lapsed, rows, stranded, incidents>> /\ UnchangedRequest

Refuse(j) ==
    /\ At(j, "refuse")
    /\ Goto(j, "over")
    /\ jobs' = [jobs EXCEPT ![j].status = "failed"]
    /\ UNCHANGED <<lock, lapsed, rows, stranded, incidents>> /\ UnchangedRequest

Run(j) ==
    /\ At(j, "start")
    /\ Goto(j, "users")
    /\ jobs' = [jobs EXCEPT ![j].status = "running"]
    /\ UNCHANGED <<lock, lapsed, rows, stranded, incidents>> /\ UnchangedRequest

(* Ends of a batch that forget the last one, or count one twice.           *)
EndUnclipped(j) == work[j].from + BatchSize - 1
EndOneLate(j) == Min({work[j].from + BatchSize, jobs[j].requested})

BatchEnd(j) == Min({work[j].from + BatchSize - 1, jobs[j].requested})
Batch(j) == work[j].from..BatchEnd(j)

(* insertBatch: a user whose number is there is updated.                   *)
UpsertUsers(j) ==
    /\ At(j, "users")
    /\ users' = users \cup Batch(j)
    /\ work' = [work EXCEPT ![j].step = "profiles",
                            ![j].inserted = @ + Cardinality(Batch(j) \ users),
                            ![j].updated = @ + Cardinality(Batch(j) \cap users)]
    /\ UNCHANGED <<jobs, lock, lapsed, profiles, employees, grants, stranded, incidents>>
    /\ UnchangedRequest

UpsertProfiles(j) ==
    /\ At(j, "profiles")
    /\ profiles' = profiles \cup Batch(j)
    /\ Goto(j, "employees")
    /\ UNCHANGED <<jobs, lock, lapsed, users, employees, grants, stranded, incidents>>
    /\ UnchangedRequest

UpsertEmployees(j) ==
    /\ At(j, "employees")
    /\ employees' = employees \cup Batch(j)
    /\ Goto(j, IF EmployeeRole THEN "grants" ELSE "progress")
    /\ UNCHANGED <<jobs, lock, lapsed, users, profiles, grants, stranded, incidents>>
    /\ UnchangedRequest

GrantRole(j) ==
    /\ At(j, "grants")
    /\ grants' = grants \cup Batch(j)
    /\ Goto(j, "progress")
    /\ UNCHANGED <<jobs, lock, lapsed, users, profiles, employees, stranded, incidents>>
    /\ UnchangedRequest

(* The counts so far, and the next batch.                                  *)
RecordProgress(j) ==
    /\ At(j, "progress")
    /\ jobs' = [jobs EXCEPT ![j].inserted = work[j].inserted, ![j].updated = work[j].updated]
    /\ work' = [work EXCEPT ![j].from = @ + BatchSize,
                            ![j].step = IF work[j].from + BatchSize <= jobs[j].requested
                                        THEN "users" ELSE "succeed"]
    /\ UNCHANGED <<lock, lapsed, rows, stranded, incidents>> /\ UnchangedRequest

Succeed(j) ==
    /\ At(j, "succeed")
    /\ Goto(j, "release")
    /\ jobs' = [jobs EXCEPT ![j].status = "success"]
    /\ UNCHANGED <<lock, lapsed, rows, stranded, incidents>> /\ UnchangedRequest

Fail(j) ==
    /\ At(j, "fail")
    /\ Goto(j, "release")
    /\ jobs' = [jobs EXCEPT ![j].status = "failed"]
    /\ UNCHANGED <<lock, lapsed, rows, stranded, incidents>> /\ UnchangedRequest

(* DEL, whosever the lock is by then.                                      *)
ReleaseLock(j) ==
    /\ At(j, "release")
    /\ Goto(j, "over")
    /\ lock' = FALSE
    /\ UNCHANGED <<jobs, lapsed, rows, stranded, incidents>> /\ UnchangedRequest

(* A statement fails: inside the try the job fails; before it, in the      *)
(* catch and in the finally the promise is rejected, and logged.           *)
StatementFails(j) ==
    /\ work[j].step \in Step \ {"idle", "over"}
    /\ Incident
    /\ Goto(j, IF work[j].step \in InTry THEN "fail"
               ELSE IF At(j, "fail") THEN "release" ELSE "over")
    /\ stranded' = IF work[j].step \in {"lock", "refuse", "fail"}
                   THEN stranded \cup {j} ELSE stranded
    /\ UNCHANGED <<jobs, lock, lapsed, rows>> /\ UnchangedRequest

(* The time to live of the lock, ten minutes.                              *)
LockExpires ==
    /\ lock
    /\ lock' = FALSE
    /\ IF \E j \in Job : Works(j) THEN Incident /\ lapsed' = TRUE
       ELSE UNCHANGED <<incidents, lapsed>>
    /\ UNCHANGED <<jobs, work, rows, stranded>> /\ UnchangedRequest

(* The process dies: no job is taken up again.                             *)
Underway(j) == work[j].step \notin {"idle", "over"}

Crash ==
    /\ Incident
    /\ \E j \in Job : Underway(j)
    /\ work' = [j \in Job |-> IF Underway(j) THEN [work[j] EXCEPT !.step = "over"] ELSE work[j]]
    /\ stranded' = stranded \cup {j \in Job : Underway(j) /\ jobs[j].status \in {"queued", "running"}}
    /\ handlers' = [j \in Job |-> IF handlers[j] = "audit" THEN "over" ELSE handlers[j]]
    /\ pages' = [j \in Job |-> IF handlers[j] = "audit" THEN "settled" ELSE pages[j]]
    /\ UNCHANGED <<jobs, lock, lapsed, rows>>

-----------------------------------------------------------------------------
JobStep(j) ==
    \/ AcquireLock(j) \/ Refuse(j) \/ Run(j)
    \/ UpsertUsers(j) \/ UpsertProfiles(j) \/ UpsertEmployees(j) \/ GrantRole(j)
    \/ RecordProgress(j) \/ Succeed(j) \/ Fail(j) \/ ReleaseLock(j)

(* What goes on by itself: the event loops of the server and the page.     *)
Progress == \E j \in Job : JobStep(j) \/ AnswerQueued(j) \/ Poll(j)

Next ==
    \/ \E j \in Job : Queue(j) \/ PollFails(j) \/ StatementFails(j)
    \/ Progress
    \/ LockExpires
    \/ Crash

(* Each job has but finitely many steps left, so that all come to an end   *)
(* as long as one of those that can be taken is.                           *)
Spec == Init /\ [][Next]_vars /\ WF_vars(Progress)

-----------------------------------------------------------------------------
(* One job at a time writes demo users, unless the lock has run out on one *)
(* since the last time there was none (demo-generator.ts:103, 157: a job   *)
(* that outlived its lock deletes that of the next, and lets a third in).  *)
OneGenerationAtATime == lapsed \/ Cardinality({j \in Job : Works(j)}) <= 1

(* The counts the page shows for a job that succeeded: every user it was   *)
(* asked for is there with all that belongs to it, whatever became of the  *)
(* jobs before it and beside it, is counted once, and no two jobs count    *)
(* the same user as inserted.                                              *)
CountsAreTrue ==
    /\ \A j \in Job : jobs[j].status = "success" =>
        /\ jobs[j].inserted + jobs[j].updated = jobs[j].requested
        /\ 1..jobs[j].requested \subseteq profiles \cap employees
        /\ EmployeeRole => 1..jobs[j].requested \subseteq grants
    /\ MapThenSumSet(LAMBDA j : jobs[j].inserted, Job) <= Cardinality(users \ Present)

(* The page that follows a job stops asking and says how it ended, unless  *)
(* asking failed or the job was left without an end (demo-generator.ts:    *)
(* 104-110: also the job that finds the lock taken gets one).              *)
PollSettles ==
    \A j \in Job : pages[j] = "polling" ~> pages[j] \in {"settled", "stuck"} \/ j \in stranded
=============================================================================
