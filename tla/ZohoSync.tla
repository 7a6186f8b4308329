------------------------------ MODULE ZohoSync ------------------------------
(***************************************************************************)
(* Synchronising users with a Zoho sheet: apps/api/src/services/           *)
(* zoho-sync.ts, the lock of redis.ts, the scheduler of workers/           *)
(* sync-scheduler.ts and the handlers of routes/sync.ts.                   *)
(*                                                                         *)
(* A run pushes the users to the sheet, then pulls the sheet into the      *)
(* database, each from copies it read earlier.  Each call of Zoho and each *)
(* statement that another actor can come between is one action.  The       *)
(* columns of a row do not affect one another, so one column besides       *)
(* "User ID" stands for all that replace their value.                      *)
(***************************************************************************)
EXTENDS Naturals, Sequences, FiniteSets, SequencesExt

CONSTANTS
    User, Value,
    Blank,                  \* an empty cell
    Accepted,               \* the values applySheetValue validates
    Initial,                \* the values users are created with
    Created,                \* the users in the order of created_at
    Scheduler, Manual,      \* the callers of runZohoSync
    Conflict,               \* rows sync_conflicts may ever hold
    Resolver,               \* administrators who resolve conflicts
    Verdicts,               \* how they may resolve them
    BatchSize,              \* ZOHO_SYNC_BATCH_SIZE
    Directions, Policies,   \* what the configuration may be
    Answers,                \* how a write to the sheet may end
    MayStop,                \* runs whose process may die
    MayOutrun,              \* whether a run may outlive its lock
    MaxDisturbances,        \* bound: what people, the API and faults do in all
    None

Run == Scheduler \cup Manual
Kind == {"push", "pull", "bidirectional"}
Direction == {"never", "db_to_sheet", "sheet_to_db", "bidirectional"}
Choice == {"keep_db", "keep_sheet", "skip"}
Policy == {"mark", "keep", "delete"}

(* "lost": applied, but answered with an error or not at all; "repeated":  *)
(* answered 5xx although applied, and applied again by the retry.          *)
Answer == {"done", "failed", "lost", "repeated"}

ASSUME BatchAssumption == BatchSize \in Nat \ {0}
ASSUME ValueAssumption ==
    Blank \in Value /\ Accepted \subseteq Value /\ Initial \subseteq Value
ASSUME CreatedAssumption ==
    /\ Created \in Seq(User) /\ Created # <<>>
    /\ ToSet(Created) = User /\ IsInjective(Created)
ASSUME ConflictAssumption == IsFiniteSet(Conflict)
ASSUME ConfigAssumption == 
    /\ Directions \subseteq Direction
    /\ Policies \subseteq Policy
    /\ Verdicts \subseteq Choice
ASSUME FaultAssumption ==
    /\ Answers \subseteq Answer
    /\ MayStop \subseteq Run
    /\ MayOutrun \in BOOLEAN
    /\ MaxDisturbances \in Nat
ASSUME NoneAssumption == None \notin Value \cup Conflict

VARIABLES
    config,                 \* sync_field_mappings and the deletion policy
    db,                     \* users: their state and the column
    sheet,                  \* the rows of the worksheet, in order
    records,                \* sheet_sync_records, with sheet_baseline
    conflicts,              \* sync_conflicts: what the rows are about
    verdicts,               \* sync_conflicts: what has become of them
    lock,                   \* whether the Redis key lock:zoho-sync exists
    step,                   \* the statement each run is about to execute
    runs,                   \* what each run has read and is to write
    resolutions,            \* where each resolution of a conflict stands
    disturbances,           \* what people, the API and faults have done
    mishaps                 \* what has gone wrong so far

table == <<conflicts, verdicts>>
data == <<config, db, sheet, records, table>>
zohoVars == <<data, lock, step, runs, resolutions, disturbances, mishaps>>

-----------------------------------------------------------------------------
RunStep == {"idle", "job", "fetchRows", "readUsers", "flush", "recordPush",
            "fetchCells", "readDb", "readRecords", "write", "conflicts",
            "recordPull", "success", "failed", "release"}

UserRow == [state : {"none", "live", "deleted"}, value : Value]

Row == [user : User, value : Value]
Record == [known : BOOLEAN, baseline : Value \cup {None}]
Found == [user : User, field : {"(user)", "column"}, value : Value]
Mark == [user : User, value : Value \cup {None}]

(* "applied": a resolution has written the value to the user; "contested": *)
(* two resolutions had the conflict in hand at a time.                     *)
Verdict == [state : {"none", "pending", "resolved"},
            resolution : Choice \cup {None},
            applied : BOOLEAN, contested : BOOLEAN]

(* An operation on the sheet: "row" is a row_index, 0 for none; "value" is *)
(* None when the column is not pushed.                                     *)
Op == [kind : {"add", "update", "delete"}, row : Nat, user : User,
       value : Value \cup {None}]

(* "direction" is what the run has read of the configuration; "users" the  *)
(* values of the users that were live, None for the others.  "quiet": the  *)
(* run has had the system to itself and every call of Zoho has done what   *)
(* it was asked to; "aligned": each batch was of one kind and left the rows *)
(* of the next where they were; "due": the rows that had changed in the    *)
(* sheet alone when it began; "before": what users with a baseline and a   *)
(* row had then.  "job" is the status of its row of sheet_sync_jobs.       *)
RunState ==
    [kind : Kind, direction : Direction, rows : Seq(Row),
     ops : Seq(Op), pushed : SUBSET User,
     users : [User -> Value \cup {None}],
     writes : Seq(Row), found : Seq(Found), marks : Seq(Mark),
     job : {"none", "running", "success", "failed"},
     configured : BOOLEAN, quiet : BOOLEAN, aligned : BOOLEAN, due : SUBSET Row,
     before : [User -> Value \cup {None}]]

Resolution == [step : {"idle", "apply", "acknowledge", "mark"},
               conflict : Conflict \cup {None},
               choice : Choice]

TypeOK ==
    /\ config \in [direction : Direction, policy : Policy]
    /\ db \in [User -> UserRow]
    /\ sheet \in Seq(Row)
    /\ records \in [User -> Record]
    /\ conflicts \in [Conflict -> Found]
    /\ verdicts \in [Conflict -> Verdict]
    /\ lock \in BOOLEAN
    /\ step \in [Run -> RunStep]
    /\ runs \in [Run -> RunState]
    /\ resolutions \in [Resolver -> Resolution]
    /\ disturbances \in 0..MaxDisturbances
    /\ mishaps \subseteq {"outrun", "repeated", "mixed", "shifted", "removed"}

NoRun == [kind |-> "push", direction |-> "never", rows |-> <<>>, ops |-> <<>>,
          pushed |-> {}, users |-> [u \in User |-> None], writes |-> <<>>,
          found |-> <<>>, marks |-> <<>>, job |-> "none",
          configured |-> FALSE, quiet |-> FALSE, aligned |-> TRUE, due |-> {},
          before |-> [u \in User |-> None]]
NoConflict == [user |-> Created[1], field |-> "column", value |-> Blank]
NoVerdict == [state |-> "none", resolution |-> None, applied |-> FALSE,
              contested |-> FALSE]
NoResolution == [step |-> "idle", conflict |-> None, choice |-> "skip"]

(* Users created before the first run; the worksheet has only its headers. *)
Init ==
    /\ config \in [direction : Directions, policy : Policies]
    /\ db \in [User -> [state : {"none", "live"}, value : Initial]]
    /\ db[Created[1]].state = "live"
    /\ \A i \in 1..Len(Created), j \in 1..Len(Created) :
          i < j /\ db[Created[j]].state = "live" => db[Created[i]].state = "live"
    /\ sheet = <<>>
    /\ records = [u \in User |-> [known |-> FALSE, baseline |-> None]]
    /\ conflicts = [c \in Conflict |-> NoConflict]
    /\ verdicts = [c \in Conflict |-> NoVerdict]
    /\ lock = FALSE
    /\ step = [r \in Run |-> "idle"]
    /\ runs = [r \in Run |-> NoRun]
    /\ resolutions = [q \in Resolver |-> NoResolution]
    /\ disturbances = 0
    /\ mishaps = {}

-----------------------------------------------------------------------------
Pushes(direction) == direction \in {"db_to_sheet", "bidirectional"}
Pulls(direction) == direction \in {"sheet_to_db", "bidirectional"}

Live(u) == db[u].state = "live"
RowsOf(u, rows) == {i \in DOMAIN rows : rows[i].user = u}

(* What sheetMap holds for a user: the last of its rows, 0 for none.       *)
RowIndex(u, rows) == IF RowsOf(u, rows) = {} THEN 0 ELSE Max(RowsOf(u, rows))

At(r, s) == step[r] = s
Goto(r, s) == step' = [step EXCEPT ![r] = s]
Set(r, run) == runs' = [runs EXCEPT ![r] = run]
Active(r) == step[r] # "idle"

Disturbance ==
    /\ disturbances < MaxDisturbances
    /\ disturbances' = disturbances + 1
DisturbanceIf(cond) == IF cond THEN Disturbance ELSE UNCHANGED disturbances

(* Whatever else moves in the system, no run is alone any more.            *)
Disturb == runs' = [r \in Run |-> [runs[r] EXCEPT !.quiet = FALSE]]

-----------------------------------------------------------------------------
(* runZohoSync: the lock, the job, and how the run ends.                   *)

(* What the scheduler's tick asks for, and the handler of the route.       *)
Scheduled == {"bidirectional"}
Asked == Kind
Requested(r) == IF r \in Scheduler THEN Scheduled ELSE Asked

(* Users whose cell, and not their column, differs from the baseline.      *)
ChangedInSheet ==
    {row \in Row :
        /\ Live(row.user)
        /\ row.value \in Accepted
        /\ \E i \in DOMAIN sheet : sheet[i] = row
        /\ records[row.user].baseline = db[row.user].value
        /\ row.value # db[row.user].value}

(* What synchronised users have.  A row taken out by hand is not one: the  *)
(* push adds it again, with a blank where it pushes nothing, and the pull  *)
(* takes the blank for a change made in the sheet.                         *)
Synchronised ==
    [u \in User |->
        IF Live(u) /\ records[u].baseline # None /\ RowsOf(u, sheet) # {}
        THEN db[u].value ELSE None]

(* Mutant: acquireLock inside the try, so that whoever finds the lock taken *)
(* releases it.                                                            *)
AcquireInTry(r, kind) ==
    /\ At(r, "idle")
    /\ kind \in Requested(r)
    /\ lock' = ~lock
    /\ IF lock THEN UNCHANGED <<step, runs>>
       ELSE Goto(r, "job") /\ Set(r, [NoRun EXCEPT !.kind = kind])
    /\ DisturbanceIf(r \in Manual)
    /\ UNCHANGED <<data, resolutions, mishaps>>

(* acquireLock: SET NX with a TTL.  A caller that finds the lock taken     *)
(* throws before the try and touches nothing.                              *)
Acquire(r, kind) ==
    /\ At(r, "idle")
    /\ kind \in Requested(r)
    /\ ~lock
    /\ lock' = TRUE
    /\ Goto(r, "job")
    /\ runs' = [q \in Run |->
                  IF q = r
                  THEN [NoRun EXCEPT !.kind = kind,
                                     !.quiet = \A p \in Run \ {r} : ~Active(p),
                                     !.due = ChangedInSheet,
                                     !.before = Synchronised]
                  ELSE [runs[q] EXCEPT !.quiet = FALSE]]
    /\ DisturbanceIf(r \in Manual)
    /\ UNCHANGED <<data, resolutions, mishaps>>

(* getZohoAccessToken gets a token or, not configured, refused or not      *)
(* answered, none.                                                         *)
Token == BOOLEAN

(* The job is inserted, then the access token asked for: without one, the  *)
(* run goes straight to its success.                                       *)
CreateJob(r, token) ==
    /\ At(r, "job")
    /\ Set(r, [runs[r] EXCEPT !.job = "running", !.configured = token])
    /\ Goto(r, IF ~token THEN "success"
               ELSE IF runs[r].kind = "pull" THEN "fetchCells" ELSE "fetchRows")
    /\ DisturbanceIf(~token)
    /\ UNCHANGED <<data, lock, resolutions, mishaps>>

(* A call of Zoho that reads fails for good.                               *)
FailToFetch(r) ==
    /\ "failed" \in Answers
    /\ At(r, "fetchRows") \/ At(r, "fetchCells")
    /\ Goto(r, "failed")
    /\ Disturbance
    /\ UNCHANGED <<data, lock, runs, resolutions, mishaps>>

EndJob(r, status) ==
    /\ At(r, status)
    /\ Set(r, [runs[r] EXCEPT !.job = status])
    /\ Goto(r, "release")
    /\ UNCHANGED <<data, lock, resolutions, disturbances, mishaps>>

(* releaseLock in the finally: a DEL, whosever the lock is by then.        *)
Release(r) ==
    /\ At(r, "release")
    /\ lock' = FALSE
    /\ Goto(r, "idle")
    /\ Set(r, NoRun)
    /\ UNCHANGED <<data, resolutions, disturbances, mishaps>>

(* The process of the run dies: its lock stays, and its job "running".     *)
Stop(r) ==
    /\ r \in MayStop
    /\ Active(r)
    /\ Goto(r, "idle")
    /\ Set(r, NoRun)
    /\ Disturbance
    /\ UNCHANGED <<data, lock, resolutions, mishaps>>

(* The TTL of 180 seconds passes.                                          *)
LockExpires ==
    /\ lock
    /\ lock' = FALSE
    /\ IF \E r \in Run : Active(r)
         THEN MayOutrun /\ Disturbance /\ mishaps' = mishaps \cup {"outrun"}
         ELSE UNCHANGED <<disturbances, mishaps>>
    /\ UNCHANGED <<data, step, runs, resolutions>>

-----------------------------------------------------------------------------
(* syncDbToSheet and flushOps.                                             *)

(* The mappings and the policy are read just before; nothing else depends  *)
(* on them, so they are read here.                                         *)
FetchRows(r) ==
    /\ At(r, "fetchRows")
    /\ Set(r, [runs[r] EXCEPT !.rows = sheet, !.direction = config.direction])
    /\ Goto(r, "readUsers")
    /\ UNCHANGED <<data, lock, resolutions, disturbances, mishaps>>

(* Mutant: the rows of the sheet are not indexed.                          *)
OpsForUnindexed(u, rows, direction) ==
    LET value == IF Pushes(direction) THEN db[u].value ELSE None
    IN  IF db[u].state = "none" THEN <<>>
        ELSE <<[kind |-> "add", row |-> 0, user |-> u, value |-> value]>>

(* Mutant: a user who has a row is passed over.                            *)
OpsForNewOnly(u, rows, direction) ==
    IF RowIndex(u, rows) # 0 THEN <<>>
    ELSE OpsForUnindexed(u, rows, direction)

(* What is done about one user, as the sheet showed it: a row is written   *)
(* whether or not its hash differs, a removed user's row too unless the    *)
(* policy deletes it.                                                      *)
OpsFor(u, rows, direction) ==
    LET i == RowIndex(u, rows)
        value == IF Pushes(direction) THEN db[u].value ELSE None
        op(kind, v) == [kind |-> kind, row |-> i, user |-> u, value |-> v]
    IN  CASE db[u].state = "none" -> <<>>
          [] db[u].state = "deleted" /\ i = 0 -> <<>>
          [] db[u].state = "deleted" /\ i > 0 /\ config.policy = "delete"
               -> <<op("delete", None)>>
          [] Live(u) /\ i = 0 -> <<op("add", value)>>
          [] OTHER -> <<op("update", value)>>

ReadUsers(r) ==
    LET rows == runs[r].rows
        opsFor(u) == OpsFor(u, rows, runs[r].direction)
        ops == FlattenSeq([i \in DOMAIN Created |-> opsFor(Created[i])])
    IN
    /\ At(r, "readUsers")
    /\ Set(r, [runs[r] EXCEPT !.rows = <<>>, !.ops = ops])
    /\ Goto(r, IF ops = <<>> THEN "recordPush" ELSE "flush")
    /\ UNCHANGED <<data, lock, resolutions, disturbances, mishaps>>

BatchOf(ops) == SubSeq(ops, 1, Min({BatchSize, Len(ops)}))
RestOf(ops) == SubSeq(ops, BatchSize + 1, Len(ops))

(* The elements of seq at the positions in kept, in their order.           *)
Only(seq, kept) ==
    LET upTo[n \in 0..Len(seq)] ==
          IF n = 0 THEN <<>>
          ELSE IF n \in kept THEN Append(upTo[n-1], seq[n]) ELSE upTo[n-1]
    IN  upTo[Len(seq)]

(* Mutant: a column that is not pushed is written all the same.            *)
AddedUnblanked(rows, batch) ==
    rows \o [i \in DOMAIN batch |->
               [user |-> batch[i].user, value |-> batch[i].value]]

(* The three calls of the sheet, each with all operations of the batch,    *)
(* whatever each of them asks for.  records.add appends the values there   *)
(* are; records.update writes values over the rows of the same positions,  *)
(* passing over null indices and null values; records.delete takes all its *)
(* rows out at once, and the rows below move up.                           *)
Added(rows, batch) ==
    LET withValues == Only(batch, {n \in DOMAIN batch : batch[n].kind # "delete"})
    IN  rows \o [i \in DOMAIN withValues |->
                   [user |-> withValues[i].user,
                    value |-> IF withValues[i].value = None THEN Blank
                              ELSE withValues[i].value]]

Updated(rows, batch) ==
    LET for(i) == {n \in DOMAIN batch : batch[n].row = i /\ batch[n].kind # "delete"}
    IN  [i \in DOMAIN rows |->
           IF for(i) = {} THEN rows[i]
           ELSE LET op == batch[Max(for(i))]
                IN  [user |-> op.user,
                     value |-> IF op.value = None THEN rows[i].value ELSE op.value]]

Deleted(rows, batch) ==
    Only(rows, {i \in DOMAIN rows : \A n \in DOMAIN batch : batch[n].row # i})

Written(rows, batch) ==
    CASE batch[1].kind = "add" -> Added(rows, batch)
      [] batch[1].kind = "update" -> Updated(rows, batch)
      [] batch[1].kind = "delete" -> Deleted(rows, batch)

Mixed(batch) == \E n \in DOMAIN batch : batch[n].kind # batch[1].kind

(* Rows moved up below indices that later batches still use.               *)
Shifts(batch, rest) == batch[1].kind = "delete" /\ rest # <<>>

(* One batch: an error counts its operations as failed and goes on.        *)
Flush(r, answer) ==
    LET batch == BatchOf(runs[r].ops)
        rest == RestOf(runs[r].ops)
        once == Written(sheet, batch)
        done == answer \in {"done", "repeated"}
    IN
    /\ At(r, "flush")
    /\ sheet' = CASE answer = "failed" -> sheet
                  [] answer \in {"done", "lost"} -> once
                  [] answer = "repeated" -> Written(once, batch)
    /\ Set(r, [runs[r] EXCEPT
                 !.ops = rest,
                 !.pushed = IF done THEN @ \cup {op.user : op \in ToSet(batch)} ELSE @,
                 !.quiet = @ /\ answer = "done",
                 !.aligned = @ /\ ~Mixed(batch) /\ ~Shifts(batch, rest)])
    /\ mishaps' = mishaps \cup (IF answer = "repeated" THEN {"repeated"} ELSE {})
                          \cup (IF Mixed(batch) THEN {"mixed"} ELSE {})
                          \cup (IF Shifts(batch, rest) THEN {"shifted"} ELSE {})
    /\ Goto(r, IF rest = <<>> THEN "recordPush" ELSE "flush")
    /\ DisturbanceIf(answer # "done")
    /\ UNCHANGED <<config, db, records, table, lock, resolutions>>

(* upsertPushMeta: one statement, which leaves sheet_baseline alone.       *)
RecordPush(r) ==
    /\ At(r, "recordPush")
    /\ records' = [u \in User |-> IF u \in runs[r].pushed
                                  THEN [records[u] EXCEPT !.known = TRUE]
                                  ELSE records[u]]
    /\ Set(r, [runs[r] EXCEPT !.pushed = {}])
    /\ Goto(r, IF runs[r].kind = "push" THEN "success" ELSE "fetchCells")
    /\ UNCHANGED <<config, db, sheet, table, lock, resolutions, disturbances, mishaps>>

-----------------------------------------------------------------------------
(* syncSheetToDb.                                                          *)

FetchCells(r) ==
    /\ At(r, "fetchCells")
    /\ Set(r, [runs[r] EXCEPT !.rows = sheet, !.direction = config.direction])
    /\ Goto(r, "readDb")
    /\ UNCHANGED <<data, lock, resolutions, disturbances, mishaps>>

(* readUserMap leaves out the deleted.                                     *)
ReadDb(r) ==
    /\ At(r, "readDb")
    /\ Set(r, [runs[r] EXCEPT
                 !.users = [u \in User |-> IF Live(u) THEN db[u].value ELSE None]])
    /\ Goto(r, "readRecords")
    /\ UNCHANGED <<data, lock, resolutions, disturbances, mishaps>>

(* Mutant: whatever differs from the database is applied.                  *)
ClassifyAllSheet(dbValue, cell, lastKnown) ==
    IF dbValue = cell THEN "noop" ELSE "apply"

(* classifyFieldChange.                                                    *)
Classify(dbValue, cell, lastKnown) ==
    CASE dbValue = cell -> "noop"
      [] dbValue # cell /\ dbValue = lastKnown -> "apply"
      [] dbValue # cell /\ dbValue # lastKnown /\ cell = lastKnown -> "db_wins"
      [] OTHER -> "conflict"

(* What becomes of one row.  A value that applySheetValue refuses becomes  *)
(* a conflict; a user without a record has the cell for a baseline, and    *)
(* one whose record has none is compared with the database itself.         *)
Outcome(row, users, direction) ==
    LET dbValue == users[row.user]
        base == records[row.user].baseline
        change == Classify(dbValue, row.value, IF base = None THEN dbValue ELSE base)
    IN  CASE dbValue = None -> "unknown"
          [] dbValue # None /\ ~Pulls(direction) -> "ignored"
          [] dbValue # None /\ Pulls(direction) /\ ~records[row.user].known -> "noop"
          [] OTHER -> IF change = "apply" /\ row.value \notin Accepted
                      THEN "conflict" ELSE change

(* The rows are taken one by one, each against what was read before.  A    *)
(* row of no live user is a conflict of its own, unless it shows no status *)
(* or PENDING, which no row that a push wrote for an active user does.     *)
ReadRecords(r) ==
    LET rows == runs[r].rows
        outcome(row) == Outcome(row, runs[r].users, runs[r].direction)
        having(outcomes) == Only(rows, {i \in DOMAIN rows : outcome(rows[i]) \in outcomes})
        writes == having({"apply"})
        marks == Only(rows, {i \in DOMAIN rows : outcome(rows[i]) # "unknown"})
        clashing == having({"unknown", "conflict"})
        found == [i \in DOMAIN clashing |->
                    [user |-> clashing[i].user, value |-> clashing[i].value,
                     field |-> IF outcome(clashing[i]) = "unknown"
                               THEN "(user)" ELSE "column"]]
        baseline(row) ==
            IF outcome(row) \in {"noop", "db_wins", "apply"} THEN row.value
            ELSE records[row.user].baseline
    IN
    /\ At(r, "readRecords")
    /\ Set(r, [runs[r] EXCEPT
                 !.rows = <<>>, !.users = NoRun.users,
                 !.writes = writes, !.found = found,
                 !.marks = [i \in DOMAIN marks |->
                              [user |-> marks[i].user, value |-> baseline(marks[i])]]])
    /\ Goto(r, IF writes = <<>> THEN "conflicts" ELSE "write")
    /\ UNCHANGED <<data, lock, resolutions, disturbances, mishaps>>

(* applySheetValue writes by the user's id, whatever has become of it.     *)
WriteCell(r) ==
    LET row == Head(runs[r].writes)
        rest == Tail(runs[r].writes)
    IN
    /\ At(r, "write")
    /\ db' = [db EXCEPT ![row.user].value = row.value]
    /\ Set(r, [runs[r] EXCEPT !.writes = rest])
    /\ Goto(r, IF rest = <<>> THEN "conflicts" ELSE "write")
    /\ UNCHANGED <<config, sheet, records, table, lock, resolutions, disturbances, mishaps>>

(* insertConflicts: new rows, whatever the table holds already; of those   *)
(* Conflict has no room for, the model keeps nothing.                      *)
Free == {c \in Conflict : verdicts[c].state = "none"}

RecordConflicts(r) ==
    LET found == runs[r].found
        kept == 1..Min({Len(found), Cardinality(Free)})
        id == CHOOSE f \in [kept -> Free] : IsInjective(f)
        new == {c \in Free : \E i \in kept : id[i] = c}
    IN
    /\ At(r, "conflicts")
    /\ conflicts' = [c \in Conflict |->
          IF c \in new THEN found[CHOOSE i \in kept : id[i] = c] ELSE conflicts[c]]
    /\ verdicts' = [c \in Conflict |->
          IF c \in new THEN [NoVerdict EXCEPT !.state = "pending"] ELSE verdicts[c]]
    /\ Set(r, [runs[r] EXCEPT !.found = <<>>])
    /\ Goto(r, "recordPull")
    /\ UNCHANGED <<config, db, sheet, records, lock, resolutions, disturbances, mishaps>>

(* upsertPullMeta: one statement, which cannot take one user twice.        *)
Twice(marks) == \E i, j \in DOMAIN marks : i # j /\ marks[i].user = marks[j].user

RecordPull(r) ==
    LET marks == runs[r].marks IN
    /\ At(r, "recordPull")
    /\ IF Twice(marks)
         THEN Goto(r, "failed") /\ UNCHANGED records
         ELSE /\ Goto(r, "success")
              /\ records' = [u \in User |->
                    IF \E i \in DOMAIN marks : marks[i].user = u
                    THEN [known |-> TRUE,
                          baseline |-> marks[CHOOSE i \in DOMAIN marks : marks[i].user = u].value]
                    ELSE records[u]]
    /\ Set(r, [runs[r] EXCEPT !.marks = <<>>])
    /\ UNCHANGED <<config, db, sheet, table, lock, resolutions, disturbances, mishaps>>

-----------------------------------------------------------------------------
(* resolveConflict.                                                        *)

Resolving(q, s) == resolutions[q].step = s

(* SELECT ... AND status = 'pending', without a lock on the row.           *)
TakeConflict(q, c, choice) ==
    /\ Resolving(q, "idle")
    /\ verdicts[c].state = "pending"
    /\ resolutions' = [resolutions EXCEPT
          ![q] = [step |-> IF choice = "keep_sheet" THEN "apply" ELSE "acknowledge",
                  conflict |-> c, choice |-> choice]]
    /\ IF \E p \in Resolver : resolutions[p].conflict = c
         THEN verdicts' = [verdicts EXCEPT ![c].contested = TRUE]
         ELSE UNCHANGED verdicts
    /\ Disturbance
    /\ Disturb
    /\ UNCHANGED <<config, db, sheet, records, conflicts, lock, step, mishaps>>

(* A value that cannot be applied leaves the conflict pending.             *)
Applicable(c) ==
    /\ Live(conflicts[c].user)
    /\ conflicts[c].field = "column"
    /\ conflicts[c].value \in Accepted

(* Mutant: the answer of applySheetValue is not looked at.                 *)
ApplyConflictAnyway(q) ==
    LET c == resolutions[q].conflict IN
    /\ Resolving(q, "apply")
    /\ db' = IF Applicable(c)
             THEN [db EXCEPT ![conflicts[c].user].value = conflicts[c].value]
             ELSE db
    /\ verdicts' = [verdicts EXCEPT ![c].applied = Applicable(c)]
    /\ resolutions' = [resolutions EXCEPT ![q].step = "acknowledge"]
    /\ Disturb
    /\ UNCHANGED <<config, sheet, records, conflicts, lock, step, disturbances, mishaps>>

ApplyConflict(q) ==
    LET c == resolutions[q].conflict IN
    /\ Resolving(q, "apply")
    /\ IF Applicable(c)
         THEN /\ db' = [db EXCEPT ![conflicts[c].user].value = conflicts[c].value]
              /\ verdicts' = [verdicts EXCEPT ![c].applied = TRUE]
              /\ resolutions' = [resolutions EXCEPT ![q].step = "acknowledge"]
         ELSE /\ resolutions' = [resolutions EXCEPT ![q] = NoResolution]
              /\ UNCHANGED <<db, verdicts>>
    /\ Disturb
    /\ UNCHANGED <<config, sheet, records, conflicts, lock, step, disturbances, mishaps>>

(* The value of the conflict, not of the sheet, becomes the baseline.      *)
Acknowledge(q) ==
    LET c == resolutions[q].conflict
        u == conflicts[c].user
    IN
    /\ Resolving(q, "acknowledge")
    /\ records' = IF records[u].known /\ conflicts[c].field = "column"
                  THEN [records EXCEPT ![u].baseline = conflicts[c].value]
                  ELSE records
    /\ resolutions' = [resolutions EXCEPT ![q].step = "mark"]
    /\ Disturb
    /\ UNCHANGED <<config, db, sheet, table, lock, step, disturbances, mishaps>>

(* UPDATE ... WHERE id, pending or not.                                    *)
MarkResolved(q) ==
    LET c == resolutions[q].conflict IN
    /\ Resolving(q, "mark")
    /\ verdicts' = [verdicts EXCEPT ![c].state = "resolved",
                                      ![c].resolution = resolutions[q].choice]
    /\ resolutions' = [resolutions EXCEPT ![q] = NoResolution]
    /\ Disturb
    /\ UNCHANGED <<config, db, sheet, records, conflicts, lock, step, disturbances, mishaps>>

-----------------------------------------------------------------------------
(* What people do to the sheet, and the API to the users, meanwhile.       *)

Edit ==
    /\ Disturbance
    /\ Disturb
    /\ UNCHANGED <<records, table, lock, step, resolutions>>

EditCell(i, v) ==
    /\ Edit
    /\ sheet[i].value # v
    /\ sheet' = [sheet EXCEPT ![i].value = v]
    /\ UNCHANGED <<config, db, mishaps>>

RemoveRow(i) ==
    /\ Edit
    /\ sheet' = RemoveAt(sheet, i)
    /\ mishaps' = mishaps \cup {"removed"}
    /\ UNCHANGED <<config, db>>

ChangeUser(u, v) ==
    /\ Edit
    /\ Live(u)
    /\ db[u].value # v
    /\ db' = [db EXCEPT ![u].value = v]
    /\ UNCHANGED <<config, sheet, mishaps>>

CreateUser(i) ==
    /\ Edit
    /\ db[Created[i]].state = "none"
    /\ \A j \in 1..i-1 : db[Created[j]].state # "none"
    /\ db' = [db EXCEPT ![Created[i]].state = "live"]
    /\ UNCHANGED <<config, sheet, mishaps>>

DeleteUser(u) ==
    /\ Edit
    /\ Live(u)
    /\ db' = [db EXCEPT ![u].state = "deleted"]
    /\ UNCHANGED <<config, sheet, mishaps>>

(* updateSyncConfig writes each setting by itself.                         *)
UpdateConfig(new) ==
    /\ Edit
    /\ new # config
    /\ new.direction = config.direction \/ new.policy = config.policy
    /\ config' = new
    /\ UNCHANGED <<db, sheet, mishaps>>

-----------------------------------------------------------------------------
RunStepOf(r) ==
    \/ \E kind \in Kind : Acquire(r, kind)
    \/ \E token \in Token : CreateJob(r, token)
    \/ FetchRows(r) \/ ReadUsers(r) \/ RecordPush(r)
    \/ \E answer \in Answers : Flush(r, answer)
    \/ FetchCells(r) \/ ReadDb(r) \/ ReadRecords(r) \/ WriteCell(r)
    \/ RecordConflicts(r) \/ RecordPull(r) \/ FailToFetch(r)
    \/ EndJob(r, "success") \/ EndJob(r, "failed")
    \/ Release(r)

ResolverStep(q) ==
    \/ \E c \in Conflict, choice \in Verdicts : TakeConflict(q, c, choice)
    \/ ApplyConflict(q) \/ Acknowledge(q) \/ MarkResolved(q)

Change ==
    \/ \E i \in DOMAIN sheet : RemoveRow(i) \/ \E v \in Value : EditCell(i, v)
    \/ \E u \in User : DeleteUser(u) \/ \E v \in Accepted : ChangeUser(u, v)
    \/ \E i \in DOMAIN Created : CreateUser(i)
    \/ \E new \in [direction : Directions, policy : Policies] : UpdateConfig(new)

Next ==
    \/ \E r \in Run : RunStepOf(r) \/ Stop(r)
    \/ \E q \in Resolver : ResolverStep(q)
    \/ LockExpires
    \/ Change

Spec == Init /\ [][Next]_zohoVars

(* The scheduler calls again after every run, failed or not, and Redis     *)
(* expires keys; people call when they like.                               *)
FairSpec ==
    /\ Spec
    /\ \A r \in Manual : WF_zohoVars(Active(r) /\ RunStepOf(r))
    /\ \A r \in Scheduler : WF_zohoVars(RunStepOf(r))
    /\ WF_zohoVars(LockExpires /\ \A r \in Run : ~Active(r))

-----------------------------------------------------------------------------
(* Two runs are past the lock only if one has outlived it: a caller that   *)
(* finds it taken releases nothing, a run that dies leaves it to its TTL.  *)
OneRunAtATime ==
    "outrun" \notin mishaps =>
        \A r, q \in Run : Active(r) /\ Active(q) => r = q

(* The upsert by user number keeps one row per user: as long as runs stay  *)
(* within their lock, no write of the sheet is repeated, no batch is mixed *)
(* or makes rows move up below it and nobody takes rows out by hand, no    *)
(* user has two rows, and none that was recorded as pushed has lost his.   *)
RowPerUser ==
    mishaps = {} =>
        \A u \in User :
            /\ Cardinality(RowsOf(u, sheet)) <= 1
            /\ Live(u) /\ records[u].known => RowsOf(u, sheet) # {}

(* What a run in both directions leaves behind if nothing came between,    *)
(* its batches were aligned and its job says that it worked: sheet and     *)
(* database agree on a column that is pushed, and the baseline with them   *)
(* if it is pulled too, without the database having changed.  A column     *)
(* that is only pulled has taken over what had changed in the sheet alone, *)
(* and nothing else of a user who had a baseline and a row; where the      *)
(* sheet still differs, the baseline knows it or a conflict waits.         *)
PushConverged(r, u, cell) ==
    /\ cell = db[u].value
    /\ runs[r].before[u] \in {None, db[u].value}
    /\ config.direction = "bidirectional" => records[u].baseline = cell

PullConverged(r, u, cell) ==
    LET here == [user |-> u, value |-> cell] IN
    /\ \/ cell \in {db[u].value, records[u].baseline}
       \/ Free = {}
       \/ \E c \in Conflict :
             /\ verdicts[c].state = "pending"
             /\ conflicts[c].user = u
             /\ conflicts[c].value = cell
    /\ IF here \in runs[r].due THEN db[u].value = cell
       ELSE runs[r].before[u] \in {None, db[u].value}

Converged(r) ==
    \A u \in User : Live(u) =>
        /\ RowsOf(u, sheet) # {}
        /\ LET cell == sheet[RowIndex(u, sheet)].value
           IN  /\ Pushes(config.direction) => PushConverged(r, u, cell)
               /\ config.direction = "sheet_to_db" => PullConverged(r, u, cell)

SucceededAlone(r) ==
    /\ At(r, "release")
    /\ runs[r].job = "success"
    /\ runs[r].kind = "bidirectional"
    /\ runs[r].configured
    /\ runs[r].quiet

QuietRunConverges == \A r \in Run : SucceededAlone(r) /\ runs[r].aligned => Converged(r)

(* "A new user -> appended": every user who was there when an undisturbed  *)
(* run pushed and succeeded has a row.                                     *)
NewUsersAreAppended ==
    \A r \in Run : SucceededAlone(r) =>
        \A u \in User : Live(u) => RowsOf(u, sheet) # {}

(* A conflict is settled as the administrator chose: in favour of the      *)
(* sheet only if its value was valid and has been written, and otherwise   *)
(* without touching the user; unless two resolved it at a time.            *)
ResolutionIsTrue ==
    \A c \in Conflict :
        verdicts[c].state = "resolved" /\ ~verdicts[c].contested =>
            (verdicts[c].applied <=> verdicts[c].resolution = "keep_sheet")

(* Once people and faults are done, the scheduler brings every live user's *)
(* row up to the database, and there it stays.                             *)
CaughtUp ==
    Pushes(config.direction) =>
        \A u \in User : Live(u) =>
            /\ RowsOf(u, sheet) # {}
            /\ sheet[RowIndex(u, sheet)].value = db[u].value
SheetCatchesUp == <>[]CaughtUp
=============================================================================
