---------------------------- MODULE CronScheduler ----------------------------
(***************************************************************************)
(* The cron scheduler of src/cron: the job table (store.rs), the scheduler *)
(* loop that runs due jobs and persists their results (scheduler.rs), and  *)
(* the callers of the job operations: agent tools, gateway and CLI, which  *)
(* may be other processes.                                                 *)
(*                                                                         *)
(* Every store function opens its own connection, and a statement is the   *)
(* unit of atomicity: `update_job` is a read and, later, a write of every  *)
(* column it knows.  Of a row the model keeps what decides when the job    *)
(* runs; command, prompt, name, delivery and the last result are edited by *)
(* the same statements and decide nothing here, and the log of past runs   *)
(* is left out.                                                            *)
(*                                                                         *)
(* Time is a number that advances at any moment.  A cron expression is an  *)
(* interval: its next occurrence is later than the time it is asked for.   *)
(* One that names years is "until": it occurs at every moment up to n and  *)
(* has no next occurrence from n on, which is an error.                    *)
(***************************************************************************)
EXTENDS Integers, FiniteSets, Sequences, SequencesExt

CONSTANTS
  Job,
  NoJob,
  Declared,        \* the ids of [[cron.jobs]] in the configuration
  EnabledDecl,     \* those that are declared as enabled
  Unreadable,      \* rows of an earlier version that map_cron_job_row cannot decode
  FirstSchedule,   \* the schedule with which each job is added or declared
  NewSchedule,     \* the schedules that an edit may set
  Editor,          \* callers of update_job
  max_tasks,
  max_concurrent,
  MaxTime,         \* bound on the time
  MaxEdits,        \* bound on the edits and removals
  MaxFaults        \* bound on the crashes and the failed statements

Schedule == [kind : {"every", "at", "until"}, n : Nat]

ASSUME CronAssumption ==
  /\ IsFiniteSet(Job)
  /\ NoJob \notin Job
  /\ EnabledDecl \subseteq Declared
  /\ Declared \subseteq Job
  /\ Unreadable \subseteq Job \ Declared
  /\ FirstSchedule \in [Job -> Schedule]
  /\ \A j \in Job : FirstSchedule[j].kind = "every" => FirstSchedule[j].n > 0
  /\ NewSchedule \subseteq Schedule
  /\ \A s \in NewSchedule : s.kind = "every" => s.n > 0
  /\ {max_tasks, max_concurrent} \subseteq Nat \ {0}
  /\ {MaxTime, MaxEdits, MaxFaults} \subseteq Nat

VARIABLES
  now,
  jobs,       \* cron_jobs: job -> row
  scheduler,  \* where the scheduler loop is
  unsynced,   \* the declared jobs that the start-up has not yet written
  queue,      \* the jobs of the batch that have not been started
  phase,      \* job -> how far its run is
  snapshot,   \* job -> the row it was drawn with, or read to be disabled
  success,    \* job -> the result of its run
  catch_up,   \* catch_up_on_startup
  editor,     \* caller -> the update_job call it is in
  edits,
  faults,
  passed,     \* job -> polls that passed it over at its present next_run, for jobs that run
  finished,   \* the one-shot jobs whose run was persisted as their last
  paused      \* the jobs that were last asked to pause

vars == <<now, jobs, scheduler, unsynced, queue, phase, snapshot, success, catch_up, editor,
          edits, faults, passed, finished, paused>>

batchVars == <<scheduler, unsynced, queue, phase, snapshot, success, passed>>
ghosts == <<finished, paused>>

-----------------------------------------------------------------------------
(* Rows *)

Row == [state : {"new", "live", "gone"}, enabled : BOOLEAN, schedule : Schedule,
        next_run : Nat, delete_after_run : BOOLEAN]

\* next_run_for_schedule fails if the expression has no occurrence after t ...
HasNext(s, t) == s.kind = "until" => t < s.n

\* ... and is this otherwise.
next_run_for_schedule(s, t) ==
  CASE s.kind = "at" -> s.n [] s.kind = "every" -> t + s.n [] s.kind = "until" -> t + 1

\* A row as add_shell_job, add_agent_job and sync_declarative_jobs insert it.
Inserted(s, enabled, delete) ==
  [state |-> "live", enabled |-> enabled, schedule |-> s,
   next_run |-> next_run_for_schedule(s, now), delete_after_run |-> delete]

\* The id of a job that was never added: an added job gets a fresh one.
Unborn(s) ==
  [state |-> "new", enabled |-> FALSE, schedule |-> s, next_run |-> 0,
   delete_after_run |-> FALSE]

\* A row that was there before, enabled and due; its schedule is never read.
Legacy(s) == [Unborn(s) EXCEPT !.state = "live", !.enabled = TRUE]

live(j) == jobs[j].state = "live"

\* WHERE enabled = 1 AND next_run <= now
due(j) == live(j) /\ jobs[j].enabled /\ jobs[j].next_run <= now

\* No run moves the next_run of these rows: one that cannot be decoded is never run, and
\* after the last occurrence of its expression a job fails to be rescheduled.
Barren(j) == j \in Unreadable \/ ~HasNext(jobs[j].schedule, now)

\* Such rows stay due, and with max_tasks of them before j every poll is filled.
StuckBefore(j) ==
  {i \in Job \ {j} : due(i) /\ Barren(i) /\ jobs[i].next_run <= jobs[j].next_run}
Blocked(j) == Cardinality(StuckBefore(j)) >= max_tasks

active == {j \in Job : phase[j] # "none"}

NoRow == Unborn([kind |-> "at", n |-> 0])
NoEdit == [on |-> NoJob, row |-> NoRow, stale |-> FALSE]

TypeOK ==
  /\ now \in Nat
  /\ jobs \in [Job -> Row]
  /\ scheduler \in {"down", "sync", "catch_up", "poll"}
  /\ unsynced \in SUBSET Declared
  /\ queue \in Seq(Job)
  /\ phase \in [Job -> {"none", "running", "executed", "disabling"}]
  /\ snapshot \in [Job -> Row]
  /\ success \in [Job -> BOOLEAN]
  /\ catch_up \in BOOLEAN
  /\ editor \in [Editor -> [on : Job \cup {NoJob}, row : Row, stale : BOOLEAN]]
  /\ edits \in Nat
  /\ faults \in Nat
  /\ passed \in [Job -> Nat]
  /\ finished \in SUBSET Job
  /\ paused \in SUBSET Job
  /\ \A j \in active \cup ToSet(queue) : snapshot[j].state = "live"
  /\ \A e \in Editor : editor[e].on # NoJob => editor[e].row.state = "live"

Init ==
  /\ now = 0
  /\ jobs = [j \in Job |-> IF j \in Unreadable THEN Legacy(FirstSchedule[j])
                                               ELSE Unborn(FirstSchedule[j])]
  /\ scheduler = "sync"
  /\ unsynced = Declared
  /\ queue = <<>>
  /\ phase = [j \in Job |-> "none"]
  /\ snapshot = [j \in Job |-> NoRow]
  /\ success = [j \in Job |-> FALSE]
  /\ catch_up \in BOOLEAN
  /\ editor = [e \in Editor |-> NoEdit]
  /\ edits = 0
  /\ faults = 0
  /\ passed = [j \in Job |-> 0]
  /\ finished = {}
  /\ paused = {}

\* A write to the row of j: whoever has read it before writes a stale copy back.
Write(j, row) ==
  /\ jobs' = [jobs EXCEPT ![j] = row]
  /\ editor' = [e \in Editor |-> IF editor[e].on = j
                                   THEN [editor[e] EXCEPT !.stale = TRUE]
                                   ELSE editor[e]]

\* A job that gets another next_run waits anew.
CountsKept ==
  passed' = [j \in Job |-> IF jobs'[j].next_run = jobs[j].next_run THEN passed[j] ELSE 0]

-----------------------------------------------------------------------------
(* Start-up: run *)

\* sync_declarative_jobs inserts a declared job, or writes its definition over the row,
\* with a new next_run if the schedule differs.
NeedsNext(j) == live(j) => jobs[j].schedule # FirstSchedule[j]

Synced(j) ==
  LET s == FirstSchedule[j]
      on == j \in EnabledDecl
  IN IF live(j)
       THEN [jobs[j] EXCEPT !.enabled = on, !.schedule = s,
                            !.delete_after_run = s.kind = "at",
                            !.next_run = IF NeedsNext(j) THEN next_run_for_schedule(s, now) ELSE @]
       ELSE Inserted(s, on, s.kind = "at")

\* One declared job at a time, each a statement of its own.
SyncJob(j) ==
  /\ scheduler = "sync"
  /\ j \in unsynced
  /\ NeedsNext(j) => HasNext(FirstSchedule[j], now)
  /\ Write(j, Synced(j))
  /\ unsynced' = unsynced \ {j}
  /\ finished' = finished \ ({j} \cap EnabledDecl)
  /\ paused' = paused \ ({j} \cap EnabledDecl)
  /\ CountsKept
  /\ UNCHANGED <<now, scheduler, queue, phase, snapshot, success, catch_up, edits, faults>>

\* The sync is over, and the loop goes on.
AfterSync ==
  /\ scheduler = "sync"
  /\ scheduler' = IF catch_up THEN "catch_up" ELSE "poll"
  /\ unsynced' = {}
  /\ UNCHANGED <<now, jobs, queue, phase, snapshot, success, catch_up, editor, edits, passed>>
  /\ UNCHANGED ghosts

SyncEnds == AfterSync /\ unsynced = {} /\ UNCHANGED faults

\* A statement fails, or an expression has no next occurrence: the other declared jobs
\* are left as they are, and run only warns.
SyncFails ==
  /\ AfterSync
  /\ \/ unsynced # {} /\ faults < MaxFaults /\ faults' = faults + 1
     \/ /\ \E j \in unsynced : NeedsNext(j) /\ ~HasNext(FirstSchedule[j], now)
        /\ UNCHANGED faults

\* What a query that orders the due rows by next_run and takes n of them may select.
Due == {j \in Job : due(j)}

Draws(n) ==
  { S \in SUBSET Due :
      /\ Cardinality(S) = IF Cardinality(Due) <= n THEN Cardinality(Due) ELSE n
      /\ \A i \in S, k \in Due \ S : jobs[i].next_run <= jobs[k].next_run }

\* The selected rows that can be decoded, in order; the others are skipped.
Decoded(S) ==
  { q \in SetToSeqs(S \ Unreadable) :
      \A a, b \in DOMAIN q : a < b => jobs[q[a]].next_run <= jobs[q[b]].next_run }

\* process_due_jobs takes a batch with the rows as they are now.
TakeBatch(S) ==
  /\ queue' \in Decoded(S)
  /\ snapshot' = [j \in Job |-> IF j \in S \ Unreadable THEN jobs[j] ELSE snapshot[j]]
  /\ passed' = [j \in Job |-> IF ~due(j) \/ j \in S THEN 0
                              ELSE IF Blocked(j) THEN passed[j] ELSE passed[j] + 1]
  /\ UNCHANGED <<now, jobs, unsynced, phase, success, catch_up, editor, edits, faults>>
  /\ UNCHANGED ghosts

\* catch_up_overdue_jobs: every overdue job, without the limit.
CatchUp ==
  /\ scheduler = "catch_up"
  /\ \E S \in Draws(Cardinality(Job)) : TakeBatch(S)
  /\ scheduler' = "poll"

\* Its query fails: the jobs wait for the polls.
CatchUpFails ==
  /\ scheduler = "catch_up"
  /\ faults < MaxFaults
  /\ faults' = faults + 1
  /\ scheduler' = "poll"
  /\ UNCHANGED <<now, jobs, unsynced, queue, phase, snapshot, success, catch_up, editor,
                 edits, passed>>
  /\ UNCHANGED ghosts

\* Mutant: a tick does not wait for the batch before it.
Poll_NoWait ==
  /\ scheduler = "poll"
  /\ Due # {}
  /\ \E S \in Draws(max_tasks) : TakeBatch(S)
  /\ UNCHANGED scheduler

\* A tick of the loop, once the batch before it has been processed.  A tick whose query
\* fails changes nothing.
Poll ==
  /\ scheduler = "poll"
  /\ queue = <<>>
  /\ active = {}
  /\ Due # {}
  /\ \E S \in Draws(max_tasks) : TakeBatch(S)
  /\ UNCHANGED scheduler

-----------------------------------------------------------------------------
(* execute_and_persist_job *)

\* buffer_unordered starts the next job of the batch when there is room.
Start ==
  /\ queue # <<>>
  /\ Cardinality(active) < max_concurrent
  /\ phase' = [phase EXCEPT ![Head(queue)] = "running"]
  /\ queue' = Tail(queue)
  /\ UNCHANGED <<now, jobs, scheduler, unsynced, snapshot, success, catch_up, editor,
                 edits, faults, passed>>
  /\ UNCHANGED ghosts

\* The job has run, with its retries, and its output was delivered; a failed
\* delivery that is not best effort makes the run fail.
Execute(j, ok) ==
  /\ phase[j] = "running"
  /\ success' = [success EXCEPT ![j] = ok]
  /\ phase' = [phase EXCEPT ![j] = "executed"]
  /\ UNCHANGED <<now, jobs, scheduler, unsynced, queue, snapshot, catch_up, editor,
                 edits, faults, passed>>
  /\ UNCHANGED ghosts

is_one_shot_auto_delete(row) == row.delete_after_run /\ row.schedule.kind = "at"

\* The run of j is over: its snapshot and its result are dropped.
Ends(j) ==
  /\ phase' = [phase EXCEPT ![j] = "none"]
  /\ snapshot' = [snapshot EXCEPT ![j] = NoRow]
  /\ success' = [success EXCEPT ![j] = FALSE]

PersistFrame ==
  CountsKept /\ UNCHANGED <<now, scheduler, unsynced, queue, catch_up, edits, paused>>

\* A one-shot job that succeeded is removed; a removed row cannot be removed again.
PersistRemove(j) ==
  /\ phase[j] = "executed"
  /\ is_one_shot_auto_delete(snapshot[j]) /\ success[j]
  /\ IF live(j) THEN Write(j, [jobs[j] EXCEPT !.state = "gone"])
                ELSE UNCHANGED <<jobs, editor>>
  /\ Ends(j)
  /\ finished' = finished \cup {j}
  /\ UNCHANGED faults
  /\ PersistFrame

\* update_job with enabled = false first reads the row; a removed row ends the run.
Disables(j) ==
  /\ IF live(j)
       THEN /\ snapshot' = [snapshot EXCEPT ![j] = jobs[j]]
            /\ phase' = [phase EXCEPT ![j] = "disabling"]
            /\ UNCHANGED success
       ELSE Ends(j)
  /\ UNCHANGED <<jobs, editor, finished>>
  /\ PersistFrame

\* A one-shot job that failed is disabled ...
PersistDisableReads(j) ==
  /\ phase[j] = "executed"
  /\ is_one_shot_auto_delete(snapshot[j]) /\ ~success[j]
  /\ Disables(j)
  /\ UNCHANGED faults

\* ... as is one that remove_job fails to remove although its row is there.
PersistRemoveFails(j) ==
  /\ phase[j] = "executed"
  /\ is_one_shot_auto_delete(snapshot[j]) /\ success[j]
  /\ live(j)
  /\ faults < MaxFaults
  /\ faults' = faults + 1
  /\ Disables(j)

\* update_job then writes every column of the row it read.
PersistDisableWrites(j) ==
  /\ phase[j] = "disabling"
  /\ IF live(j) THEN Write(j, [snapshot[j] EXCEPT !.enabled = FALSE])
                ELSE UNCHANGED <<jobs, editor>>
  /\ Ends(j)
  /\ finished' = finished \cup {j}
  /\ UNCHANGED faults
  /\ PersistFrame

\* Mutant: a one-shot job is rescheduled like any other.
PersistReschedule_KeepsAt(j) ==
  /\ phase[j] = "executed"
  /\ ~is_one_shot_auto_delete(snapshot[j])
  /\ IF live(j) /\ HasNext(snapshot[j].schedule, now)
       THEN Write(j, [jobs[j] EXCEPT
                        !.next_run = next_run_for_schedule(snapshot[j].schedule, now)])
       ELSE UNCHANGED <<jobs, editor>>
  /\ Ends(j)
  /\ finished' = IF snapshot[j].schedule.kind = "at" THEN finished \cup {j} ELSE finished
  /\ UNCHANGED faults
  /\ PersistFrame

\* Mutant: the whole row of the snapshot is written.
PersistReschedule_WholeRow(j) ==
  LET s == snapshot[j].schedule
  IN /\ phase[j] = "executed"
     /\ ~is_one_shot_auto_delete(snapshot[j])
     /\ IF live(j) /\ HasNext(s, now)
          THEN Write(j, IF s.kind = "at"
                          THEN [snapshot[j] EXCEPT !.enabled = FALSE]
                          ELSE [snapshot[j] EXCEPT !.next_run = next_run_for_schedule(s, now)])
          ELSE UNCHANGED <<jobs, editor>>
     /\ Ends(j)
     /\ finished' = IF s.kind = "at" THEN finished \cup {j} ELSE finished
     /\ UNCHANGED faults
     /\ PersistFrame

\* Mutant: only a run that succeeded gets a new next_run.
PersistReschedule_OnSuccess(j) ==
  LET s == snapshot[j].schedule
  IN /\ phase[j] = "executed"
     /\ ~is_one_shot_auto_delete(snapshot[j])
     /\ IF live(j) /\ HasNext(s, now) /\ (success[j] \/ s.kind = "at")
          THEN Write(j, IF s.kind = "at"
                          THEN [jobs[j] EXCEPT !.enabled = FALSE]
                          ELSE [jobs[j] EXCEPT !.next_run = next_run_for_schedule(s, now)])
          ELSE UNCHANGED <<jobs, editor>>
     /\ Ends(j)
     /\ finished' = IF s.kind = "at" THEN finished \cup {j} ELSE finished
     /\ UNCHANGED faults
     /\ PersistFrame

\* Mutant: the run of a job that was removed meanwhile never ends.
PersistReschedule_NeedsRow(j) ==
  /\ phase[j] = "executed"
  /\ ~is_one_shot_auto_delete(snapshot[j])
  /\ live(j)
  /\ IF snapshot[j].schedule.kind = "at"
       THEN Write(j, [jobs[j] EXCEPT !.enabled = FALSE])
       ELSE IF HasNext(snapshot[j].schedule, now)
       THEN Write(j, [jobs[j] EXCEPT
                        !.next_run = next_run_for_schedule(snapshot[j].schedule, now)])
       ELSE UNCHANGED <<jobs, editor>>
  /\ Ends(j)
  /\ finished' = IF snapshot[j].schedule.kind = "at" THEN finished \cup {j} ELSE finished
  /\ UNCHANGED faults
  /\ PersistFrame

\* reschedule_after_run, with the schedule of the snapshot: another one-shot job is
\* disabled, a recurring one gets its next run.  Without a next occurrence nothing is
\* written: the error is logged, and the job is as due as before.
PersistReschedule(j) ==
  LET s == snapshot[j].schedule
  IN /\ phase[j] = "executed"
     /\ ~is_one_shot_auto_delete(snapshot[j])
     /\ IF live(j) /\ HasNext(s, now)
          THEN Write(j, IF s.kind = "at"
                          THEN [jobs[j] EXCEPT !.enabled = FALSE]
                          ELSE [jobs[j] EXCEPT !.next_run = next_run_for_schedule(s, now)])
          ELSE UNCHANGED <<jobs, editor>>
     /\ Ends(j)
     /\ finished' = IF s.kind = "at" THEN finished \cup {j} ELSE finished
     /\ UNCHANGED faults
     /\ PersistFrame

\* A statement fails; the error is logged and the run is over.
PersistFails(j) ==
  /\ phase[j] \in {"executed", "disabling"}
  /\ faults < MaxFaults
  /\ faults' = faults + 1
  /\ Ends(j)
  /\ UNCHANGED <<jobs, editor, finished>>
  /\ PersistFrame

-----------------------------------------------------------------------------
(* The daemon stops and starts; the table stays *)

Crash ==
  /\ scheduler # "down"
  /\ faults < MaxFaults
  /\ faults' = faults + 1
  /\ scheduler' = "down"
  /\ queue' = <<>>
  /\ phase' = [j \in Job |-> "none"]
  /\ snapshot' = [j \in Job |-> NoRow]
  /\ success' = [j \in Job |-> FALSE]
  /\ editor' = [e \in Editor |-> NoEdit]
  /\ unsynced' = {}
  /\ UNCHANGED <<now, jobs, catch_up, edits, passed>>
  /\ UNCHANGED ghosts

Restart ==
  /\ scheduler = "down"
  /\ scheduler' = "sync"
  /\ unsynced' = Declared
  /\ UNCHANGED <<now, jobs, queue, phase, snapshot, success, catch_up, editor, edits,
                 faults, passed>>
  /\ UNCHANGED ghosts

-----------------------------------------------------------------------------
(* The callers of the store *)

CallerFrame ==
  /\ CountsKept
  /\ UNCHANGED <<now, scheduler, unsynced, queue, phase, snapshot, success, catch_up, faults>>

ValidSchedule(s) == HasNext(s, now) /\ (s.kind = "at" => s.n > now)

\* add_shell_job, which marks a one-shot to be deleted after its run, and add_agent_job,
\* which leaves that to the caller
AddJob(j, delete) ==
  /\ j \notin Declared
  /\ jobs[j].state = "new"
  /\ ValidSchedule(FirstSchedule[j])
  /\ jobs' = [jobs EXCEPT ![j] = Inserted(FirstSchedule[j], TRUE, delete)]
  /\ UNCHANGED <<editor, edits>>
  /\ UNCHANGED ghosts
  /\ CallerFrame

\* remove_job: also a row that cannot be decoded
RemoveJob(j) ==
  /\ live(j)
  /\ edits < MaxEdits
  /\ edits' = edits + 1
  /\ Write(j, [jobs[j] EXCEPT !.state = "gone"])
  /\ UNCHANGED ghosts
  /\ CallerFrame

\* Mutant: a removed job is not refused.
EditReads_NoCheck(e, j) ==
  /\ j \notin Unreadable
  /\ editor[e].on = NoJob
  /\ edits < MaxEdits
  /\ edits' = edits + 1
  /\ editor' = [editor EXCEPT ![e] = [on |-> j, row |-> jobs[j], stale |-> FALSE]]
  /\ UNCHANGED jobs
  /\ UNCHANGED ghosts
  /\ CallerFrame

\* update_job reads the row; an error ends it ...
EditReads(e, j) ==
  /\ j \notin Unreadable
  /\ editor[e].on = NoJob
  /\ edits < MaxEdits
  /\ edits' = edits + 1
  /\ live(j)
  /\ editor' = [editor EXCEPT ![e] = [on |-> j, row |-> jobs[j], stale |-> FALSE]]
  /\ UNCHANGED jobs
  /\ UNCHANGED ghosts
  /\ CallerFrame

\* ... patches it and writes it back, if the job is still there.
EditWrites(e, patched) ==
  LET j == editor[e].on
  IN /\ jobs' = IF live(j) THEN [jobs EXCEPT ![j] = patched] ELSE jobs
     /\ editor' = [c \in Editor |->
                    IF c = e THEN NoEdit
                    ELSE IF editor[c].on = j THEN [editor[c] EXCEPT !.stale = TRUE]
                    ELSE editor[c]]
     /\ UNCHANGED edits
     /\ CallerFrame

\* A patch of the other columns, or none.
Amend(e, delete) ==
  /\ editor[e].on # NoJob
  /\ EditWrites(e, [editor[e].row EXCEPT !.delete_after_run = delete])
  /\ IF editor[e].stale
       THEN /\ finished' = finished \ {editor[e].on}
            /\ paused' = paused \ {editor[e].on}
       ELSE UNCHANGED ghosts

Pause(e) ==
  /\ editor[e].on # NoJob
  /\ EditWrites(e, [editor[e].row EXCEPT !.enabled = FALSE])
  /\ paused' = paused \cup {editor[e].on}
  /\ UNCHANGED finished

Resume(e) ==
  /\ editor[e].on # NoJob
  /\ EditWrites(e, [editor[e].row EXCEPT !.enabled = TRUE])
  /\ paused' = paused \ {editor[e].on}
  /\ finished' = finished \ {editor[e].on}

Reschedule(e, s) ==
  /\ editor[e].on # NoJob
  /\ ValidSchedule(s)
  /\ EditWrites(e, [editor[e].row EXCEPT !.schedule = s,
                                         !.next_run = next_run_for_schedule(s, now)])
  /\ IF editor[e].stale
       THEN /\ finished' = finished \ {editor[e].on}
            /\ paused' = paused \ {editor[e].on}
       ELSE UNCHANGED ghosts

Edit(e) ==
  \/ \E delete \in BOOLEAN : Amend(e, delete)
  \/ Pause(e) \/ Resume(e)
  \/ \E s \in NewSchedule : Reschedule(e, s)

Tick ==
  /\ now < MaxTime
  /\ now' = now + 1
  /\ UNCHANGED <<jobs, catch_up, editor, edits, faults>>
  /\ UNCHANGED batchVars
  /\ UNCHANGED ghosts

-----------------------------------------------------------------------------
(* Specification *)

Persist(j) ==
  \/ PersistRemove(j) \/ PersistRemoveFails(j) \/ PersistDisableReads(j)
  \/ PersistDisableWrites(j) \/ PersistReschedule(j) \/ PersistFails(j)

RunJob(j) == Persist(j) \/ \E ok \in BOOLEAN : Execute(j, ok)

Sync == SyncEnds \/ SyncFails \/ \E j \in Job : SyncJob(j)

Next ==
  \/ Sync \/ CatchUp \/ CatchUpFails \/ Poll \/ Start \/ Crash \/ Restart \/ Tick
  \/ \E j \in Job : RunJob(j) \/ RemoveJob(j) \/ \E delete \in BOOLEAN : AddJob(j, delete)
  \/ \E e \in Editor : Edit(e) \/ \E j \in Job : EditReads(e, j)

\* The scheduler goes on while it has work, a job ends (shell commands have a
\* timeout; that an agent job ends is assumed), and the service manager starts a
\* stopped daemon again.
Fairness ==
  /\ WF_vars(Sync) /\ WF_vars(CatchUp) /\ WF_vars(Poll) /\ WF_vars(Start)
  /\ WF_vars(Restart)
  /\ \A j \in Job : WF_vars(RunJob(j))

Spec == Init /\ [][Next]_vars /\ Fairness

-----------------------------------------------------------------------------
(* Properties *)

\* The scheduler never has two runs of one job in hand, nor more runs than
\* max_concurrent, however long a job takes and wherever the daemon restarts: the
\* next batch is only drawn when the last one is over (scheduler.rs:188).
NoOverlap ==
  /\ Cardinality(active) <= max_concurrent
  /\ \A a \in DOMAIN queue : queue[a] \notin active
  /\ \A a, b \in DOMAIN queue : queue[a] = queue[b] => a = b

\* No job starves although a poll takes max_tasks rows only (store.rs:184), unless that
\* many rows before it are stuck: an undecodable row is skipped after it has taken its
\* place in the poll (store.rs:193), and a job past its last occurrence keeps its
\* next_run (store.rs:353).  With fewer of them, a job that stays due at one next_run is
\* passed over at most once for every other job.  A failed statement or a crash leaves
\* one more job due at an old time, the restart gives each declared job its old time
\* back, and so may an update_job that writes a stale row.  A job whose own next_run is
\* changed waits anew.
NoStarvation ==
  \A j \in Job :
    passed[j] <= Cardinality(Job) - 1 + faults * (1 + Cardinality(Declared)) + edits

\* A one-shot job whose run was persisted is not due again (store.rs:339), unless
\* a caller resumes it, the configuration declares it and the daemon restarts, or
\* an update_job that read the row before the run was persisted writes it back.
OneShotStaysDone ==
  \A j \in finished : ~due(j)

\* A job that was paused stays paused, even when it was running at that moment and
\* its result is persisted from the row it was drawn with (scheduler.rs:370).  Only
\* Resume, a restart that declares it, or a stale update_job enables it.
PauseHolds ==
  \A j \in paused : live(j) => ~jobs[j].enabled

\* A job that is due and can be decoded is executed, or stops being due, or ends up
\* behind max_tasks stuck rows: crashes, catch-up, the limits, failing runs and fewer
\* stuck rows delay it, and nothing else loses it.
DueIsServed ==
  \A j \in Job \ Unreadable :
    due(j) ~> (phase[j] = "executed" \/ ~due(j) \/ Blocked(j))
=============================================================================
