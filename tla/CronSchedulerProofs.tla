-------------------------- MODULE CronSchedulerProofs --------------------------
(***************************************************************************)
(* Theorems about CronScheduler, for any jobs, schedules, editors and      *)
(* limits.  The inductive invariant adds to the checked invariants that a  *)
(* scheduler which is not polling has no batch, that jobs in use were      *)
(* added, and that the row an editor has read is current until somebody    *)
(* writes that row.  For NoStarvation it also counts, for each job that    *)
(* polls have passed over, everything that may still be taken before it,   *)
(* but for the rows that no run moves: a poll that takes nothing else is   *)
(* one of those that NoStarvation does not count.                          *)
(***************************************************************************)
EXTENDS CronScheduler, SequenceTheorems, FiniteSetTheorems, TLAPS

IdleBeforePoll == scheduler # "poll" => queue = <<>> /\ active = {}

\* Jobs that are queued, running or being edited have been added.
InUseWasAdded ==
  /\ \A j \in active : jobs[j].state # "new"
  /\ \A a \in DOMAIN queue : jobs[queue[a]].state # "new"
  /\ \A e \in Editor : editor[e].on # NoJob => jobs[editor[e].on].state # "new"

CurrentUnlessStale ==
  \A e \in Editor :
    editor[e].on # NoJob /\ ~editor[e].stale => editor[e].row = jobs[editor[e].on]

\* Jobs that are over or paused have been added, and are disabled if they are there.
Off == \A j \in finished \cup paused :
         jobs[j].state # "new" /\ (live(j) => ~jobs[j].enabled)

IInv == /\ TypeOK /\ NoOverlap /\ IdleBeforePoll
        /\ InUseWasAdded /\ CurrentUnlessStale /\ Off

-----------------------------------------------------------------------------
(* Rows and batches *)

EditorRecord == [on : Job \cup {NoJob}, row : Row, stale : BOOLEAN]

LEMMA ScheduleTypes ==
  ASSUME TypeOK
  PROVE  /\ \A s \in Schedule, t \in Nat : next_run_for_schedule(s, t) \in Nat
         /\ \A s \in Schedule, on \in BOOLEAN, d \in BOOLEAN :
              Inserted(s, on, d) \in Row /\ Inserted(s, on, d).state = "live"
         /\ NoRow \in Row
         /\ FirstSchedule \in [Job -> Schedule]
         /\ NewSchedule \subseteq Schedule
<1>1. \A s \in Schedule, t \in Nat : next_run_for_schedule(s, t) \in Nat
  BY DEF next_run_for_schedule, Schedule
<1>2. \A s \in Schedule, on \in BOOLEAN, d \in BOOLEAN :
        Inserted(s, on, d) \in Row /\ Inserted(s, on, d).state = "live"
  BY <1>1 DEF TypeOK, Inserted, Row
<1>3. NoRow \in Row
  BY DEF NoRow, Unborn, Row, Schedule
<1> QED
  BY <1>1, <1>2, <1>3, CronAssumption

LEMMA RowTypes ==
  ASSUME NEW r \in Row
  PROVE  /\ [r EXCEPT !.state = "gone"] \in Row
         /\ \A b \in BOOLEAN : [r EXCEPT !.enabled = b] \in Row
         /\ \A b \in BOOLEAN : [r EXCEPT !.delete_after_run = b] \in Row
         /\ \A t \in Nat : [r EXCEPT !.next_run = t] \in Row
         /\ \A s \in Schedule, t \in Nat :
              [r EXCEPT !.schedule = s, !.next_run = t] \in Row
         /\ r.schedule \in Schedule
  BY DEF Row

LEMMA WriteTypes ==
  ASSUME TypeOK, NEW j \in Job, NEW r \in Row, Write(j, r)
  PROVE  /\ jobs' \in [Job -> Row]
         /\ editor' \in [Editor -> EditorRecord]
         /\ \A e \in Editor : editor'[e].on = editor[e].on /\ editor'[e].row = editor[e].row
         /\ \A e \in Editor : editor'[e].stale = (editor[e].stale \/ editor[e].on = j)
<1> DEFINE marked(e) == IF editor[e].on = j THEN [editor[e] EXCEPT !.stale = TRUE] ELSE editor[e]
<1>1. \A e \in Editor : editor[e] \in EditorRecord
  BY DEF TypeOK, EditorRecord
<1>2. \A e \in Editor : /\ marked(e) \in EditorRecord
                        /\ marked(e).on = editor[e].on /\ marked(e).row = editor[e].row
                        /\ marked(e).stale = (editor[e].stale \/ editor[e].on = j)
  <2> TAKE e \in Editor
  <2>1. CASE editor[e].on = j
    BY <1>1, <2>1 DEF EditorRecord
  <2>2. CASE editor[e].on # j
    BY <1>1, <2>2 DEF EditorRecord
  <2> QED
    BY <2>1, <2>2
<1>3. editor' = [e \in Editor |-> marked(e)]
  BY DEF Write
<1>4. jobs' \in [Job -> Row]
  BY DEF Write, TypeOK
<1> HIDE DEF marked
<1> QED
  BY <1>2, <1>3, <1>4

\* A poll selects the due rows, or n of them of which none is newer than one that it leaves.
LEMMA DrawProperties ==
  ASSUME TypeOK, NEW n \in Nat, NEW S \in Draws(n)
  PROVE  /\ S \subseteq Due /\ S \subseteq Job /\ IsFiniteSet(S)
         /\ \A i \in S, k \in Due \ S : jobs[i].next_run <= jobs[k].next_run
         /\ Due \ S # {} => Cardinality(S) = n /\ n < Cardinality(Due)
         /\ Due \subseteq Job /\ Cardinality(Due) <= Cardinality(Job)
<1>1. /\ S \subseteq Due /\ Due \subseteq Job
      /\ \A i \in S, k \in Due \ S : jobs[i].next_run <= jobs[k].next_run
      /\ Cardinality(S) = IF Cardinality(Due) <= n THEN Cardinality(Due) ELSE n
  BY DEF Draws, Due
<1>2. IsFiniteSet(Due) /\ IsFiniteSet(S)
  BY <1>1, CronAssumption, FS_Subset
<1>3. Cardinality(Due) \in Nat /\ Cardinality(Due) <= Cardinality(Job)
  BY <1>1, <1>2, CronAssumption, FS_Subset, FS_CardinalityType
<1>4. Cardinality(S) = Cardinality(Due) => S = Due
  BY <1>1, <1>2, FS_Subset
<1>5. Due \ S # {} => Cardinality(S) = n /\ n < Cardinality(Due)
  BY <1>1, <1>3, <1>4
<1> QED
  BY <1>1, <1>2, <1>3, <1>5

\* A batch holds each selected row that can be decoded once.
LEMMA BatchProperties ==
  ASSUME TypeOK, NEW n \in Nat, NEW S \in Draws(n), TakeBatch(S)
  PROVE  /\ queue' \in Seq(Job)
         /\ ToSet(queue') = S \ Unreadable
         /\ \A a \in DOMAIN queue' : queue'[a] \in Job /\ due(queue'[a])
         /\ \A a, b \in DOMAIN queue' : queue'[a] = queue'[b] => a = b
<1> DEFINE T == S \ Unreadable
           N == Cardinality(T)
<1>1. S \subseteq Due /\ S \subseteq Job /\ IsFiniteSet(S)
  BY DrawProperties
<1>2. T \subseteq Job /\ IsFiniteSet(T) /\ N \in Nat
  BY <1>1, FS_Subset, FS_CardinalityType
<1>3. queue' \in SetToSeqs(T)
  BY DEF TakeBatch, Decoded
<1> HIDE DEF T
<1>4. /\ queue' \in [1 .. N -> T]
      /\ \A a, b \in 1 .. N : a # b => queue'[a] # queue'[b]
  BY <1>3 DEF SetToSeqs
<1> HIDE DEF N
<1>5. /\ queue' \in Seq(T)
      /\ DOMAIN queue' = 1 .. N
  BY <1>2, <1>4, IsASeq
<1>6. queue' \in Seq(Job)
  BY <1>2, <1>5, SeqMonotonic
<1>7. queue' \in Surjection(1 .. N, T)
  <2>1. queue' \in Injection(1 .. N, T)
    BY <1>4 DEF Injection, IsInjective
  <2>2. IsFiniteSet(1 .. N) /\ Cardinality(1 .. N) = Cardinality(T)
    BY <1>2, FS_Interval DEF N
  <2> QED
    BY <1>2, <2>1, <2>2, FS_Injection
<1>8. ToSet(queue') = T
  BY <1>4, <1>5, <1>7 DEF Surjection, ToSet
<1>9. \A a \in DOMAIN queue' : queue'[a] \in Job /\ due(queue'[a])
  BY <1>1, <1>4, <1>5 DEF T, Due
<1> QED
  BY <1>4, <1>5, <1>6, <1>8, <1>9 DEF T

-----------------------------------------------------------------------------
(* Types *)

\* The conjuncts of TypeOK about the batch, the rows and the editors.
BatchTypes ==
  /\ scheduler \in {"down", "sync", "catch_up", "poll"}
  /\ unsynced \in SUBSET Declared
  /\ queue \in Seq(Job)
  /\ phase \in [Job -> {"none", "running", "executed", "disabling"}]
  /\ snapshot \in [Job -> Row]
  /\ success \in [Job -> BOOLEAN]
  /\ passed \in [Job -> Nat]
  /\ \A j \in active \cup ToSet(queue) : snapshot[j].state = "live"

TableTypes ==
  /\ jobs \in [Job -> Row]
  /\ editor \in [Editor -> EditorRecord]
  /\ \A e \in Editor : editor[e].on # NoJob => editor[e].row.state = "live"

OtherTypes ==
  /\ now \in Nat
  /\ catch_up \in BOOLEAN
  /\ edits \in Nat
  /\ faults \in Nat
  /\ finished \in SUBSET Job
  /\ paused \in SUBSET Job

LEMMA TypesSplit == TypeOK <=> BatchTypes /\ TableTypes /\ OtherTypes
  BY DEF TypeOK, BatchTypes, TableTypes, OtherTypes, EditorRecord

LEMMA BatchTypeStep ==
  ASSUME TypeOK, NoOverlap, [Next]_vars
  PROVE  BatchTypes'
<1>0. BatchTypes /\ TableTypes
  BY TypesSplit
<1>00. CountsKept \/ UNCHANGED passed => passed' \in [Job -> Nat]
  BY <1>0 DEF CountsKept, BatchTypes
<1>1. ASSUME UNCHANGED <<scheduler, unsynced, queue, phase, snapshot, success>>,
             passed' \in [Job -> Nat]
      PROVE  BatchTypes'
  BY <1>0, <1>1 DEF BatchTypes, active, ToSet
<1>2. ASSUME scheduler' \in {"down", "sync", "catch_up", "poll"},
             unsynced' \in SUBSET Declared,
             UNCHANGED <<queue, phase, snapshot, success>>, passed' \in [Job -> Nat]
      PROVE  BatchTypes'
  BY <1>0, <1>2 DEF BatchTypes, active, ToSet
<1>3. ASSUME NEW n \in Nat, NEW S \in Draws(n), TakeBatch(S),
             scheduler' \in {"down", "sync", "catch_up", "poll"}
      PROVE  BatchTypes'
  <2>1. /\ queue' \in Seq(Job) /\ ToSet(queue') = S \ Unreadable
        /\ \A j \in S : jobs[j].state = "live"
    BY <1>3, BatchProperties, DrawProperties DEF Due, due, live
  <2>2. /\ snapshot' = [j \in Job |-> IF j \in S \ Unreadable THEN jobs[j] ELSE snapshot[j]]
        /\ UNCHANGED <<unsynced, phase, success>>
        /\ passed' \in [Job -> Nat]
    BY <1>0, <1>3 DEF TakeBatch, BatchTypes
  <2>3. snapshot' \in [Job -> Row]
    BY <1>0, <2>2 DEF BatchTypes, TableTypes
  <2>4. active' = active /\ active \subseteq Job /\ S \subseteq Job
    BY <1>3, <2>2, DrawProperties DEF active
  <2>5. \A j \in active \cup (S \ Unreadable) : snapshot'[j].state = "live"
    BY <1>0, <2>1, <2>2, <2>4 DEF BatchTypes
  <2> QED
    BY <1>0, <1>3, <2>1, <2>2, <2>3, <2>4, <2>5 DEF BatchTypes
\* A job's phase moves on, or its run ends.
<1>4. ASSUME NEW j \in Job, phase[j] # "none",
             NEW ph \in {"running", "executed", "disabling"},
             phase' = [phase EXCEPT ![j] = ph],
             success' \in [Job -> BOOLEAN],
             UNCHANGED <<scheduler, unsynced, queue>>, passed' \in [Job -> Nat],
             \/ UNCHANGED snapshot
             \/ live(j) /\ snapshot' = [snapshot EXCEPT ![j] = jobs[j]]
      PROVE  BatchTypes'
  <2>1. active' = active /\ ToSet(queue)' = ToSet(queue)
    BY <1>0, <1>4 DEF BatchTypes, active, ToSet
  <2>2. CASE UNCHANGED snapshot
    BY <1>0, <1>4, <2>1, <2>2 DEF BatchTypes
  <2>3. CASE live(j) /\ snapshot' = [snapshot EXCEPT ![j] = jobs[j]]
    <3>1. /\ snapshot' \in [Job -> Row]
          /\ snapshot'[j].state = "live"
          /\ \A i \in Job : i # j => snapshot'[i] = snapshot[i]
      BY <1>0, <2>3 DEF BatchTypes, TableTypes, live
    <3>2. active \cup ToSet(queue) \subseteq Job
      BY <1>0, ElementOfSeq DEF BatchTypes, active, ToSet
    <3>3. \A i \in active \cup ToSet(queue) : snapshot'[i].state = "live"
      BY <1>0, <3>1, <3>2 DEF BatchTypes
    <3> QED
      BY <1>0, <1>4, <2>1, <3>1, <3>3 DEF BatchTypes
  <2> QED
    BY <1>4, <2>2, <2>3
<1>5. ASSUME NEW j \in Job, phase[j] # "none", Ends(j),
             UNCHANGED <<scheduler, unsynced, queue>>, passed' \in [Job -> Nat]
      PROVE  BatchTypes'
  <2>1. NoRow \in Row
    BY ScheduleTypes
  <2>2. \A a \in DOMAIN queue : queue[a] # j
    BY <1>5 DEF NoOverlap, active
  <2> QED
    BY <1>0, <1>5, <2>1, <2>2 DEF BatchTypes, Ends, active, ToSet
<1>6. ASSUME NEW j \in Job, Disables(j), phase[j] # "none" PROVE BatchTypes'
  <2>1. CASE live(j)
    BY <1>0, <1>00, <1>4, <1>6, <2>1 DEF Disables, PersistFrame, BatchTypes
  <2>2. CASE ~live(j)
    BY <1>00, <1>5, <1>6, <2>2 DEF Disables, PersistFrame
  <2> QED
    BY <2>1, <2>2
<1>7. CASE Start
  <2>1. /\ Head(queue) \in Job /\ Tail(queue) \in Seq(Job)
        /\ ToSet(Tail(queue)) \subseteq ToSet(queue)
        /\ Head(queue) \in ToSet(queue)
    BY <1>0, <1>7, HeadTailProperties, LenProperties DEF Start, BatchTypes, ToSet
  <2>2. active' \subseteq active \cup {Head(queue)}
    BY <1>0, <1>7, <2>1 DEF Start, BatchTypes, active
  <2>3. ToSet(queue)' \subseteq ToSet(queue)
    BY <1>7, <2>1 DEF Start, ToSet
  <2> QED
    BY <1>0, <1>7, <2>1, <2>2, <2>3 DEF Start, BatchTypes
<1>8. CASE Crash
  <2>1. NoRow \in Row
    BY ScheduleTypes
  <2> QED
    BY <1>0, <1>8, <2>1 DEF Crash, BatchTypes, active, ToSet
<1>9. ASSUME NEW j \in Job, RunJob(j) PROVE BatchTypes'
  <2>1. ASSUME NEW ok \in BOOLEAN, Execute(j, ok) PROVE BatchTypes'
    BY <1>0, <1>00, <1>4, <2>1 DEF Execute, BatchTypes
  <2>2. CASE PersistRemove(j) \/ PersistDisableWrites(j) \/ PersistReschedule(j)
               \/ PersistFails(j)
    BY <1>00, <1>5, <2>2
       DEF PersistRemove, PersistDisableWrites, PersistReschedule, PersistFails, PersistFrame
  <2>3. CASE PersistDisableReads(j) \/ PersistRemoveFails(j)
    BY <1>6, <2>3 DEF PersistDisableReads, PersistRemoveFails
  <2> QED
    BY <1>9, <2>1, <2>2, <2>3 DEF RunJob, Persist
<1>10. CASE Sync \/ CatchUpFails \/ Restart
  BY <1>0, <1>00, <1>2, <1>10
     DEF Sync, SyncEnds, SyncFails, AfterSync, SyncJob, CatchUpFails, Restart, BatchTypes
<1>11. CASE CatchUp \/ Poll
  <2>1. Cardinality(Job) \in Nat /\ max_tasks \in Nat
    BY CronAssumption, FS_CardinalityType
  <2> QED
    BY <1>0, <1>3, <1>11, <2>1 DEF CatchUp, Poll, BatchTypes
<1>12. CASE Tick
  BY <1>00, <1>1, <1>12 DEF Tick, batchVars
<1>13. ASSUME NEW j \in Job, RemoveJob(j) \/ \E delete \in BOOLEAN : AddJob(j, delete)
       PROVE  BatchTypes'
  BY <1>00, <1>1, <1>13 DEF AddJob, RemoveJob, CallerFrame
<1>14. ASSUME NEW e \in Editor, Edit(e) \/ \E j \in Job : EditReads(e, j) PROVE BatchTypes'
  BY <1>00, <1>1, <1>14 DEF Edit, Amend, Pause, Resume, Reschedule, EditReads, EditWrites, CallerFrame
<1>15. CASE UNCHANGED vars
  BY <1>00, <1>1, <1>15 DEF vars
<1> QED
  BY <1>7, <1>8, <1>9, <1>10, <1>11, <1>12, <1>13, <1>14, <1>15 DEF Next

\* An added job stays added.
StaysAdded == \A j \in Job : jobs[j].state # "new" => jobs'[j].state # "new"

TableGood == TableTypes' /\ CurrentUnlessStale' /\ StaysAdded

LEMMA WriteStep ==
  ASSUME TypeOK, CurrentUnlessStale,
         NEW j \in Job, NEW r \in Row, r.state # "new", Write(j, r)
  PROVE  TableGood
<1>1. TableTypes
  BY TypesSplit
<1>2. \A i \in Job : jobs'[i] = IF i = j THEN r ELSE jobs[i]
  BY DEF Write, TypeOK
<1>3. TableTypes'
  BY <1>1, WriteTypes DEF TableTypes
<1>4. CurrentUnlessStale'
  BY <1>1, <1>2, WriteTypes DEF CurrentUnlessStale, TableTypes, EditorRecord
<1> QED
  BY <1>2, <1>3, <1>4 DEF StaysAdded, TableGood

\* What an edit writes back was read from a row that was there.
EditRow(e, r) == r \in Row /\ r.state = "live" /\ editor[e].on # NoJob

LEMMA EditRows ==
  ASSUME TypeOK, NEW e \in Editor, editor[e].on # NoJob
  PROVE  /\ editor[e].on \in Job
         /\ \A b \in BOOLEAN : EditRow(e, [editor[e].row EXCEPT !.enabled = b])
         /\ \A b \in BOOLEAN : EditRow(e, [editor[e].row EXCEPT !.delete_after_run = b])
         /\ \A sc \in NewSchedule :
              EditRow(e, [editor[e].row EXCEPT
                            !.schedule = sc, !.next_run = next_run_for_schedule(sc, now)])
<1>1. /\ editor[e].row \in Row /\ editor[e].row.state = "live"
      /\ editor[e].on \in Job
      /\ now \in Nat
  BY DEF TypeOK
<1>2. \A sc \in NewSchedule : sc \in Schedule /\ next_run_for_schedule(sc, now) \in Nat
  BY <1>1, ScheduleTypes
<1> QED
  BY <1>1, <1>2, RowTypes DEF EditRow, Row

LEMMA EditStep ==
  ASSUME TypeOK, CurrentUnlessStale, NEW e \in Editor, NEW r, EditRow(e, r),
         EditWrites(e, r)
  PROVE  TableGood
<1> DEFINE j == editor[e].on
<1>0. /\ TableTypes
      /\ j \in Job /\ r \in Row /\ r.state = "live"
  BY TypesSplit, EditRows DEF EditRow
<1>1. jobs' = IF live(j) THEN [jobs EXCEPT ![j] = r] ELSE jobs
  BY DEF EditWrites
<1> DEFINE next(c) == IF c = e THEN NoEdit
                      ELSE IF editor[c].on = j THEN [editor[c] EXCEPT !.stale = TRUE]
                      ELSE editor[c]
<1>2. editor' = [c \in Editor |-> next(c)]
  BY DEF EditWrites
<1>3. NoEdit \in EditorRecord /\ NoEdit.on = NoJob
  BY ScheduleTypes DEF NoEdit, EditorRecord
<1>4. \A c \in Editor : /\ next(c) \in EditorRecord
                        /\ next(c).on # NoJob =>
                             /\ next(c).on = editor[c].on /\ next(c).row = editor[c].row
                             /\ ~next(c).stale => editor[c].on # j /\ ~editor[c].stale
  <2> TAKE c \in Editor
  <2>1. editor[c] \in EditorRecord
    BY <1>0 DEF TableTypes
  <2>2. CASE c = e
    BY <1>3, <2>2
  <2>3. CASE c # e /\ editor[c].on = j
    BY <2>1, <2>3 DEF EditorRecord
  <2>4. CASE c # e /\ editor[c].on # j
    BY <2>1, <2>4
  <2> QED
    BY <2>2, <2>3, <2>4
<1> HIDE DEF next
<1>5. /\ jobs' \in [Job -> Row]
      /\ \A i \in Job : i # j => jobs'[i] = jobs[i]
      /\ jobs'[j].state # "new" \/ jobs'[j] = jobs[j]
  BY <1>0, <1>1 DEF TableTypes
<1>6. TableTypes'
  BY <1>0, <1>2, <1>4, <1>5 DEF TableTypes
<1>7. CurrentUnlessStale'
  <2> SUFFICES ASSUME NEW c \in Editor, editor'[c].on # NoJob, ~editor'[c].stale
               PROVE  editor'[c].row = jobs'[editor'[c].on]
    BY DEF CurrentUnlessStale
  <2>1. /\ editor'[c].on = editor[c].on /\ editor'[c].row = editor[c].row
        /\ editor[c].on # j /\ ~editor[c].stale /\ editor[c].on # NoJob
    BY <1>2, <1>4
  <2>2. editor[c].on \in Job
    BY <1>0, <2>1 DEF TableTypes, EditorRecord
  <2> QED
    BY <1>5, <2>1, <2>2 DEF CurrentUnlessStale
<1> QED
  BY <1>5, <1>6, <1>7 DEF TableGood, StaysAdded

\* A declared job's row after the sync.
LEMMA SyncedRow ==
  ASSUME TypeOK, NEW j \in Job
  PROVE  /\ Synced(j) \in Row
         /\ Synced(j).state = "live"
         /\ Synced(j).schedule = FirstSchedule[j]
         /\ Synced(j).enabled = (j \in EnabledDecl)
<1> DEFINE s == FirstSchedule[j]
           on == j \in EnabledDecl
           d == s.kind = "at"
           t == IF NeedsNext(j) THEN next_run_for_schedule(s, now) ELSE jobs[j].next_run
<1>1. jobs[j] \in Row /\ s \in Schedule /\ next_run_for_schedule(s, now) \in Nat
      /\ on \in BOOLEAN /\ d \in BOOLEAN
  BY ScheduleTypes DEF TypeOK
<1>2. t \in Nat
  BY <1>1 DEF Row
<1>3. CASE live(j)
  <2>1. Synced(j) = [jobs[j] EXCEPT !.enabled = on, !.schedule = s,
                                    !.delete_after_run = d, !.next_run = t]
    BY <1>3 DEF Synced
  <2> HIDE DEF s, on, d, t
  <2>2. /\ Synced(j) \in Row /\ Synced(j).state = jobs[j].state
        /\ Synced(j).schedule = s /\ Synced(j).enabled = on
    BY <1>1, <1>2, <2>1 DEF Row
  <2> QED
    BY <1>3, <2>2 DEF s, on, live
<1>4. CASE ~live(j)
  <2>1. Synced(j) = Inserted(s, on, d)
    BY <1>4 DEF Synced
  <2>2. Inserted(s, on, d).schedule = s /\ Inserted(s, on, d).enabled = on
    BY DEF Inserted
  <2> HIDE DEF s, on, d
  <2>3. Synced(j) \in Row /\ Synced(j).state = "live"
    BY <1>1, <2>1, ScheduleTypes
  <2> QED
    BY <2>1, <2>2, <2>3 DEF s, on
<1> QED
  BY <1>3, <1>4

\* The rows that the end of a run writes.
LEMMA PersistRows ==
  ASSUME TypeOK, NEW j \in Job
  PROVE  /\ [jobs[j] EXCEPT !.state = "gone"] \in Row
         /\ [jobs[j] EXCEPT !.state = "gone"].state = "gone"
         /\ \A b \in BOOLEAN : /\ [jobs[j] EXCEPT !.enabled = b] \in Row
                               /\ [jobs[j] EXCEPT !.enabled = b].state = jobs[j].state
                               /\ [snapshot[j] EXCEPT !.enabled = b] \in Row
                               /\ [snapshot[j] EXCEPT !.enabled = b].state = snapshot[j].state
         /\ \A r \in Row :
              LET t == next_run_for_schedule(r.schedule, now)
              IN /\ [jobs[j] EXCEPT !.next_run = t] \in Row
                 /\ [jobs[j] EXCEPT !.next_run = t].state = jobs[j].state
<1>1. jobs[j] \in Row /\ snapshot[j] \in Row /\ now \in Nat
  BY DEF TypeOK
<1>2. \A r \in Row : next_run_for_schedule(r.schedule, now) \in Nat
  BY <1>1, ScheduleTypes, RowTypes
<1>3. \A r \in Row : [r EXCEPT !.state = "gone"].state = "gone"
  BY DEF Row
<1>4. \A r \in Row, b \in BOOLEAN : [r EXCEPT !.enabled = b].state = r.state
  BY DEF Row
<1>5. \A r \in Row, t \in Nat : [r EXCEPT !.next_run = t].state = r.state
  BY DEF Row
<1> QED
  BY <1>1, <1>2, <1>3, <1>4, <1>5, RowTypes

LEMMA TableStep ==
  ASSUME TypeOK, CurrentUnlessStale, InUseWasAdded, [Next]_vars
  PROVE  TableGood
<1>0. TableTypes /\ BatchTypes
  BY TypesSplit
<1>1. ASSUME UNCHANGED <<jobs, editor>> PROVE TableGood
  BY <1>0, <1>1 DEF TableGood, TableTypes, CurrentUnlessStale, StaysAdded
<1>2. ASSUME NEW j \in Job, RunJob(j) PROVE TableGood
  <2>1. CASE (\E ok \in BOOLEAN : Execute(j, ok)) \/ PersistDisableReads(j)
               \/ PersistRemoveFails(j) \/ PersistFails(j)
    BY <1>1, <2>1 DEF Execute, PersistDisableReads, PersistRemoveFails, PersistFails, Disables
  <2>2. CASE PersistRemove(j)
    <3>1. CASE live(j)
      BY <2>2, <3>1, PersistRows, WriteStep DEF PersistRemove
    <3>2. CASE ~live(j)
      BY <1>1, <2>2, <3>2 DEF PersistRemove
    <3> QED
      BY <3>1, <3>2
  <2>3. CASE PersistDisableWrites(j)
    <3>1. CASE live(j)
      <4>1. snapshot[j].state = "live"
        BY <1>0, <2>3 DEF PersistDisableWrites, BatchTypes, active
      <4> QED
        BY <2>3, <3>1, <4>1, PersistRows, WriteStep DEF PersistDisableWrites
    <3>2. CASE ~live(j)
      BY <1>1, <2>3, <3>2 DEF PersistDisableWrites
    <3> QED
      BY <3>1, <3>2
  <2>4. CASE PersistReschedule(j)
    <3>1. CASE live(j) /\ HasNext(snapshot[j].schedule, now)
      <4>1. jobs[j].state = "live" /\ snapshot[j] \in Row
        BY <1>0, <3>1 DEF live, BatchTypes
      <4>2. CASE snapshot[j].schedule.kind = "at"
        BY <2>4, <3>1, <4>1, <4>2, PersistRows, WriteStep DEF PersistReschedule
      <4>3. CASE snapshot[j].schedule.kind # "at"
        BY <2>4, <3>1, <4>1, <4>3, PersistRows, WriteStep DEF PersistReschedule
      <4> QED
        BY <4>2, <4>3
    <3>2. CASE ~(live(j) /\ HasNext(snapshot[j].schedule, now))
      BY <1>1, <2>4, <3>2 DEF PersistReschedule
    <3> QED
      BY <3>1, <3>2
  <2> QED
    BY <1>2, <2>1, <2>2, <2>3, <2>4 DEF RunJob, Persist
<1>3. CASE Sync
  <2>1. ASSUME NEW j \in Job, SyncJob(j) PROVE TableGood
    BY <2>1, SyncedRow, WriteStep DEF SyncJob
  <2>2. CASE SyncEnds \/ SyncFails
    BY <1>1, <2>2 DEF SyncEnds, SyncFails, AfterSync
  <2> QED
    BY <1>3, <2>1, <2>2 DEF Sync
<1>4. CASE CatchUp \/ Poll
  BY <1>1, <1>4 DEF CatchUp, Poll, TakeBatch
<1>5. CASE CatchUpFails \/ Start \/ Restart \/ Tick
  BY <1>1, <1>5 DEF CatchUpFails, Start, Restart, Tick
<1>6. CASE Crash
  <2>1. NoEdit \in EditorRecord /\ NoEdit.on = NoJob
    BY ScheduleTypes DEF NoEdit, EditorRecord
  <2> QED
    BY <1>0, <1>6, <2>1 DEF Crash, TableGood, TableTypes, CurrentUnlessStale, StaysAdded
<1>7. ASSUME NEW j \in Job, NEW delete \in BOOLEAN, AddJob(j, delete) PROVE TableGood
  <2> DEFINE r == Inserted(FirstSchedule[j], TRUE, delete)
  <2>1. FirstSchedule[j] \in Schedule
    BY ScheduleTypes
  <2>2. r \in Row /\ r.state = "live"
    BY <2>1, ScheduleTypes
  <2>3. jobs' = [jobs EXCEPT ![j] = r] /\ UNCHANGED editor /\ jobs[j].state = "new"
    BY <1>7 DEF AddJob
  <2>4. \A e \in Editor : editor[e].on # NoJob => editor[e].on \in Job /\ editor[e].on # j
    BY <1>0, <2>3 DEF InUseWasAdded, TableTypes, EditorRecord
  <2> HIDE DEF r
  <2> QED
    BY <1>0, <2>2, <2>3, <2>4 DEF TableGood, TableTypes, CurrentUnlessStale, StaysAdded
<1>8. ASSUME NEW j \in Job, RemoveJob(j) PROVE TableGood
  BY <1>8, PersistRows, WriteStep DEF RemoveJob
<1>9. ASSUME NEW e \in Editor, NEW j \in Job, EditReads(e, j) PROVE TableGood
  <2>1. /\ jobs[j] \in Row /\ jobs[j].state = "live"
        /\ UNCHANGED jobs
        /\ editor' = [editor EXCEPT ![e] = [on |-> j, row |-> jobs[j], stale |-> FALSE]]
    BY <1>0, <1>9 DEF EditReads, live, TableTypes
  <2>2. [on |-> j, row |-> jobs[j], stale |-> FALSE] \in EditorRecord
    BY <2>1 DEF EditorRecord
  <2> QED
    BY <1>0, <2>1, <2>2 DEF TableGood, TableTypes, CurrentUnlessStale, StaysAdded
<1>10. ASSUME NEW e \in Editor, Edit(e) PROVE TableGood
  <2>1. editor[e].on # NoJob
    BY <1>10 DEF Edit, Amend, Pause, Resume, Reschedule
  <2>2. \E r : EditRow(e, r) /\ EditWrites(e, r)
    BY <1>10, <2>1, EditRows DEF Edit, Amend, Pause, Resume, Reschedule
  <2> QED
    BY <2>2, EditStep
<1>11. CASE UNCHANGED vars
  BY <1>1, <1>11 DEF vars
<1> QED
  BY <1>2, <1>3, <1>4, <1>5, <1>6, <1>7, <1>8, <1>9, <1>10, <1>11 DEF Next

LEMMA OtherTypeStep ==
  ASSUME TypeOK, [Next]_vars
  PROVE  OtherTypes'
<1>0. OtherTypes /\ TableTypes /\ Declared \subseteq Job
  BY TypesSplit, CronAssumption
<1>1. CASE \/ Sync \/ CatchUp \/ CatchUpFails \/ Poll \/ Start \/ Crash \/ Restart
           \/ Tick
  BY <1>0, <1>1
     DEF Sync, SyncEnds, SyncFails, AfterSync, SyncJob, CatchUp, CatchUpFails, Poll,
         TakeBatch, Start, Crash, Restart, Tick, ghosts, OtherTypes
<1>2. ASSUME NEW j \in Job, RunJob(j) PROVE OtherTypes'
  BY <1>0, <1>2
     DEF RunJob, Execute, Persist, PersistRemove, PersistRemoveFails, PersistDisableReads,
         PersistDisableWrites, PersistReschedule, PersistFails, Disables, PersistFrame,
         ghosts, OtherTypes
<1>3. ASSUME NEW j \in Job, RemoveJob(j) \/ \E delete \in BOOLEAN : AddJob(j, delete)
      PROVE  OtherTypes'
  <2>1. /\ UNCHANGED <<now, catch_up, faults, finished, paused>>
        /\ edits' = edits \/ edits' = edits + 1
    BY <1>3 DEF AddJob, RemoveJob, CallerFrame, ghosts
  <2> QED
    BY <1>0, <2>1 DEF OtherTypes
<1>4. ASSUME NEW e \in Editor, Edit(e) PROVE OtherTypes'
  <2>1. ASSUME NEW r, EditWrites(e, r) PROVE UNCHANGED <<now, catch_up, edits, faults>>
    BY <2>1 DEF EditWrites, CallerFrame
  <2>2. editor[e].on \in Job \cup {NoJob}
    BY <1>0 DEF TableTypes, EditorRecord
  <2>3. finished' \in SUBSET Job /\ paused' \in SUBSET Job
    BY <1>0, <1>4, <2>2 DEF Edit, Amend, Pause, Resume, Reschedule, ghosts, OtherTypes
  <2> QED
    BY <1>0, <1>4, <2>1, <2>3 DEF Edit, Amend, Pause, Resume, Reschedule, OtherTypes
<1>41. ASSUME NEW e \in Editor, NEW j \in Job, EditReads(e, j) PROVE OtherTypes'
  BY <1>0, <1>41 DEF EditReads, CallerFrame, ghosts, OtherTypes
<1>5. CASE UNCHANGED vars
  BY <1>0, <1>5 DEF vars, OtherTypes
<1> QED
  BY <1>1, <1>2, <1>3, <1>4, <1>41, <1>5 DEF Next

-----------------------------------------------------------------------------
(* The batch *)

LEMMA ActiveFinite ==
  ASSUME TypeOK
  PROVE  /\ active \subseteq Job
         /\ IsFiniteSet(active) /\ Cardinality(active) \in Nat
         /\ max_concurrent \in Nat
  BY CronAssumption, FS_Subset, FS_CardinalityType DEF active

LEMMA OverlapStep ==
  ASSUME TypeOK, NoOverlap, IdleBeforePoll, [Next]_vars
  PROVE  NoOverlap' /\ IdleBeforePoll'
<1>0. /\ phase \in [Job -> {"none", "running", "executed", "disabling"}]
      /\ queue \in Seq(Job)
  BY DEF TypeOK
<1> DEFINE Goal == NoOverlap' /\ IdleBeforePoll'
<1>1. ASSUME UNCHANGED <<scheduler, queue, phase>> PROVE Goal
  BY <1>1 DEF NoOverlap, IdleBeforePoll, active
<1>2. ASSUME scheduler # "poll", UNCHANGED <<queue, phase>> PROVE Goal
  BY <1>2 DEF NoOverlap, IdleBeforePoll, active
<1>3. ASSUME NEW n \in Nat, NEW S \in Draws(n), TakeBatch(S), scheduler' = "poll",
             active = {}
      PROVE  Goal
  <2>1. active' = {}
    BY <1>3 DEF TakeBatch, active
  <2>2. \A a, b \in DOMAIN queue' : queue'[a] = queue'[b] => a = b
    BY <1>3, BatchProperties
  <2> QED
    BY <1>3, <2>1, <2>2, FS_EmptySet, ActiveFinite DEF NoOverlap, IdleBeforePoll
\* The run of an active job goes on or ends.
<1>4. ASSUME NEW j \in Job, phase[j] # "none", UNCHANGED <<scheduler, queue>>,
             \E ph \in {"none", "running", "executed", "disabling"} :
               phase' = [phase EXCEPT ![j] = ph]
      PROVE  Goal
  <2>1. active' \subseteq active /\ j \in active
    BY <1>0, <1>4 DEF active
  <2>2. Cardinality(active') <= Cardinality(active) /\ Cardinality(active') \in Nat
    BY <2>1, ActiveFinite, FS_Subset, FS_CardinalityType
  <2> QED
    BY <1>4, <2>1, <2>2, ActiveFinite DEF NoOverlap, IdleBeforePoll
<1>5. CASE Start
  <2> DEFINE h == Head(queue)
  <2>1. /\ h = queue[1] /\ h \in Job
        /\ Tail(queue) \in Seq(Job)
        /\ DOMAIN queue = 1 .. Len(queue) /\ Len(queue) \in Nat \ {0}
        /\ DOMAIN Tail(queue) = 1 .. (Len(queue) - 1)
        /\ \A a \in 1 .. (Len(queue) - 1) : Tail(queue)[a] = queue[a + 1]
    BY <1>0, <1>5, HeadTailProperties, LenProperties, EmptySeq DEF Start
  <2>2. /\ active' = active \cup {h} /\ queue' = Tail(queue)
        /\ UNCHANGED scheduler
    BY <1>0, <1>5, <2>1 DEF Start, active
  <2>3. h \notin active
    BY <2>1 DEF NoOverlap
  <2>4. Cardinality(active') = Cardinality(active) + 1
    BY <2>2, <2>3, ActiveFinite, FS_AddElement
  <2>5. Cardinality(active') <= max_concurrent
    BY <1>5, <2>4, ActiveFinite DEF Start
  <2>6. \A a \in DOMAIN Tail(queue) : Tail(queue)[a] \notin active \cup {h}
    BY <2>1 DEF NoOverlap
  <2>7. \A a, b \in DOMAIN Tail(queue) : Tail(queue)[a] = Tail(queue)[b] => a = b
    BY <2>1 DEF NoOverlap
  <2>8. IdleBeforePoll'
    BY <1>5, <2>2 DEF IdleBeforePoll, Start
  <2> QED
    BY <2>2, <2>5, <2>6, <2>7, <2>8 DEF NoOverlap
<1>6. CASE Crash
  <2>1. queue' = <<>> /\ active' = {}
    BY <1>6 DEF Crash, active
  <2> QED
    BY <2>1, FS_EmptySet, ActiveFinite DEF NoOverlap, IdleBeforePoll
<1>7. ASSUME NEW j \in Job, RunJob(j) PROVE Goal
  BY <1>4, <1>7
     DEF RunJob, Execute, Persist, PersistRemove, PersistRemoveFails, PersistDisableReads,
         PersistDisableWrites, PersistReschedule, PersistFails, Disables, Ends, PersistFrame
<1>8. CASE Sync \/ CatchUpFails \/ Restart
  BY <1>2, <1>8
     DEF Sync, SyncEnds, SyncFails, AfterSync, SyncJob, CatchUpFails, Restart
<1>9. CASE CatchUp \/ Poll
  <2>1. Cardinality(Job) \in Nat /\ max_tasks \in Nat
    BY CronAssumption, FS_CardinalityType
  <2> QED
    BY <1>3, <1>9, <2>1 DEF CatchUp, Poll, IdleBeforePoll
<1>10. CASE Tick
  BY <1>1, <1>10 DEF Tick, batchVars
<1>11. ASSUME NEW j \in Job, RemoveJob(j) \/ \E delete \in BOOLEAN : AddJob(j, delete)
       PROVE  Goal
  BY <1>1, <1>11 DEF AddJob, RemoveJob, CallerFrame
<1>12. ASSUME NEW e \in Editor, Edit(e) \/ \E j \in Job : EditReads(e, j) PROVE Goal
  BY <1>1, <1>12 DEF Edit, Amend, Pause, Resume, Reschedule, EditReads, EditWrites, CallerFrame
<1>13. CASE UNCHANGED vars
  BY <1>1, <1>13 DEF vars
<1> QED
  BY <1>5, <1>6, <1>7, <1>8, <1>9, <1>10, <1>11, <1>12, <1>13 DEF Next

-----------------------------------------------------------------------------
(* Jobs in use have been added *)

LEMMA InUseStep ==
  ASSUME TypeOK, InUseWasAdded, CurrentUnlessStale, [Next]_vars
  PROVE  InUseWasAdded'
<1>0. /\ phase \in [Job -> {"none", "running", "executed", "disabling"}]
      /\ queue \in Seq(Job) /\ \A a \in DOMAIN queue : queue[a] \in Job
      /\ editor \in [Editor -> EditorRecord]
  BY ElementOfSeq DEF TypeOK, EditorRecord
<1>1. StaysAdded
  BY TableStep DEF TableGood
<1> DEFINE QueueAdded == \A a \in DOMAIN queue' : queue'[a] \in Job /\ jobs[queue'[a]].state # "new"
           PhaseAdded == \A j \in Job : phase'[j] # "none" => jobs[j].state # "new"
           EditAdded == \A e \in Editor : editor'[e].on # NoJob =>
                          editor'[e].on \in Job /\ jobs[editor'[e].on].state # "new"
<1>2. ASSUME QueueAdded, PhaseAdded, EditAdded PROVE InUseWasAdded'
  BY <1>1, <1>2 DEF InUseWasAdded, StaysAdded, active
<1>3. (UNCHANGED queue => QueueAdded) /\ (UNCHANGED phase => PhaseAdded)
      /\ (UNCHANGED editor => EditAdded)
  BY <1>0 DEF InUseWasAdded, active, EditorRecord
<1>4. ASSUME NEW j \in Job, phase[j] # "none",
             \E ph \in {"none", "running", "executed", "disabling"} :
               phase' = [phase EXCEPT ![j] = ph]
      PROVE  PhaseAdded
  BY <1>0, <1>4 DEF InUseWasAdded, active
<1>5. ASSUME NEW j \in Job, NEW r, Write(j, r) PROVE EditAdded
  BY <1>0, <1>5 DEF Write, InUseWasAdded, EditorRecord
<1>6. CASE Sync
  <2>1. EditAdded
    BY <1>3, <1>5, <1>6 DEF Sync, SyncEnds, SyncFails, AfterSync, SyncJob
  <2> QED
    BY <1>2, <1>3, <1>6, <2>1 DEF Sync, SyncEnds, SyncFails, AfterSync, SyncJob
<1>7. CASE CatchUp \/ Poll
  <2>0. PICK n \in Nat : \E S \in Draws(n) : TakeBatch(S)
    BY <1>7, CronAssumption, FS_CardinalityType DEF CatchUp, Poll
  <2>1. PICK S \in Draws(n) : TakeBatch(S)
    BY <2>0
  <2>2. QueueAdded
    BY <2>1, BatchProperties DEF due, live
  <2> QED
    BY <1>2, <1>3, <2>1, <2>2 DEF TakeBatch
<1>8. CASE Start
  <2>1. /\ Head(queue) = queue[1] /\ 1 \in DOMAIN queue
        /\ DOMAIN Tail(queue) = 1 .. (Len(queue) - 1)
        /\ DOMAIN queue = 1 .. Len(queue)
        /\ \A a \in 1 .. (Len(queue) - 1) : Tail(queue)[a] = queue[a + 1]
    BY <1>0, <1>8, HeadTailProperties, LenProperties, EmptySeq DEF Start
  <2>2. Len(queue) \in Nat
    BY <1>0, LenProperties
  <2>3. QueueAdded
    BY <1>0, <1>8, <2>1, <2>2 DEF Start, InUseWasAdded
  <2>4. PhaseAdded
    BY <1>0, <1>8, <2>1 DEF Start, InUseWasAdded, active
  <2> QED
    BY <1>2, <1>3, <1>8, <2>3, <2>4 DEF Start
<1>9. CASE Crash
  <2>1. QueueAdded
    BY <1>9 DEF Crash
  <2>2. PhaseAdded /\ EditAdded
    BY <1>9 DEF Crash, NoEdit
  <2> QED
    BY <1>2, <2>1, <2>2
<1>10. ASSUME NEW j \in Job, RunJob(j) PROVE InUseWasAdded'
  <2>1. PhaseAdded
    BY <1>4, <1>10
       DEF RunJob, Execute, Persist, PersistRemove, PersistRemoveFails, PersistDisableReads,
           PersistDisableWrites, PersistReschedule, PersistFails, Disables, Ends
  <2>2. UNCHANGED queue /\ EditAdded
    BY <1>3, <1>5, <1>10
       DEF RunJob, Execute, Persist, PersistRemove, PersistRemoveFails, PersistDisableReads,
           PersistDisableWrites, PersistReschedule, PersistFails, Disables, PersistFrame
  <2> QED
    BY <1>2, <1>3, <2>1, <2>2
<1>11. CASE CatchUpFails \/ Restart \/ Tick
  BY <1>2, <1>3, <1>11 DEF CatchUpFails, Restart, Tick, batchVars
<1>12. ASSUME NEW j \in Job, RemoveJob(j) \/ \E delete \in BOOLEAN : AddJob(j, delete)
       PROVE  InUseWasAdded'
  BY <1>2, <1>3, <1>5, <1>12 DEF AddJob, RemoveJob, CallerFrame
<1>13. ASSUME NEW e \in Editor, NEW j \in Job, EditReads(e, j) PROVE InUseWasAdded'
  <2>1. EditAdded
    BY <1>0, <1>13 DEF EditReads, InUseWasAdded, live, EditorRecord
  <2> QED
    BY <1>2, <1>3, <1>13, <2>1 DEF EditReads, CallerFrame
<1>14. ASSUME NEW e \in Editor, Edit(e) PROVE InUseWasAdded'
  <2>1. ASSUME NEW r, EditWrites(e, r) PROVE EditAdded /\ UNCHANGED <<queue, phase>>
    BY <1>0, <2>1 DEF EditWrites, CallerFrame, InUseWasAdded, EditorRecord, NoEdit
  <2> QED
    BY <1>2, <1>3, <1>14, <2>1 DEF Edit, Amend, Pause, Resume, Reschedule
<1>15. CASE UNCHANGED vars
  BY <1>2, <1>3, <1>15 DEF vars
<1> QED
  BY <1>6, <1>7, <1>8, <1>9, <1>10, <1>11, <1>12, <1>13, <1>14, <1>15 DEF Next

-----------------------------------------------------------------------------
(* Jobs that are over or paused *)

OffRow(r) == r.state # "new" /\ (r.state = "live" => ~r.enabled)

\* What the end of a run and an edit write over the row of a job that is off.
LEMMA OffRows ==
  ASSUME NEW r \in Row
  PROVE  /\ OffRow([r EXCEPT !.state = "gone"])
         /\ r.state # "new" => OffRow([r EXCEPT !.enabled = FALSE])
         /\ OffRow(r) => /\ \A t \in Nat : OffRow([r EXCEPT !.next_run = t])
                         /\ \A b \in BOOLEAN : OffRow([r EXCEPT !.delete_after_run = b])
                         /\ \A s \in Schedule, t \in Nat :
                              OffRow([r EXCEPT !.schedule = s, !.next_run = t])
  BY DEF OffRow, Row

\* A step that changes the row of j only, and adds at most j to the jobs that are off.
LEMMA OffUpdate ==
  ASSUME TypeOK, Off, NEW j \in Job,
         finished' \cup paused' \subseteq finished \cup paused \cup {j},
         \A i \in Job : i # j => jobs'[i] = jobs[i],
         j \in finished' \cup paused' => OffRow(jobs'[j])
  PROVE  Off'
<1> SUFFICES ASSUME NEW i \in finished' \cup paused' PROVE OffRow(jobs'[i])
  BY DEF Off, OffRow, live
<1>1. i \in Job
  BY DEF TypeOK
<1>2. CASE i = j
  BY <1>2
<1>3. CASE i # j
  BY <1>1, <1>3 DEF Off, OffRow, live
<1> QED
  BY <1>2, <1>3

LEMMA OffRunStep ==
  ASSUME TypeOK, InUseWasAdded, Off, NEW j \in Job, RunJob(j)
  PROVE  Off'
<1>0. /\ jobs \in [Job -> Row] /\ jobs[j] \in Row /\ snapshot[j] \in Row
      /\ now \in Nat
      /\ phase \in [Job -> {"none", "running", "executed", "disabling"}]
  BY DEF TypeOK
<1>1. ASSUME UNCHANGED <<jobs, finished, paused>> PROVE Off'
  BY <1>1 DEF Off, live
<1>2. phase[j] # "none"
  BY DEF RunJob, Persist, Execute, PersistRemove, PersistRemoveFails, PersistDisableReads,
         PersistDisableWrites, PersistReschedule, PersistFails
<1>3. jobs[j].state # "new"
  BY <1>2 DEF InUseWasAdded, active
<1>4. ASSUME ~live(j), UNCHANGED <<jobs, paused>>,
             finished' = finished \cup {j} \/ UNCHANGED finished
      PROVE  Off'
  BY <1>3, <1>4, OffUpdate DEF OffRow, live
<1>5. ASSUME NEW r, Write(j, r), UNCHANGED paused,
             finished' = finished \cup {j} \/ UNCHANGED finished,
             OffRow(r)
      PROVE  Off'
  <2>1. jobs'[j] = r /\ \A i \in Job : i # j => jobs'[i] = jobs[i]
    BY <1>0, <1>5 DEF Write
  <2> QED
    BY <1>5, <2>1, OffUpdate
<1>6. CASE (\E ok \in BOOLEAN : Execute(j, ok)) \/ PersistDisableReads(j)
             \/ PersistRemoveFails(j) \/ PersistFails(j)
  BY <1>1, <1>6
     DEF Execute, PersistDisableReads, PersistRemoveFails, PersistFails, Disables,
         PersistFrame, ghosts
<1>7. CASE PersistRemove(j)
  <2>1. UNCHANGED paused /\ finished' = finished \cup {j}
    BY <1>7 DEF PersistRemove, PersistFrame
  <2>2. CASE live(j)
    BY <1>0, <1>5, <1>7, <2>1, <2>2, OffRows DEF PersistRemove
  <2>3. CASE ~live(j)
    BY <1>4, <1>7, <2>1, <2>3 DEF PersistRemove
  <2> QED
    BY <2>2, <2>3
<1>8. CASE PersistDisableWrites(j)
  <2>1. UNCHANGED paused /\ finished' = finished \cup {j}
    BY <1>8 DEF PersistDisableWrites, PersistFrame
  <2>2. CASE live(j)
    <3>1. snapshot[j].state = "live"
      BY <1>2 DEF TypeOK, active
    <3> QED
      BY <1>0, <1>5, <1>8, <2>1, <2>2, <3>1, OffRows DEF PersistDisableWrites
  <2>3. CASE ~live(j)
    BY <1>4, <1>8, <2>1, <2>3 DEF PersistDisableWrites
  <2> QED
    BY <2>2, <2>3
<1>9. CASE PersistReschedule(j)
  <2> DEFINE s == snapshot[j].schedule
             t == next_run_for_schedule(s, now)
  <2>1. UNCHANGED paused
        /\ finished' = IF s.kind = "at" THEN finished \cup {j} ELSE finished
    BY <1>9 DEF PersistReschedule, PersistFrame
  <2>2. CASE ~live(j)
    BY <1>4, <1>9, <2>1, <2>2 DEF PersistReschedule
  <2>21. CASE live(j) /\ ~HasNext(s, now)
    <3>1. UNCHANGED <<jobs, finished, paused>>
      BY <1>9, <2>1, <2>21 DEF PersistReschedule, HasNext
    <3> QED
      BY <1>1, <3>1
  <2>3. CASE live(j) /\ s.kind = "at"
    <3>1. Write(j, [jobs[j] EXCEPT !.enabled = FALSE])
      BY <1>9, <2>3 DEF PersistReschedule, HasNext
    <3> QED
      BY <1>0, <1>3, <1>5, <2>1, <2>3, <3>1, OffRows
  <2>4. CASE live(j) /\ s.kind # "at" /\ HasNext(s, now)
    <3>1. t \in Nat
      BY <1>0, ScheduleTypes, RowTypes
    <3>2. Write(j, [jobs[j] EXCEPT !.next_run = t]) /\ UNCHANGED <<finished, paused>>
      BY <1>9, <2>1, <2>4 DEF PersistReschedule
    <3>3. /\ jobs'[j] = [jobs[j] EXCEPT !.next_run = t]
          /\ \A i \in Job : i # j => jobs'[i] = jobs[i]
      BY <1>0, <3>2 DEF Write
    <3>4. j \in finished \cup paused => OffRow(jobs[j])
      BY DEF Off, OffRow, live
    <3>5. j \in finished \cup paused => OffRow(jobs'[j])
      BY <1>0, <3>1, <3>3, <3>4, OffRows
    <3> QED
      BY <3>2, <3>3, <3>5, OffUpdate
  <2> QED
    BY <2>2, <2>21, <2>3, <2>4
<1> QED
  BY <1>6, <1>7, <1>8, <1>9 DEF RunJob, Persist

LEMMA OffEditStep ==
  ASSUME TypeOK, InUseWasAdded, CurrentUnlessStale, Off, NEW e \in Editor, Edit(e)
  PROVE  Off'
<1> DEFINE j == editor[e].on
           row == editor[e].row
<1>0. /\ jobs \in [Job -> Row] /\ row \in Row /\ row.state = "live" /\ now \in Nat
      /\ j # NoJob /\ j \in Job
  <2>1. j # NoJob
    BY DEF Edit, Amend, Pause, Resume, Reschedule
  <2> QED
    BY <2>1 DEF TypeOK
<1>1. /\ jobs[j].state # "new"
      /\ ~editor[e].stale => row = jobs[j]
  BY <1>0 DEF InUseWasAdded, CurrentUnlessStale
<1>2. j \in finished \cup paused => OffRow(jobs[j])
  BY DEF Off, OffRow, live
<1> HIDE DEF j, row
\* The row that is written keeps a job off that stays off.
<1>3. ASSUME NEW r,
             jobs' = IF live(j) THEN [jobs EXCEPT ![j] = r] ELSE jobs,
             finished' \cup paused' \subseteq finished \cup paused \cup {j},
             live(j) /\ j \in finished' \cup paused' => OffRow(r)
      PROVE  Off'
  <2>1. \A i \in Job : i # j => jobs'[i] = jobs[i]
    BY <1>0, <1>3
  <2>2. CASE live(j)
    BY <1>0, <1>3, <2>1, <2>2, OffUpdate
  <2>3. CASE ~live(j)
    BY <1>0, <1>1, <1>3, <2>1, <2>3, OffUpdate DEF OffRow, live
  <2> QED
    BY <2>2, <2>3
<1>4. ASSUME NEW r, EditWrites(e, r)
      PROVE  jobs' = IF live(j) THEN [jobs EXCEPT ![j] = r] ELSE jobs
  BY <1>4 DEF EditWrites, j
<1>5. CASE Pause(e)
  <2>1. /\ EditWrites(e, [row EXCEPT !.enabled = FALSE])
        /\ finished' \cup paused' = finished \cup paused \cup {j}
    BY <1>5 DEF Pause, j, row
  <2>2. OffRow([row EXCEPT !.enabled = FALSE])
    BY <1>0, OffRows
  <2> QED
    BY <1>3, <1>4, <2>1, <2>2
<1>6. CASE Resume(e)
  <2>1. /\ EditWrites(e, [row EXCEPT !.enabled = TRUE])
        /\ finished' \cup paused' = (finished \cup paused) \ {j}
    BY <1>6 DEF Resume, j, row
  <2> QED
    BY <1>3, <1>4, <2>1
\* A patch keeps a job off if the row is current, and is forgiven if it is stale.
<1>7. ASSUME NEW r, EditWrites(e, r), OffRow(row) => OffRow(r),
             IF editor[e].stale
               THEN finished' = finished \ {j} /\ paused' = paused \ {j}
               ELSE UNCHANGED <<finished, paused>>
      PROVE  Off'
  <2>1. CASE editor[e].stale
    BY <1>3, <1>4, <1>7, <2>1
  <2>2. CASE ~editor[e].stale
    BY <1>1, <1>2, <1>3, <1>4, <1>7, <2>2
  <2> QED
    BY <2>1, <2>2
<1>8. ASSUME NEW delete \in BOOLEAN, Amend(e, delete) PROVE Off'
  <2> DEFINE r == [row EXCEPT !.delete_after_run = delete]
  <2>1. OffRow(row) => OffRow(r)
    BY <1>0, OffRows
  <2>2. /\ EditWrites(e, r)
        /\ IF editor[e].stale
             THEN finished' = finished \ {j} /\ paused' = paused \ {j}
             ELSE UNCHANGED <<finished, paused>>
    BY <1>8 DEF Amend, ghosts, j, row
  <2> HIDE DEF r
  <2> QED
    BY <1>7, <2>1, <2>2
<1>9. ASSUME NEW s \in NewSchedule, Reschedule(e, s) PROVE Off'
  <2> DEFINE t == next_run_for_schedule(s, now)
             r == [row EXCEPT !.schedule = s, !.next_run = t]
  <2>1. s \in Schedule /\ t \in Nat
    BY <1>0, ScheduleTypes
  <2>2. OffRow(row) => OffRow(r)
    BY <1>0, <2>1, OffRows
  <2>3. /\ EditWrites(e, r)
        /\ IF editor[e].stale
             THEN finished' = finished \ {j} /\ paused' = paused \ {j}
             ELSE UNCHANGED <<finished, paused>>
    BY <1>9 DEF Reschedule, ghosts, j, row
  <2> HIDE DEF r
  <2> QED
    BY <1>7, <2>2, <2>3
<1> QED
  BY <1>5, <1>6, <1>8, <1>9 DEF Edit

LEMMA OffStep ==
  ASSUME TypeOK, InUseWasAdded, CurrentUnlessStale, Off, [Next]_vars
  PROVE  Off'
<1>0. /\ jobs \in [Job -> Row]
      /\ finished \subseteq Job /\ paused \subseteq Job
  BY DEF TypeOK
<1>1. ASSUME UNCHANGED <<jobs, finished, paused>> PROVE Off'
  BY <1>1 DEF Off, live
<1>2. CASE Sync
  <2>1. ASSUME NEW j \in Job, SyncJob(j) PROVE Off'
    <3>1. /\ jobs' = [jobs EXCEPT ![j] = Synced(j)]
          /\ finished' = finished \ ({j} \cap EnabledDecl)
          /\ paused' = paused \ ({j} \cap EnabledDecl)
      BY <2>1 DEF SyncJob, Write
    <3>2. jobs'[j] = Synced(j) /\ \A i \in Job : i # j => jobs'[i] = jobs[i]
      BY <1>0, <3>1
    <3>3. j \in finished' \cup paused' => OffRow(jobs'[j])
      BY <3>1, <3>2, SyncedRow DEF OffRow
    <3> QED
      BY <3>1, <3>2, <3>3, OffUpdate
  <2>2. CASE SyncEnds \/ SyncFails
    BY <1>1, <2>2 DEF SyncEnds, SyncFails, AfterSync, ghosts
  <2> QED
    BY <1>2, <2>1, <2>2 DEF Sync
<1>3. CASE CatchUp \/ Poll
  BY <1>1, <1>3 DEF CatchUp, Poll, TakeBatch, ghosts
<1>4. CASE CatchUpFails \/ Start \/ Crash \/ Restart \/ Tick
  BY <1>1, <1>4 DEF CatchUpFails, Start, Crash, Restart, Tick, ghosts
<1>5. ASSUME NEW j \in Job, RunJob(j) PROVE Off'
  BY <1>5, OffRunStep
<1>6. ASSUME NEW j \in Job, NEW delete \in BOOLEAN, AddJob(j, delete) PROVE Off'
  <2>1. j \notin finished \cup paused
    BY <1>6 DEF AddJob, Off
  <2>2. UNCHANGED <<finished, paused>> /\ \A i \in Job : i # j => jobs'[i] = jobs[i]
    BY <1>0, <1>6 DEF AddJob, ghosts
  <2> QED
    BY <2>1, <2>2, OffUpdate
<1>7. ASSUME NEW j \in Job, RemoveJob(j) PROVE Off'
  <2>1. /\ jobs' = [jobs EXCEPT ![j] = [jobs[j] EXCEPT !.state = "gone"]]
        /\ UNCHANGED <<finished, paused>>
    BY <1>7 DEF RemoveJob, Write, ghosts
  <2>2. jobs'[j] = [jobs[j] EXCEPT !.state = "gone"] /\ jobs[j] \in Row
    BY <1>0, <2>1
  <2>3. \A i \in Job : i # j => jobs'[i] = jobs[i]
    BY <1>0, <2>1
  <2> QED
    BY <2>1, <2>2, <2>3, OffUpdate, OffRows
<1>8. ASSUME NEW e \in Editor, NEW j \in Job, EditReads(e, j) PROVE Off'
  BY <1>1, <1>8 DEF EditReads, ghosts
<1>9. ASSUME NEW e \in Editor, Edit(e) PROVE Off'
  BY <1>9, OffEditStep
<1>10. CASE UNCHANGED vars
  BY <1>1, <1>10 DEF vars
<1> QED
  BY <1>2, <1>3, <1>4, <1>5, <1>6, <1>7, <1>8, <1>9, <1>10 DEF Next

-----------------------------------------------------------------------------
(* Waiting jobs *)

\* The jobs of the batch that is being processed.
InHand == active \cup ToSet(queue)

\* The jobs that a poll would take before j, or together with it, and that a run moves.
Before(j) ==
  {i \in Job \ {j} : /\ live(i) /\ jobs[i].enabled
                     /\ jobs[i].next_run <= jobs[j].next_run
                     /\ ~Barren(i)}

\* Those whose run is in hand with their present schedule: it takes them from before j,
\* unless it is lost.
Fresh(j) == {i \in Before(j) \cap InHand : snapshot[i].schedule = jobs[i].schedule}
Ahead(j) == Before(j) \ Fresh(j)

\* A crash loses the runs in hand: all but the one that made j wait are counted here.
CreditOf(S) == IF S = {} THEN 0 ELSE Cardinality(S) - 1

Load(j) == Cardinality(Ahead(j)) + CreditOf(Fresh(j))

\* The edits that have read a row and may write it back with an old next_run.
Pending == {e \in Editor : editor[e].on # NoJob}

\* The start-up may give every declared job an old next_run.
Restarting ==
  CASE scheduler = "down" -> Cardinality(Declared)
    [] scheduler = "sync" -> Cardinality(unsynced)
    [] OTHER -> 0

Budget == Cardinality(Job) - 1 + faults * (1 + Cardinality(Declared)) + edits

Outstanding(j) ==
  passed[j] + Load(j) + Cardinality(Pending) + Restarting

\* A job that polls have passed over is still due and not in hand, and the jobs that
\* may yet be taken before it fit in what is left of the budget.
Waiting(j) ==
  passed[j] > 0 => /\ jobs[j].next_run <= now
                   /\ j \notin InHand
                   /\ Outstanding(j) <= Budget

PendingCounted == IsFiniteSet(Pending) /\ Cardinality(Pending) <= edits

\* The next run of a recurring job is later than the time it is asked for.
ProperSchedule == {s \in Schedule : s.kind = "every" => s.n > 0}

ProperRows ==
  /\ \A j \in Job : jobs[j].schedule \in ProperSchedule /\ snapshot[j].schedule \in ProperSchedule
  /\ \A e \in Editor : editor[e].row.schedule \in ProperSchedule

StarvationInv == PendingCounted /\ ProperRows /\ \A j \in Job : Waiting(j)

LEMMA Subsets ==
  /\ Cardinality(Job) \in Nat /\ Cardinality(Declared) \in Nat
  /\ \A S \in SUBSET Job : IsFiniteSet(S) /\ Cardinality(S) \in Nat /\ CreditOf(S) \in Nat
  /\ \A S \in SUBSET Job, T \in SUBSET Job :
       S \subseteq T => Cardinality(S) <= Cardinality(T) /\ CreditOf(S) <= CreditOf(T)
  /\ \A S \in SUBSET Job, T \in SUBSET Job :
       /\ Cardinality(S \cup T) <= Cardinality(S) + Cardinality(T)
       /\ S \cap T = {} => Cardinality(S \cup T) = Cardinality(S) + Cardinality(T)
<1>1. \A S \in SUBSET Job : IsFiniteSet(S) /\ Cardinality(S) \in Nat
  BY CronAssumption, FS_Subset, FS_CardinalityType
<1>2. \A S \in SUBSET Job : S = {} \/ Cardinality(S) >= 1
  BY <1>1, FS_EmptySet
<1>3. \A S \in SUBSET Job, T \in SUBSET Job : S \subseteq T => Cardinality(S) <= Cardinality(T)
  BY <1>1, FS_Subset
<1>4. ASSUME NEW S \in SUBSET Job, NEW T \in SUBSET Job
      PROVE  /\ Cardinality(S \cup T) = Cardinality(S) + Cardinality(T) - Cardinality(S \cap T)
             /\ Cardinality(S \cap T) \in Nat
             /\ S \cap T = {} => Cardinality(S \cap T) = 0
  BY <1>1, FS_Union, FS_EmptySet
<1>5. \A S \in SUBSET Job : CreditOf(S) \in Nat
  BY <1>1, <1>2 DEF CreditOf
<1>6. \A S \in SUBSET Job, T \in SUBSET Job : S \subseteq T => CreditOf(S) <= CreditOf(T)
  <2> TAKE S \in SUBSET Job, T \in SUBSET Job
  <2> HAVE S \subseteq T
  <2>1. Cardinality(S) <= Cardinality(T) /\ Cardinality(S) \in Nat /\ Cardinality(T) \in Nat
    BY <1>1, <1>3
  <2>2. CASE S = {}
    BY <1>5, <2>2 DEF CreditOf
  <2>3. CASE S # {}
    BY <2>1, <2>3 DEF CreditOf
  <2> QED
    BY <2>2, <2>3
<1>7. \A S \in SUBSET Job, T \in SUBSET Job :
        /\ Cardinality(S \cup T) <= Cardinality(S) + Cardinality(T)
        /\ S \cap T = {} => Cardinality(S \cup T) = Cardinality(S) + Cardinality(T)
  <2> TAKE S \in SUBSET Job, T \in SUBSET Job
  <2>1. Cardinality(S) \in Nat /\ Cardinality(T) \in Nat
    BY <1>1
  <2>2. /\ Cardinality(S \cup T) = Cardinality(S) + Cardinality(T) - Cardinality(S \cap T)
        /\ Cardinality(S \cap T) \in Nat
        /\ S \cap T = {} => Cardinality(S \cap T) = 0
    BY <1>4
  <2> QED
    BY <2>1, <2>2
<1>8. Cardinality(Job) \in Nat /\ Cardinality(Declared) \in Nat
  BY <1>1, CronAssumption
<1> QED
  BY <1>1, <1>3, <1>5, <1>6, <1>7, <1>8

LEMMA BudgetStep ==
  ASSUME TypeOK
  PROVE  /\ Budget \in Int
         /\ UNCHANGED <<faults, edits>> => Budget' = Budget
         /\ faults' = faults /\ edits' = edits + 1 => Budget' = Budget + 1
         /\ faults' = faults + 1 /\ edits' = edits =>
              Budget' = Budget + 1 + Cardinality(Declared)
<1> DEFINE c == 1 + Cardinality(Declared)
<1>1. /\ faults \in Nat /\ edits \in Nat /\ c \in Nat /\ Cardinality(Job) \in Nat
      /\ Cardinality(Declared) \in Nat
  BY Subsets DEF TypeOK
<1>2. Budget = Cardinality(Job) - 1 + faults * c + edits
  BY DEF Budget
<1>3. Budget' = Cardinality(Job) - 1 + faults' * c + edits'
  BY DEF Budget
<1>4. c = 1 + Cardinality(Declared)
  OBVIOUS
<1> HIDE DEF c
<1>5. \A f \in Nat : f * c \in Nat /\ (f + 1) * c = f * c + c
  BY <1>1, SMT
<1>6. faults * c \in Nat /\ (faults + 1) * c = faults * c + c
  BY <1>1, <1>5
<1> DEFINE fc == faults * c
<1>7. fc \in Nat /\ Budget = Cardinality(Job) - 1 + fc + edits
  BY <1>2, <1>6
<1>9. faults' = faults => Budget' = Cardinality(Job) - 1 + fc + edits'
  BY <1>3
<1>10. faults' = faults + 1 => Budget' = Cardinality(Job) - 1 + (fc + c) + edits'
  BY <1>3, <1>6
<1> HIDE DEF fc
<1>11. Budget \in Int
  BY <1>1, <1>7
<1>12. UNCHANGED <<faults, edits>> => Budget' = Budget
  BY <1>7, <1>9
<1>13. faults' = faults /\ edits' = edits + 1 => Budget' = Budget + 1
  BY <1>1, <1>7, <1>9
<1>14. faults' = faults + 1 /\ edits' = edits => Budget' = Budget + 1 + Cardinality(Declared)
  BY <1>1, <1>4, <1>7, <1>10
<1> QED
  BY <1>11, <1>12, <1>13, <1>14

LEMMA WaitingTypes ==
  ASSUME TypeOK, NEW j \in Job
  PROVE  /\ InHand \subseteq Job /\ Before(j) \subseteq Job \ {j}
         /\ Fresh(j) \subseteq Job /\ Ahead(j) \subseteq Job
         /\ passed[j] \in Nat /\ now \in Nat /\ jobs[j].next_run \in Nat
         /\ Restarting \in Nat /\ Cardinality(unsynced) \in Nat
<1>1. InHand \subseteq Job
  BY ElementOfSeq DEF TypeOK, InHand, active, ToSet
<1>2. jobs[j] \in Row
  BY DEF TypeOK
<1>3. unsynced \in SUBSET Job
  BY CronAssumption DEF TypeOK
<1>4. Cardinality(Declared) \in Nat /\ Cardinality(unsynced) \in Nat
  BY <1>3, Subsets
<1>5. Restarting \in Nat
  BY <1>4 DEF Restarting
<1> QED
  BY <1>1, <1>2, <1>4, <1>5 DEF TypeOK, Before, Fresh, Ahead, Row

LEMMA LoadTypes ==
  ASSUME NEW j \in Job
  PROVE  Load(j) \in Nat /\ Load(j)' \in Nat
<1>1. /\ Ahead(j) \in SUBSET Job /\ Fresh(j) \in SUBSET Job
      /\ Ahead(j)' \in SUBSET Job /\ Fresh(j)' \in SUBSET Job
  BY DEF Ahead, Fresh, Before
<1>2. /\ Cardinality(Ahead(j)) \in Nat /\ CreditOf(Fresh(j)) \in Nat
      /\ Cardinality(Ahead(j)') \in Nat /\ CreditOf(Fresh(j)') \in Nat
  BY <1>1, Subsets
<1> QED
  BY <1>2 DEF Load

\* What comes in front of j is counted, and what is taken in hand was counted before.
LEMMA LoadStep ==
  ASSUME NEW j \in Job, NEW X \in SUBSET Job,
         Ahead(j)' \subseteq Ahead(j) \cup X,
         Fresh(j)' \subseteq Ahead(j) \cup Fresh(j) \cup X
  PROVE  Load(j)' <= Load(j) + Cardinality(X)
<1> DEFINE A == Ahead(j)
           F == Fresh(j)
           A1 == Ahead(j)'
           F1 == Fresh(j)'
           D == F1 \ F
<1>1. /\ A \in SUBSET Job /\ F \in SUBSET Job /\ A1 \in SUBSET Job /\ F1 \in SUBSET Job
      /\ A1 \cap F1 = {} /\ Load(j) = Cardinality(A) + CreditOf(F)
      /\ Load(j)' = Cardinality(A1) + CreditOf(F1)
  BY DEF Ahead, Fresh, Before, Load
<1>2. A1 \subseteq A \cup X /\ F1 \subseteq A \cup F \cup X
  OBVIOUS
<1> HIDE DEF A, F, A1, F1
<1>3. /\ D \in SUBSET Job /\ A1 \cap D = {} /\ F \cap D = {} /\ (A1 \cup D) \subseteq A \cup X
      /\ F1 \subseteq F \cup D
      /\ (A1 \cup D) \in SUBSET Job /\ (A \cup X) \in SUBSET Job /\ (F \cup D) \in SUBSET Job
  BY <1>1, <1>2
<1> HIDE DEF D
<1>4. /\ Cardinality(A1) + Cardinality(D) <= Cardinality(A) + Cardinality(X)
      /\ Cardinality(A1) \in Nat /\ Cardinality(D) \in Nat /\ Cardinality(A) \in Nat
      /\ Cardinality(X) \in Nat /\ Cardinality(F) \in Nat /\ CreditOf(F) \in Nat
      /\ CreditOf(F1) \in Nat
  <2>1. Cardinality(A1 \cup D) = Cardinality(A1) + Cardinality(D)
    BY <1>1, <1>3, Subsets
  <2>2. /\ Cardinality(A1 \cup D) <= Cardinality(A \cup X)
        /\ Cardinality(A \cup X) <= Cardinality(A) + Cardinality(X)
    BY <1>1, <1>3, Subsets
  <2>3. /\ Cardinality(A \cup X) \in Nat /\ Cardinality(A1 \cup D) \in Nat
        /\ Cardinality(A1) \in Nat /\ Cardinality(D) \in Nat /\ Cardinality(A) \in Nat
        /\ Cardinality(X) \in Nat /\ Cardinality(F) \in Nat /\ CreditOf(F) \in Nat
        /\ CreditOf(F1) \in Nat
    BY <1>1, <1>3, Subsets
  <2> QED
    BY <2>1, <2>2, <2>3
<1>5. CreditOf(F1) <= CreditOf(F) + Cardinality(D)
  <2>1. CreditOf(F1) <= CreditOf(F \cup D)
    BY <1>1, <1>3, Subsets
  <2>2. Cardinality(F \cup D) = Cardinality(F) + Cardinality(D) /\ CreditOf(F \cup D) \in Nat
    BY <1>1, <1>3, Subsets
  <2>3. CreditOf(F \cup D) <= CreditOf(F) + Cardinality(D)
    <3>1. CASE F = {}
      BY <1>4, <2>2, <3>1, FS_EmptySet DEF CreditOf
    <3>2. CASE F # {}
      BY <1>4, <2>2, <3>2 DEF CreditOf
    <3> QED
      BY <3>1, <3>2
  <2> QED
    BY <1>4, <2>1, <2>2, <2>3
<1> QED
  BY <1>1, <1>4, <1>5

\* A step that takes no batch: what it brings in front of j, and what it adds to the
\* other sources of delay, is paid for by the budget.
LEMMA WaitingKept ==
  ASSUME TypeOK, PendingCounted, NEW j \in Job, Waiting(j),
         now' \in Nat, IsFiniteSet(Pending'),
         passed'[j] > 0 => passed'[j] = passed[j] /\ jobs'[j].next_run = jobs[j].next_run,
         now' >= now,
         InHand' \subseteq InHand,
         NEW x \in Nat, Load(j)' <= Load(j) + x,
         x + Cardinality(Pending') + Restarting' - Budget'
           <= Cardinality(Pending) + Restarting - Budget,
         Budget' \in Int, Restarting' \in Nat
  PROVE  Waiting(j)'
<1> SUFFICES ASSUME passed'[j] > 0
             PROVE  /\ jobs'[j].next_run <= now' /\ j \notin InHand'
                    /\ Outstanding(j)' <= Budget'
  BY DEF Waiting
<1>1. /\ passed[j] > 0 /\ passed'[j] = passed[j] /\ jobs'[j].next_run = jobs[j].next_run
      /\ jobs[j].next_run <= now /\ j \notin InHand
      /\ Outstanding(j) <= Budget
  BY DEF Waiting
<1>2. /\ passed[j] \in Nat /\ now \in Nat /\ jobs[j].next_run \in Nat /\ Restarting \in Nat
      /\ Load(j) \in Nat /\ Load(j)' \in Nat
  BY WaitingTypes, LoadTypes
<1>3. Cardinality(Pending) \in Nat /\ Cardinality(Pending') \in Nat
  BY FS_CardinalityType DEF PendingCounted
<1>4. Budget \in Int
  BY BudgetStep
<1>5. /\ Outstanding(j)' = passed'[j] + Load(j)' + Cardinality(Pending') + Restarting'
      /\ Outstanding(j) = passed[j] + Load(j) + Cardinality(Pending) + Restarting
  BY DEF Outstanding
<1>6. Outstanding(j)' <= Budget'
  BY <1>1, <1>2, <1>3, <1>4, <1>5
<1> QED
  BY <1>1, <1>2, <1>6

\* What a poll that leaves the due job j takes is older; unless j is blocked, that is at
\* least one job which its run moves.
LEMMA SelectionBefore ==
  ASSUME TypeOK, NEW j \in Job, NEW n \in Nat, n = max_tasks \/ n = Cardinality(Job),
         NEW S \in Draws(n), due(j), j \notin S
  PROVE  /\ S \subseteq Job \ {j}
         /\ \A i \in S : due(i) /\ jobs[i].next_run <= jobs[j].next_run
         /\ ~Blocked(j) => \E i \in S : ~Barren(i)
<1>1. /\ j \in Due \ S /\ S \subseteq Due /\ S \subseteq Job /\ IsFiniteSet(S)
      /\ \A i \in S : jobs[i].next_run <= jobs[j].next_run
      /\ Cardinality(S) = n /\ n < Cardinality(Due) /\ Cardinality(Due) <= Cardinality(Job)
      /\ Due \subseteq Job
  BY DrawProperties DEF Due
<1>2. \A i \in S : due(i)
  BY <1>1 DEF Due
<1>3. Cardinality(S) = max_tasks
  <2>1. Cardinality(Job) \in Nat /\ Cardinality(Due) \in Nat
    BY <1>1, Subsets
  <2> QED
    BY <1>1, <2>1
<1>4. ASSUME \A i \in S : Barren(i) PROVE Blocked(j)
  <2>1. S \subseteq StuckBefore(j) /\ StuckBefore(j) \in SUBSET Job /\ S \in SUBSET Job
    BY <1>1, <1>2, <1>4 DEF StuckBefore
  <2>2. /\ Cardinality(S) <= Cardinality(StuckBefore(j))
        /\ Cardinality(S) \in Nat /\ Cardinality(StuckBefore(j)) \in Nat
    BY <2>1, Subsets
  <2> QED
    BY <1>3, <2>2 DEF Blocked
<1> QED
  BY <1>1, <1>2, <1>4

LEMMA WaitingBatch ==
  ASSUME TypeOK, PendingCounted, NEW j \in Job, Waiting(j),
         active = {}, queue = <<>>,
         NEW n \in Nat, n = max_tasks \/ n = Cardinality(Job),
         NEW S \in Draws(n), TakeBatch(S), scheduler \in {"catch_up", "poll"},
         scheduler' = "poll"
  PROVE  Waiting(j)'
<1> SUFFICES ASSUME passed'[j] > 0 PROVE Waiting(j)'
  BY DEF Waiting
<1>1. /\ due(j) /\ j \notin S
      /\ passed'[j] = IF Blocked(j) THEN passed[j] ELSE passed[j] + 1
      /\ UNCHANGED <<now, jobs, editor, edits, faults, phase>>
      /\ snapshot' = [i \in Job |-> IF i \in S \ Unreadable THEN jobs[i] ELSE snapshot[i]]
  BY DEF TakeBatch
<1>2. /\ S \subseteq Job \ {j}
      /\ \A i \in S : due(i) /\ jobs[i].next_run <= jobs[j].next_run
      /\ ~Blocked(j) => \E i \in S : ~Barren(i)
  BY <1>1, SelectionBefore
<1>3. InHand = {} /\ InHand' = S \ Unreadable
  <2>1. ToSet(<<>>) = {}
    BY DEF ToSet
  <2>2. active' = {}
    BY <1>1 DEF active
  <2> QED
    BY <2>1, <2>2, BatchProperties DEF InHand
<1> DEFINE B == {i \in S : ~Barren(i)}
<1>4. Before(j)' = Before(j)
  BY <1>1 DEF Before, Barren, live
<1>5. /\ B \subseteq Before(j) /\ Before(j) \in SUBSET Job /\ Before(j) \subseteq Job \ {j}
      /\ B \in SUBSET Job /\ (Before(j) \ B) \in SUBSET Job
  BY <1>2 DEF Before, due, live
<1>6. B \subseteq InHand' /\ \A i \in InHand' \cap Before(j) : i \in B
  BY <1>3 DEF Before, Barren
<1>7. \A i \in B : snapshot'[i].schedule = jobs[i].schedule
  BY <1>1, <1>2, <1>3, <1>6
<1>8. Ahead(j) = Before(j) /\ Fresh(j) = {}
  BY <1>3 DEF Ahead, Fresh
<1>9. Fresh(j)' = B
  BY <1>1, <1>4, <1>5, <1>6, <1>7 DEF Fresh
<1>10. Ahead(j)' = Before(j) \ B
  BY <1>4, <1>9 DEF Ahead
<1>11. /\ Pending' = Pending /\ Cardinality(Pending) \in Nat /\ Cardinality(Pending) <= edits
       /\ Budget' = Budget /\ Budget \in Int
       /\ Restarting' = 0 /\ Restarting = 0
       /\ passed[j] \in Nat /\ now \in Nat /\ edits \in Nat
       /\ j \notin InHand' /\ jobs'[j].next_run <= now'
       /\ IsFiniteSet(Pending)
  <2>1. j \notin InHand' /\ jobs'[j].next_run <= now'
    BY <1>1, <1>2, <1>3 DEF due
  <2> QED
    BY <1>1, <2>1, BudgetStep, WaitingTypes, FS_CardinalityType
       DEF Pending, Restarting, PendingCounted, TypeOK
<1>12. /\ Load(j) \in Nat /\ Load(j)' \in Nat
       /\ Outstanding(j) = passed[j] + Load(j) + Cardinality(Pending) + 0
       /\ Outstanding(j)' = passed'[j] + Load(j)' + Cardinality(Pending) + 0
  BY <1>11, LoadTypes DEF Outstanding
<1> HIDE DEF B
<1>13. CASE Blocked(j)
  <2>1. Load(j)' <= Load(j) + Cardinality({})
    BY <1>5, <1>8, <1>9, <1>10, LoadStep
  <2>2. Outstanding(j)' <= Outstanding(j) /\ passed'[j] = passed[j]
    BY <1>1, <1>11, <1>12, <1>13, <2>1, FS_EmptySet
  <2>3. Outstanding(j) <= Budget
    BY <2>2 DEF Waiting
  <2>4. Outstanding(j)' <= Budget' /\ Outstanding(j) \in Int /\ Outstanding(j)' \in Int
    BY <1>11, <1>12, <2>2, <2>3
  <2> QED
    BY <1>11, <2>4 DEF Waiting
<1>14. CASE ~Blocked(j)
  <2>1. /\ Load(j)' <= Cardinality(Before(j)) - 1
        /\ Load(j) = Cardinality(Before(j))
        /\ Cardinality(Before(j)) \in Nat
        /\ Cardinality(Before(j)) <= Cardinality(Job) - 1
        /\ Cardinality(Job) \in Nat
    <3>1. Cardinality(Before(j)) = Cardinality(Before(j) \ B) + Cardinality(B)
      <4>1. (Before(j) \ B) \cup B = Before(j) /\ (Before(j) \ B) \cap B = {}
        BY <1>5
      <4>2. Cardinality((Before(j) \ B) \cup B) = Cardinality(Before(j) \ B) + Cardinality(B)
        BY <1>5, <4>1, Subsets
      <4> QED
        BY <4>1, <4>2
    <3>2. /\ Cardinality(Before(j) \ B) \in Nat /\ Cardinality(B) \in Nat
          /\ Cardinality(Before(j)) \in Nat /\ Cardinality(Job) \in Nat
      BY <1>5, Subsets
    <3>3. B # {} /\ CreditOf(B) = Cardinality(B) - 1 /\ CreditOf({}) = 0
      BY <1>2, <1>14 DEF B, CreditOf
    <3>4. Cardinality(Job \ {j}) = Cardinality(Job) - 1 /\ (Job \ {j}) \in SUBSET Job
      BY CronAssumption, FS_RemoveElement
    <3>5. Cardinality(Before(j)) <= Cardinality(Job \ {j})
      BY <1>5, <3>4, Subsets
    <3>6. /\ Load(j)' = Cardinality(Before(j) \ B) + (Cardinality(B) - 1)
          /\ Load(j) = Cardinality(Before(j)) + 0
      BY <1>8, <1>9, <1>10, <3>3 DEF Load
    <3>7. Cardinality(Before(j)) <= Cardinality(Job) - 1
      BY <3>4, <3>5
    <3> QED
      BY <3>1, <3>2, <3>6, <3>7
  <2>2. passed'[j] = passed[j] + 1
    BY <1>1, <1>14
  <2>3. Outstanding(j)' <= Budget
    <3>1. CASE passed[j] > 0
      <4>1. Outstanding(j) <= Budget
        BY <3>1 DEF Waiting
      <4> QED
        BY <1>11, <1>12, <2>1, <2>2, <4>1
    <3>2. CASE passed[j] = 0
      <4>1. Budget >= Cardinality(Job) - 1 + edits
        <5>1. faults * (1 + Cardinality(Declared)) \in Nat
          BY Subsets DEF TypeOK
        <5> QED
          BY <1>11, <2>1, <5>1 DEF Budget
      <4> QED
        BY <1>11, <1>12, <2>1, <2>2, <3>2, <4>1
    <3> QED
      BY <1>11, <3>1, <3>2
  <2> QED
    BY <1>11, <2>3 DEF Waiting
<1> QED
  BY <1>13, <1>14

\* Counting the edits in progress.
LEMMA PendingSteps ==
  ASSUME TypeOK, PendingCounted, NEW e \in Editor
  PROVE  /\ Cardinality(Pending) \in Nat /\ edits \in Nat
         /\ editor[e].on = NoJob /\ Pending' = Pending \cup {e} =>
              IsFiniteSet(Pending') /\ Cardinality(Pending') = Cardinality(Pending) + 1
         /\ editor[e].on # NoJob /\ Pending' = Pending \ {e} =>
              IsFiniteSet(Pending') /\ Cardinality(Pending') = Cardinality(Pending) - 1
<1>1. IsFiniteSet(Pending) /\ Cardinality(Pending) \in Nat
  BY FS_CardinalityType DEF PendingCounted
<1>2. e \in Pending <=> editor[e].on # NoJob
  BY DEF Pending
<1>3. /\ IsFiniteSet(Pending \cup {e}) /\ IsFiniteSet(Pending \ {e})
      /\ e \notin Pending => Cardinality(Pending \cup {e}) = Cardinality(Pending) + 1
      /\ e \in Pending => Cardinality(Pending \ {e}) = Cardinality(Pending) - 1
  BY <1>1, FS_AddElement, FS_RemoveElement
<1>4. edits \in Nat
  BY DEF TypeOK
<1> QED
  BY <1>1, <1>2, <1>3, <1>4

LEMMA PendingStep ==
  ASSUME TypeOK, PendingCounted, [Next]_vars
  PROVE  PendingCounted'
<1>0. /\ editor \in [Editor -> EditorRecord]
      /\ IsFiniteSet(Pending) /\ Cardinality(Pending) \in Nat /\ edits \in Nat
  BY FS_CardinalityType DEF TypeOK, EditorRecord, PendingCounted
<1>1. ASSUME Pending' = Pending, edits' = edits \/ edits' = edits + 1
      PROVE  PendingCounted'
  BY <1>0, <1>1 DEF PendingCounted
<1>2. ASSUME UNCHANGED editor PROVE Pending' = Pending
  BY <1>2 DEF Pending
<1>3. ASSUME NEW j \in Job, NEW r, Write(j, r) PROVE Pending' = Pending
  BY <1>0, <1>3 DEF Write, Pending, EditorRecord
<1>4. CASE Sync
  BY <1>1, <1>2, <1>3, <1>4 DEF Sync, SyncEnds, SyncFails, AfterSync, SyncJob
<1>5. CASE CatchUp \/ CatchUpFails \/ Poll \/ Start \/ Restart \/ Tick
  BY <1>1, <1>2, <1>5 DEF CatchUp, CatchUpFails, Poll, TakeBatch, Start, Restart, Tick
<1>6. CASE Crash
  <2>1. Pending' = {} /\ edits' = edits
    BY <1>6 DEF Crash, Pending, NoEdit
  <2> QED
    BY <1>0, <2>1, FS_EmptySet DEF PendingCounted
<1>7. ASSUME NEW j \in Job, RunJob(j) PROVE PendingCounted'
  BY <1>1, <1>2, <1>3, <1>7
     DEF RunJob, Execute, Persist, PersistRemove, PersistRemoveFails, PersistDisableReads,
         PersistDisableWrites, PersistReschedule, PersistFails, Disables, PersistFrame
<1>8. ASSUME NEW j \in Job, RemoveJob(j) \/ \E delete \in BOOLEAN : AddJob(j, delete)
      PROVE  PendingCounted'
  BY <1>1, <1>2, <1>3, <1>8 DEF AddJob, RemoveJob
<1>9. ASSUME NEW e \in Editor, NEW j \in Job, EditReads(e, j) PROVE PendingCounted'
  <2>1. editor[e].on = NoJob /\ Pending' = Pending \cup {e} /\ edits' = edits + 1
    <3>1. j # NoJob
      BY CronAssumption
    <3> QED
      BY <1>0, <1>9, <3>1 DEF EditReads, Pending
  <2>2. IsFiniteSet(Pending') /\ Cardinality(Pending') = Cardinality(Pending) + 1
    BY <2>1, PendingSteps
  <2> QED
    BY <1>0, <2>1, <2>2 DEF PendingCounted
<1>10. ASSUME NEW e \in Editor, Edit(e) PROVE PendingCounted'
  <2>1. editor[e].on # NoJob /\ \E r : EditWrites(e, r)
    BY <1>10 DEF Edit, Amend, Pause, Resume, Reschedule
  <2>2. Pending' = Pending \ {e} /\ edits' = edits
    BY <1>0, <2>1 DEF EditWrites, Pending, NoEdit, EditorRecord
  <2>3. IsFiniteSet(Pending') /\ Cardinality(Pending') = Cardinality(Pending) - 1
    BY <2>1, <2>2, PendingSteps
  <2> QED
    BY <1>0, <2>2, <2>3 DEF PendingCounted
<1>11. CASE UNCHANGED vars
  BY <1>1, <1>2, <1>11 DEF vars
<1> QED
  BY <1>4, <1>5, <1>6, <1>7, <1>8, <1>9, <1>10, <1>11 DEF Next

LEMMA ProperRowsStep ==
  ASSUME TypeOK, ProperRows, [Next]_vars
  PROVE  ProperRows'
<1> DEFINE Jobs == \A j \in Job : jobs'[j].schedule \in ProperSchedule
           Snapshots == \A j \in Job : snapshot'[j].schedule \in ProperSchedule
           Editors == \A e \in Editor : editor'[e].row.schedule \in ProperSchedule
<1>0. /\ jobs \in [Job -> Row] /\ snapshot \in [Job -> Row]
      /\ editor \in [Editor -> EditorRecord]
      /\ now \in Nat
  BY DEF TypeOK, EditorRecord
<1>1. /\ NoRow.schedule \in ProperSchedule /\ NoEdit.row.schedule \in ProperSchedule
      /\ \A j \in Job : FirstSchedule[j] \in ProperSchedule
      /\ NewSchedule \subseteq ProperSchedule
  BY CronAssumption DEF NoEdit, NoRow, Unborn, ProperSchedule, Schedule
<1>2. /\ UNCHANGED jobs => Jobs
      /\ UNCHANGED snapshot => Snapshots
      /\ UNCHANGED editor => Editors
  BY DEF ProperRows
<1>3. ASSUME Jobs, Snapshots, Editors PROVE ProperRows'
  BY <1>3 DEF ProperRows
<1>4. ASSUME NEW j \in Job, NEW r \in Row, r.schedule \in ProperSchedule, Write(j, r)
      PROVE  Jobs /\ Editors
  <2>1. Editors
    BY <1>4, WriteTypes DEF ProperRows
  <2>2. Jobs
    BY <1>0, <1>4 DEF Write, ProperRows
  <2> QED
    BY <2>1, <2>2
<1>5. ASSUME NEW j \in Job, Ends(j) PROVE Snapshots
  BY <1>0, <1>1, <1>5 DEF Ends, ProperRows
<1>6. ASSUME NEW j \in Job, Disables(j) PROVE Snapshots
  BY <1>0, <1>5, <1>6 DEF Disables, ProperRows
<1>7. CASE Sync
  <2>1. ASSUME NEW j \in Job, SyncJob(j) PROVE ProperRows'
    <3>1. Jobs /\ Editors
      BY <1>1, <1>4, <2>1, SyncedRow DEF SyncJob
    <3> QED
      BY <1>2, <1>3, <2>1, <3>1 DEF SyncJob
  <2>2. CASE SyncEnds \/ SyncFails
    BY <1>2, <1>3, <2>2 DEF SyncEnds, SyncFails, AfterSync
  <2> QED
    BY <1>7, <2>1, <2>2 DEF Sync
<1>8. CASE CatchUp \/ Poll
  <2>1. UNCHANGED <<jobs, editor>> /\ \A j \in Job : snapshot'[j] \in {jobs[j], snapshot[j]}
    BY <1>8 DEF CatchUp, Poll, TakeBatch
  <2>2. Snapshots
    BY <2>1 DEF ProperRows
  <2> QED
    BY <1>2, <1>3, <2>1, <2>2
<1>9. CASE CatchUpFails \/ Start \/ Restart \/ Tick
  BY <1>2, <1>3, <1>9 DEF CatchUpFails, Start, Restart, Tick, batchVars
<1>10. CASE Crash
  <2>1. Snapshots /\ Editors
    BY <1>1, <1>10 DEF Crash
  <2> QED
    BY <1>2, <1>3, <1>10, <2>1 DEF Crash
<1>11. ASSUME NEW j \in Job, RunJob(j) PROVE ProperRows'
  <2>1. CASE \E ok \in BOOLEAN : Execute(j, ok)
    BY <1>2, <1>3, <2>1 DEF Execute
  <2>2. CASE PersistDisableReads(j) \/ PersistRemoveFails(j)
    BY <1>2, <1>3, <1>6, <2>2 DEF PersistDisableReads, PersistRemoveFails, Disables
  <2>3. CASE PersistFails(j)
    BY <1>2, <1>3, <1>5, <2>3 DEF PersistFails
  <2>4. jobs[j] \in Row /\ snapshot[j] \in Row
        /\ jobs[j].schedule \in ProperSchedule /\ snapshot[j].schedule \in ProperSchedule
    BY <1>0 DEF ProperRows
  <2>5. CASE PersistRemove(j)
    <3>1. /\ [jobs[j] EXCEPT !.state = "gone"] \in Row
          /\ [jobs[j] EXCEPT !.state = "gone"].schedule = jobs[j].schedule
      BY <2>4 DEF Row
    <3>2. Jobs /\ Editors
      BY <1>2, <1>4, <2>4, <2>5, <3>1 DEF PersistRemove
    <3> QED
      BY <1>3, <1>5, <2>5, <3>2 DEF PersistRemove
  <2>6. CASE PersistDisableWrites(j)
    <3>1. /\ [snapshot[j] EXCEPT !.enabled = FALSE] \in Row
          /\ [snapshot[j] EXCEPT !.enabled = FALSE].schedule = snapshot[j].schedule
      BY <2>4 DEF Row
    <3>2. Jobs /\ Editors
      BY <1>2, <1>4, <2>4, <2>6, <3>1 DEF PersistDisableWrites
    <3> QED
      BY <1>3, <1>5, <2>6, <3>2 DEF PersistDisableWrites
  <2>7. CASE PersistReschedule(j)
    <3> DEFINE t == next_run_for_schedule(snapshot[j].schedule, now)
    <3>1. t \in Nat
      BY <1>0, <2>4, ScheduleTypes, RowTypes
    <3> HIDE DEF t
    <3>2. /\ [jobs[j] EXCEPT !.enabled = FALSE] \in Row
          /\ [jobs[j] EXCEPT !.enabled = FALSE].schedule = jobs[j].schedule
          /\ [jobs[j] EXCEPT !.next_run = t] \in Row
          /\ [jobs[j] EXCEPT !.next_run = t].schedule = jobs[j].schedule
      BY <2>4, <3>1 DEF Row
    <3>3. Jobs /\ Editors
      <4>1. CASE ~(live(j) /\ HasNext(snapshot[j].schedule, now))
        BY <1>2, <2>7, <4>1 DEF PersistReschedule
      <4>2. CASE live(j) /\ HasNext(snapshot[j].schedule, now)
        <5>1. \/ Write(j, [jobs[j] EXCEPT !.enabled = FALSE])
              \/ Write(j, [jobs[j] EXCEPT !.next_run = t])
          BY <2>7, <4>2 DEF PersistReschedule, t
        <5> QED
          BY <1>4, <2>4, <3>2, <5>1
      <4> QED
        BY <4>1, <4>2
    <3> QED
      BY <1>3, <1>5, <2>7, <3>3 DEF PersistReschedule
  <2> QED
    BY <1>11, <2>1, <2>2, <2>3, <2>5, <2>6, <2>7 DEF RunJob, Persist
<1>12. ASSUME NEW j \in Job, NEW delete \in BOOLEAN, AddJob(j, delete) PROVE ProperRows'
  <2>1. Inserted(FirstSchedule[j], TRUE, delete).schedule = FirstSchedule[j]
    BY DEF Inserted
  <2>2. Jobs
    BY <1>0, <1>1, <1>12, <2>1 DEF AddJob, ProperRows
  <2> QED
    BY <1>2, <1>3, <1>12, <2>2 DEF AddJob, CallerFrame
<1>13. ASSUME NEW j \in Job, RemoveJob(j) PROVE ProperRows'
  <2>1. /\ [jobs[j] EXCEPT !.state = "gone"] \in Row
        /\ [jobs[j] EXCEPT !.state = "gone"].schedule = jobs[j].schedule
    BY <1>0 DEF Row
  <2>2. Jobs /\ Editors
    BY <1>4, <1>13, <2>1 DEF RemoveJob, ProperRows
  <2> QED
    BY <1>2, <1>3, <1>13, <2>2 DEF RemoveJob, CallerFrame
<1>14. ASSUME NEW e \in Editor, NEW j \in Job, EditReads(e, j) PROVE ProperRows'
  <2>1. Editors
    BY <1>0, <1>14 DEF EditReads, ProperRows
  <2> QED
    BY <1>2, <1>3, <1>14, <2>1 DEF EditReads, CallerFrame
<1>15. ASSUME NEW e \in Editor, Edit(e) PROVE ProperRows'
  <2>1. PICK r : EditWrites(e, r) /\ r.schedule \in ProperSchedule
    <3>1. editor[e].row \in Row /\ editor[e].row.schedule \in ProperSchedule
      BY <1>0 DEF ProperRows, EditorRecord
    <3>2. \A b \in BOOLEAN : [editor[e].row EXCEPT !.enabled = b].schedule = editor[e].row.schedule
      BY <3>1 DEF Row
    <3>3. \A s \in NewSchedule, t \in Nat :
            [editor[e].row EXCEPT !.schedule = s, !.next_run = t].schedule = s
      BY <3>1 DEF Row
    <3>4. \A s \in NewSchedule : next_run_for_schedule(s, now) \in Nat
      BY <1>0, ScheduleTypes
    <3>5. CASE \E delete \in BOOLEAN : Amend(e, delete)
      <4>1. PICK delete \in BOOLEAN : EditWrites(e, [editor[e].row EXCEPT !.delete_after_run = delete])
        BY <3>5 DEF Amend
      <4>2. [editor[e].row EXCEPT !.delete_after_run = delete].schedule = editor[e].row.schedule
        BY <3>1 DEF Row
      <4> QED
        BY <3>1, <4>1, <4>2
    <3>6. CASE Pause(e) \/ Resume(e)
      <4>1. PICK b \in BOOLEAN : EditWrites(e, [editor[e].row EXCEPT !.enabled = b])
        BY <3>6 DEF Pause, Resume
      <4> QED
        BY <3>1, <3>2, <4>1
    <3>7. CASE \E s \in NewSchedule : Reschedule(e, s)
      <4>1. PICK s \in NewSchedule : Reschedule(e, s)
        BY <3>7
      <4> DEFINE r == [editor[e].row EXCEPT
                         !.schedule = s, !.next_run = next_run_for_schedule(s, now)]
      <4>2. EditWrites(e, r)
        BY <4>1 DEF Reschedule
      <4>3. r.schedule = s
        BY <3>3, <3>4
      <4> HIDE DEF r
      <4> QED
        BY <1>1, <4>2, <4>3
    <3> QED
      BY <1>15, <3>5, <3>6, <3>7 DEF Edit
  <2>2. Jobs
    BY <1>0, <2>1 DEF EditWrites, ProperRows
  <2>3. Editors
    BY <1>0, <1>1, <2>1 DEF EditWrites, ProperRows, EditorRecord
  <2> QED
    BY <1>2, <1>3, <2>1, <2>2, <2>3 DEF EditWrites, CallerFrame
<1>16. CASE UNCHANGED vars
  BY <1>2, <1>3, <1>16 DEF vars
<1> QED
  BY <1>7, <1>8, <1>9, <1>10, <1>11, <1>12, <1>13, <1>14, <1>15, <1>16 DEF Next

\* A step that touches at most k among the jobs and the batch: at most k comes in front
\* of j, and time only leaves more rows without a next occurrence.
LEMMA BeforeStep ==
  ASSUME TypeOK, NEW j \in Job, NEW k \in Job,
         now' \in Nat, now' >= now, jobs'[j].next_run = jobs[j].next_run,
         \A i \in Job \ {k} : jobs'[i] = jobs[i] /\ snapshot'[i] = snapshot[i],
         InHand' \ {k} = InHand \ {k}
  PROVE  /\ Before(j)' \subseteq Before(j) \cup {k}
         /\ Fresh(j)' \subseteq Fresh(j) \cup {k}
         /\ Ahead(j)' \subseteq Ahead(j) \cup {k}
<1>1. \A i \in Job \ {k} : Barren(i) => Barren(i)'
  <2> SUFFICES ASSUME NEW i \in Job \ {k}, ~HasNext(jobs[i].schedule, now)
               PROVE  ~HasNext(jobs'[i].schedule, now')
    BY DEF Barren
  <2>1. jobs[i].schedule.n \in Nat /\ now \in Nat
    BY DEF TypeOK, Row, Schedule
  <2> QED
    BY <2>1 DEF HasNext
<1>2. Before(j)' \subseteq Before(j) \cup {k}
  BY <1>1 DEF Before, live
<1>3. \A i \in Before(j)' \ {k} : (i \in Fresh(j)') <=> (i \in Fresh(j))
  BY <1>2 DEF Fresh, Before
<1> QED
  BY <1>2, <1>3 DEF Ahead, Fresh

\* Such a step is paid for, or leaves k no nearer than it was.
LEMMA WaitingRow ==
  ASSUME TypeOK, PendingCounted, NEW j \in Job, Waiting(j),
         passed'[j] = passed[j], jobs'[j].next_run = jobs[j].next_run,
         now' \in Nat, now' >= now, NEW k \in Job,
         \A i \in Job \ {k} : jobs'[i] = jobs[i] /\ snapshot'[i] = snapshot[i],
         InHand' \ {k} = InHand \ {k}, InHand' \subseteq InHand,
         IsFiniteSet(Pending'), Restarting' \in Nat, Budget' \in Int,
         NEW x \in {0, 1},
         x + Cardinality(Pending') + Restarting' - Budget'
           <= Cardinality(Pending) + Restarting - Budget,
         \/ x = 1
         \/ k \notin Before(j)'
         \/ (k \in Ahead(j)' => k \in Ahead(j)) /\ (k \in Fresh(j)' => k \in Before(j))
  PROVE  Waiting(j)'
<1>1. /\ Before(j)' \subseteq Before(j) \cup {k}
      /\ Fresh(j)' \subseteq Fresh(j) \cup {k}
      /\ Ahead(j)' \subseteq Ahead(j) \cup {k}
  BY BeforeStep
<1>2. Load(j)' <= Load(j) + x
  <2>1. CASE x = 1
    <3>1. {k} \in SUBSET Job /\ Cardinality({k}) = 1
      BY FS_Singleton
    <3>2. Fresh(j)' \subseteq Ahead(j) \cup Fresh(j) \cup {k}
      BY <1>1
    <3>3. Load(j)' <= Load(j) + Cardinality({k})
      BY <1>1, <3>1, <3>2, LoadStep
    <3> QED
      BY <2>1, <3>1, <3>3
  <2>2. CASE \/ k \notin Before(j)'
             \/ (k \in Ahead(j)' => k \in Ahead(j)) /\ (k \in Fresh(j)' => k \in Before(j))
    <3>1. Ahead(j)' \subseteq Ahead(j) \cup {} /\ Fresh(j)' \subseteq Ahead(j) \cup Fresh(j) \cup {}
      BY <1>1, <2>2 DEF Ahead, Fresh
    <3>2. {} \in SUBSET Job /\ Cardinality({}) = 0
      BY FS_EmptySet
    <3>3. Load(j)' <= Load(j) + Cardinality({})
      BY <3>1, <3>2, LoadStep
    <3>4. Load(j) \in Nat /\ Load(j)' \in Nat
      BY LoadTypes
    <3> QED
      BY <3>2, <3>3, <3>4
  <2> QED
    BY <2>1, <2>2
<1> QED
  BY <1>2, WaitingKept

\* The end of the run of k: unless its write failed, k is not due at an old time, or it is
\* stuck, or it has another schedule than the one it was run with.
LEMMA WaitingRunEnds ==
  ASSUME TypeOK, NoOverlap, PendingCounted, NEW j \in Job, Waiting(j),
         passed'[j] > 0, passed'[j] = passed[j], jobs'[j].next_run = jobs[j].next_run,
         jobs' \in [Job -> Row], NEW k \in Job, phase[k] # "none", Ends(k),
         UNCHANGED <<now, queue, scheduler, unsynced, edits>>, Pending' = Pending,
         \A i \in Job : i # k => jobs'[i] = jobs[i],
         \/ /\ UNCHANGED faults
            /\ \/ jobs'[k].state # "live" \/ ~jobs'[k].enabled
               \/ jobs'[k].next_run > now
               \/ jobs'[k] = jobs[k] /\ ~HasNext(snapshot[k].schedule, now)
         \/ faults' = faults + 1
  PROVE  Waiting(j)'
<1>1. InHand' = InHand \ {k} /\ k \in InHand
  <2>1. active' = active \ {k}
    BY DEF Ends, TypeOK, active
  <2>2. k \notin ToSet(queue)
    BY DEF NoOverlap, active, ToSet
  <2> QED
    BY <2>1, <2>2 DEF InHand, active
<1>2. /\ jobs[j].next_run <= now /\ now \in Nat
      /\ Restarting' = Restarting /\ Restarting \in Nat
      /\ Budget \in Int /\ Budget' \in Int /\ Budget' >= Budget
      /\ faults' = faults + 1 => Budget' >= Budget + 1
      /\ IsFiniteSet(Pending) /\ Cardinality(Pending) \in Nat
  <2>1. jobs[j].next_run <= now /\ now \in Nat /\ Restarting \in Nat
    BY WaitingTypes DEF Waiting
  <2>2. Restarting' = Restarting
    BY DEF Restarting
  <2>3. Cardinality(Declared) \in Nat
    BY Subsets
  <2>4. IsFiniteSet(Pending) /\ Cardinality(Pending) \in Nat
    BY FS_CardinalityType DEF PendingCounted
  <2>5. Budget \in Int /\ (Budget' = Budget \/ Budget' = Budget + 1 + Cardinality(Declared))
    BY BudgetStep
  <2>6. faults' = faults + 1 => Budget' = Budget + 1 + Cardinality(Declared)
    BY BudgetStep
  <2> QED
    BY <2>1, <2>2, <2>3, <2>4, <2>5, <2>6
<1>3. /\ now' \in Nat /\ now' >= now /\ IsFiniteSet(Pending')
      /\ InHand' \subseteq InHand /\ InHand' \ {k} = InHand \ {k}
      /\ Restarting' \in Nat
      /\ \A i \in Job \ {k} : jobs'[i] = jobs[i] /\ snapshot'[i] = snapshot[i]
  BY <1>1, <1>2 DEF Ends, TypeOK
<1>4. CASE faults' = faults + 1
  <2>1. 1 \in {0, 1} /\ 1 + Cardinality(Pending') + Restarting' - Budget'
                          <= Cardinality(Pending) + Restarting - Budget
    BY <1>2, <1>4
  <2> QED
    BY <1>2, <1>3, <2>1, WaitingRow
<1>5. 0 \in {0, 1} /\ 0 + Cardinality(Pending') + Restarting' - Budget'
                        <= Cardinality(Pending) + Restarting - Budget
  BY <1>2
<1>6. CASE \/ jobs'[k].state # "live" \/ ~jobs'[k].enabled \/ jobs'[k].next_run > now
  <2>1. k \notin Before(j)'
    <3>1. jobs'[j].next_run <= now /\ jobs'[j].next_run \in Nat
      BY <1>2, WaitingTypes
    <3>2. CASE jobs'[k].next_run > now
      <4> SUFFICES ASSUME jobs'[k].next_run <= jobs'[j].next_run PROVE FALSE
        BY DEF Before
      <4>1. jobs'[k].next_run \in Nat
        BY DEF Row
      <4> QED
        BY <1>2, <3>1, <3>2, <4>1
    <3> QED
      BY <1>6, <3>2 DEF Before, live
  <2> QED
    BY <1>2, <1>3, <1>5, <2>1, WaitingRow
<1>7. CASE jobs'[k] = jobs[k] /\ ~HasNext(snapshot[k].schedule, now)
  <2>1. k \notin Fresh(j)'
    BY <1>1 DEF Fresh
  <2>2. k \in Before(j)' => k \in Before(j)
    BY <1>7 DEF Before, Barren, live
  <2>3. k \notin Fresh(j)
    BY <1>7 DEF Fresh, Before, Barren
  <2>4. (k \in Ahead(j)' => k \in Ahead(j)) /\ (k \in Fresh(j)' => k \in Before(j))
    BY <2>1, <2>2, <2>3 DEF Ahead
  <2> QED
    BY <1>2, <1>3, <1>5, <2>4, WaitingRow
<1> QED
  BY <1>4, <1>6, <1>7

\* A step of a caller, which changes at most the row of k.
LEMMA WaitingCaller ==
  ASSUME TypeOK, PendingCounted, NEW j \in Job, Waiting(j),
         passed'[j] = passed[j], jobs'[j].next_run = jobs[j].next_run,
         UNCHANGED <<now, queue, phase, snapshot, scheduler, unsynced, faults>>,
         NEW k \in Job, \A i \in Job : i # k => jobs'[i] = jobs[i],
         IsFiniteSet(Pending'),
         NEW x \in {0, 1},
         Cardinality(Pending') + x <= Cardinality(Pending) + edits' - edits,
         edits' = edits \/ edits' = edits + 1,
         x = 1 \/ k \notin Before(j)'
  PROVE  Waiting(j)'
<1>1. InHand' = InHand
  BY DEF InHand, active
<1>2. /\ now \in Nat /\ Restarting' = Restarting /\ Restarting \in Nat
      /\ Cardinality(Pending) \in Nat /\ Cardinality(Pending') \in Nat
  BY WaitingTypes, FS_CardinalityType DEF PendingCounted, Restarting
<1>3. Budget \in Int /\ Budget' \in Int /\ edits \in Nat /\ Budget' - Budget = edits' - edits
  BY BudgetStep DEF TypeOK
<1>4. x + Cardinality(Pending') + Restarting' - Budget'
        <= Cardinality(Pending) + Restarting - Budget
  BY <1>2, <1>3
<1>5. /\ now' \in Nat /\ now' >= now /\ Restarting' \in Nat
      /\ InHand' \ {k} = InHand \ {k} /\ InHand' \subseteq InHand
      /\ \A i \in Job \ {k} : jobs'[i] = jobs[i] /\ snapshot'[i] = snapshot[i]
  BY <1>1, <1>2
<1> QED
  BY <1>3, <1>4, <1>5, WaitingRow

\* The start of the next job of the batch.
LEMMA StartInHand ==
  ASSUME TypeOK, Start
  PROVE  InHand' = InHand
<1> DEFINE h == Head(queue)
<1>0. /\ phase \in [Job -> {"none", "running", "executed", "disabling"}]
      /\ queue \in Seq(Job)
  BY DEF TypeOK
<1>1. /\ h = queue[1] /\ h \in Job
      /\ DOMAIN queue = 1 .. Len(queue) /\ Len(queue) \in Nat \ {0}
      /\ DOMAIN Tail(queue) = 1 .. (Len(queue) - 1)
      /\ \A a \in 1 .. (Len(queue) - 1) : Tail(queue)[a] = queue[a + 1]
  BY <1>0, HeadTailProperties, LenProperties, EmptySeq DEF Start
<1>2. \A i \in ToSet(queue) : i = h \/ i \in ToSet(Tail(queue))
  <2> TAKE i \in ToSet(queue)
  <2>1. PICK a \in 1 .. Len(queue) : queue[a] = i
    BY <1>1 DEF ToSet
  <2>2. CASE a = 1
    BY <1>1, <2>1, <2>2
  <2>3. CASE a # 1
    <3>1. a - 1 \in 1 .. (Len(queue) - 1) /\ Tail(queue)[a - 1] = i
      BY <1>1, <2>1, <2>3
    <3> QED
      BY <1>1, <3>1 DEF ToSet
  <2> QED
    BY <2>2, <2>3
<1>3. ToSet(Tail(queue)) \subseteq ToSet(queue) /\ h \in ToSet(queue)
  BY <1>1 DEF ToSet
<1>4. active' = active \cup {h} /\ queue' = Tail(queue)
  BY <1>0, <1>1 DEF Start, active
<1> HIDE DEF h
<1> QED
  BY <1>2, <1>3, <1>4 DEF InHand

LEMMA WaitingStep ==
  ASSUME TypeOK, NoOverlap, IdleBeforePoll, PendingCounted, ProperRows,
         jobs' \in [Job -> Row], PendingCounted', [Next]_vars,
         NEW j \in Job, Waiting(j)
  PROVE  Waiting(j)'
<1>0. /\ jobs \in [Job -> Row] /\ snapshot \in [Job -> Row]
      /\ editor \in [Editor -> EditorRecord]
      /\ phase \in [Job -> {"none", "running", "executed", "disabling"}]
      /\ queue \in Seq(Job)
      /\ passed[j] \in Nat /\ now \in Nat /\ jobs[j].next_run \in Nat
      /\ Restarting \in Nat /\ Cardinality(unsynced) \in Nat /\ edits \in Nat
      /\ IsFiniteSet(Pending) /\ Cardinality(Pending) \in Nat
      /\ IsFiniteSet(Pending') /\ Cardinality(Pending') \in Nat
      /\ Cardinality(Declared) \in Nat
  BY WaitingTypes, Subsets, FS_CardinalityType DEF TypeOK, EditorRecord, PendingCounted
<1>1. CASE CatchUp \/ Poll
  <2>1. Cardinality(Job) \in Nat /\ max_tasks \in Nat
    BY CronAssumption, FS_CardinalityType
  <2>2. /\ active = {} /\ queue = <<>> /\ scheduler \in {"catch_up", "poll"}
        /\ scheduler' = "poll"
    BY <1>1 DEF CatchUp, Poll, IdleBeforePoll
  <2>3. PICK n \in Nat : /\ n = max_tasks \/ n = Cardinality(Job)
                         /\ \E S \in Draws(n) : TakeBatch(S)
    BY <1>1, <2>1 DEF CatchUp, Poll
  <2> QED
    BY <2>2, <2>3, WaitingBatch
<1> SUFFICES ASSUME passed'[j] > 0, ~(CatchUp \/ Poll) PROVE Waiting(j)'
  BY <1>1 DEF Waiting
<1> DEFINE Same == passed'[j] = passed[j] /\ jobs'[j].next_run = jobs[j].next_run
<1>2. CountsKept => Same
  BY DEF CountsKept
<1>3. UNCHANGED <<passed, jobs>> => Same
  OBVIOUS
<1>31. UNCHANGED editor => Pending' = Pending
  BY DEF Pending
<1>32. UNCHANGED <<queue, phase>> => InHand' = InHand
  BY DEF InHand, active
<1>33. ASSUME NEW k \in Job, NEW r, Write(k, r)
       PROVE  /\ Pending' = Pending /\ jobs'[k] = r
              /\ \A i \in Job : i # k => jobs'[i] = jobs[i]
  BY <1>0, <1>33 DEF Write, Pending, EditorRecord
\* No row changes, and nothing is added to the batch.
<1>4. ASSUME UNCHANGED <<jobs, snapshot, passed, editor, edits>>, InHand' = InHand,
             now' \in Nat, now' >= now, Restarting' \in Nat, Restarting' <= Restarting,
             UNCHANGED faults \/ faults' = faults + 1
      PROVE  Waiting(j)'
  <2>1. Budget \in Int /\ Budget' \in Int /\ Budget' >= Budget
    BY <1>0, <1>4, BudgetStep
  <2>2. 0 \in {0, 1} /\ 0 + Cardinality(Pending') + Restarting' - Budget'
                          <= Cardinality(Pending) + Restarting - Budget
    BY <1>0, <1>31, <1>4, <2>1
  <2>3. j \notin Before(j)'
    BY DEF Before
  <2>4. /\ Same /\ InHand' \ {j} = InHand \ {j} /\ InHand' \subseteq InHand
        /\ \A i \in Job \ {j} : jobs'[i] = jobs[i] /\ snapshot'[i] = snapshot[i]
    BY <1>4
  <2> QED
    BY <1>0, <1>4, <2>1, <2>2, <2>3, <2>4, WaitingRow
<1>5. ASSUME NEW k \in Job, SyncJob(k) PROVE Waiting(j)'
  <2>1. /\ scheduler = "sync" /\ scheduler' = "sync" /\ Same
        /\ UNCHANGED <<now, queue, phase, snapshot, edits, faults>>
        /\ k \in unsynced /\ unsynced' = unsynced \ {k}
        /\ Write(k, Synced(k))
    BY <1>2, <1>5 DEF SyncJob
  <2>2. Restarting' = Restarting - 1 /\ Restarting' \in Nat
    <3>1. unsynced \in SUBSET Job /\ unsynced' \in SUBSET Job
      BY <2>1, CronAssumption DEF TypeOK
    <3>2. Cardinality(unsynced') = Cardinality(unsynced) - 1 /\ Cardinality(unsynced') \in Nat
      BY <2>1, <3>1, Subsets, FS_RemoveElement
    <3> QED
      BY <2>1, <3>2 DEF Restarting
  <2>3. Budget \in Int /\ Budget' = Budget
    BY <2>1, BudgetStep
  <2>4. 1 \in {0, 1} /\ 1 + Cardinality(Pending') + Restarting' - Budget'
                          <= Cardinality(Pending) + Restarting - Budget
    BY <1>0, <1>33, <2>1, <2>2, <2>3
  <2>5. /\ InHand' \ {k} = InHand \ {k} /\ InHand' \subseteq InHand
        /\ \A i \in Job \ {k} : jobs'[i] = jobs[i] /\ snapshot'[i] = snapshot[i]
        /\ now' \in Nat /\ now' >= now
    BY <1>0, <1>32, <1>33, <2>1
  <2> QED
    BY <1>0, <2>1, <2>2, <2>3, <2>4, <2>5, WaitingRow
<1>6. CASE SyncEnds \/ SyncFails
  <2>1. /\ UNCHANGED <<now, jobs, queue, phase, snapshot, editor, edits, passed>>
        /\ scheduler' \in {"poll", "catch_up"}
        /\ UNCHANGED faults \/ faults' = faults + 1
    BY <1>6 DEF SyncEnds, SyncFails, AfterSync
  <2>2. Restarting' = 0
    BY <2>1 DEF Restarting
  <2> QED
    BY <1>0, <1>32, <1>4, <2>1, <2>2
<1>7. CASE CatchUpFails
  <2>1. /\ UNCHANGED <<now, jobs, queue, phase, snapshot, editor, edits, passed>>
        /\ scheduler' = "poll" /\ faults' = faults + 1
    BY <1>7 DEF CatchUpFails
  <2>2. Restarting' = 0
    BY <2>1 DEF Restarting
  <2> QED
    BY <1>0, <1>32, <1>4, <2>1, <2>2
<1>9. CASE Start
  <2>1. /\ UNCHANGED <<now, jobs, snapshot, passed, editor, edits, faults, scheduler, unsynced>>
        /\ InHand' = InHand
    BY <1>9, StartInHand DEF Start
  <2>2. Restarting' = Restarting
    BY <2>1 DEF Restarting
  <2> QED
    BY <1>0, <1>4, <2>1, <2>2
<1>10. CASE Restart
  <2>1. /\ UNCHANGED <<now, jobs, queue, phase, snapshot, passed, editor, edits, faults>>
        /\ scheduler = "down" /\ scheduler' = "sync" /\ unsynced' = Declared
    BY <1>10 DEF Restart
  <2>2. Restarting' = Restarting
    BY <2>1 DEF Restarting
  <2> QED
    BY <1>0, <1>32, <1>4, <2>1, <2>2
<1>11. CASE Tick
  <2>1. /\ now' \in Nat /\ now' >= now
        /\ UNCHANGED <<jobs, queue, phase, snapshot, passed, editor, edits, faults, scheduler,
                       unsynced>>
    BY <1>0, <1>11 DEF Tick, batchVars
  <2>2. Restarting' = Restarting
    BY <2>1 DEF Restarting
  <2> QED
    BY <1>0, <1>32, <1>4, <2>1, <2>2
<1>12. CASE Crash
  <2>1. /\ Pending' = {} /\ InHand' = {} /\ Same
        /\ UNCHANGED <<now, jobs, edits>> /\ faults' = faults + 1 /\ scheduler' = "down"
    <3>1. ToSet(<<>>) = {}
      BY DEF ToSet
    <3> QED
      BY <1>3, <1>12, <3>1 DEF Crash, Pending, NoEdit, InHand, active
  <2>2. /\ Before(j)' = Before(j) /\ Fresh(j)' = {}
    BY <2>1 DEF Before, Barren, Fresh, live
  <2>3. Ahead(j)' = Ahead(j) \cup Fresh(j)
    BY <2>2 DEF Ahead, Fresh
  <2>4. Load(j)' <= Load(j) + 1
    <3>1. Ahead(j) \in SUBSET Job /\ Fresh(j) \in SUBSET Job /\ Ahead(j) \cap Fresh(j) = {}
      BY WaitingTypes DEF Ahead
    <3>2. /\ Cardinality(Ahead(j) \cup Fresh(j)) = Cardinality(Ahead(j)) + Cardinality(Fresh(j))
          /\ Cardinality(Ahead(j)) \in Nat /\ Cardinality(Fresh(j)) \in Nat
      BY <3>1, Subsets
    <3>3. Cardinality(Fresh(j)) <= CreditOf(Fresh(j)) + 1 /\ CreditOf(Fresh(j)) \in Nat
          /\ CreditOf({}) = 0
      BY <3>1, <3>2, Subsets, FS_EmptySet DEF CreditOf
    <3>4. Load(j)' = Cardinality(Ahead(j) \cup Fresh(j)) + CreditOf({})
      BY <2>2, <2>3 DEF Load
    <3> QED
      BY <3>2, <3>3, <3>4 DEF Load
  <2>5. Restarting' = Cardinality(Declared)
    BY <2>1 DEF Restarting
  <2>6. Budget \in Int /\ Budget' = Budget + 1 + Cardinality(Declared)
    BY <2>1, BudgetStep
  <2>7. 1 + Cardinality(Pending') + Restarting' - Budget'
           <= Cardinality(Pending) + Restarting - Budget
    BY <1>0, <2>1, <2>5, <2>6, FS_EmptySet
  <2>8. /\ now' \in Nat /\ now' >= now /\ InHand' \subseteq InHand /\ Restarting' \in Nat
        /\ Budget' \in Int /\ 1 \in Nat
    BY <1>0, <2>1, <2>5, <2>6
  <2> QED
    BY <1>0, <2>1, <2>4, <2>7, <2>8, WaitingKept
<1>13. ASSUME NEW k \in Job, RunJob(k) PROVE Waiting(j)'
  <2>0. UNCHANGED <<now, queue, scheduler, unsynced, edits>> /\ Same
        /\ phase[k] # "none"
    BY <1>2, <1>3, <1>13
       DEF RunJob, Execute, Persist, PersistRemove, PersistRemoveFails, PersistDisableReads,
           PersistDisableWrites, PersistReschedule, PersistFails, Disables, PersistFrame
  \* The run of k goes on, maybe with a new snapshot of the row.
  <2>1. ASSUME phase'[k] # "none", UNCHANGED <<jobs, editor>>,
               \A i \in Job : i # k => phase'[i] = phase[i] /\ snapshot'[i] = snapshot[i],
               UNCHANGED snapshot \/ snapshot'[k] = jobs[k],
               UNCHANGED faults \/ faults' = faults + 1
        PROVE  Waiting(j)'
    <3>1. InHand' = InHand /\ k \in InHand
      BY <2>0, <2>1 DEF InHand, active
    <3>2. Before(j)' = Before(j)
      BY <2>0, <2>1 DEF Before, Barren, live
    <3>3. k \in Fresh(j) => k \in Fresh(j)'
      BY <2>1, <3>1, <3>2 DEF Fresh
    <3>4. (k \in Ahead(j)' => k \in Ahead(j)) /\ (k \in Fresh(j)' => k \in Before(j))
      BY <3>2, <3>3 DEF Ahead, Fresh
    <3>5. Restarting' = Restarting
      BY <2>0 DEF Restarting
    <3>6. Budget \in Int /\ Budget' \in Int /\ Budget' >= Budget
      BY <1>0, <2>0, <2>1, BudgetStep
    <3>7. 0 \in {0, 1} /\ 0 + Cardinality(Pending') + Restarting' - Budget'
                            <= Cardinality(Pending) + Restarting - Budget
      BY <1>0, <1>31, <2>1, <3>5, <3>6
    <3>8. /\ InHand' \ {k} = InHand \ {k} /\ InHand' \subseteq InHand
          /\ \A i \in Job \ {k} : jobs'[i] = jobs[i] /\ snapshot'[i] = snapshot[i]
          /\ now' \in Nat /\ now' >= now /\ Restarting' \in Nat
      BY <1>0, <2>0, <2>1, <3>1, <3>5
    <3> QED
      BY <1>0, <2>0, <3>4, <3>6, <3>7, <3>8, WaitingRow
  \* The run of k ends.
  <2>2. ASSUME Ends(k), Pending' = Pending,
               \A i \in Job : i # k => jobs'[i] = jobs[i],
               \/ /\ UNCHANGED faults
                  /\ \/ jobs'[k].state # "live" \/ ~jobs'[k].enabled
                     \/ jobs'[k].next_run > now
                     \/ jobs'[k] = jobs[k] /\ ~HasNext(snapshot[k].schedule, now)
               \/ faults' = faults + 1
        PROVE  Waiting(j)'
    BY <2>0, <2>2, WaitingRunEnds
  <2>3. CASE \E ok \in BOOLEAN : Execute(k, ok)
    BY <1>0, <2>1, <2>3 DEF Execute
  <2>4. ASSUME Disables(k), UNCHANGED faults \/ faults' = faults + 1
        PROVE  Waiting(j)'
    <3>1. CASE live(k)
      BY <1>0, <2>1, <2>4, <3>1 DEF Disables
    <3>2. CASE ~live(k)
      BY <1>31, <2>2, <2>4, <3>2 DEF Disables, live
    <3> QED
      BY <3>1, <3>2
  <2>5. CASE PersistDisableReads(k) \/ PersistRemoveFails(k)
    BY <2>4, <2>5 DEF PersistDisableReads, PersistRemoveFails
  <2>6. CASE PersistFails(k)
    BY <1>31, <2>2, <2>6 DEF PersistFails
  <2>7. jobs[k] \in Row /\ snapshot[k] \in Row
    BY <1>0
  <2>8. CASE PersistRemove(k)
    <3>1. CASE live(k)
      <4>1. [jobs[k] EXCEPT !.state = "gone"].state # "live"
        BY <2>7 DEF Row
      <4> QED
        BY <1>33, <2>2, <2>8, <3>1, <4>1 DEF PersistRemove
    <3>2. CASE ~live(k)
      BY <1>31, <2>2, <2>8, <3>2 DEF PersistRemove, live
    <3> QED
      BY <3>1, <3>2
  <2>9. CASE PersistDisableWrites(k)
    <3>1. CASE live(k)
      <4>1. ~[snapshot[k] EXCEPT !.enabled = FALSE].enabled
        BY <2>7 DEF Row
      <4> QED
        BY <1>33, <2>2, <2>9, <3>1, <4>1 DEF PersistDisableWrites
    <3>2. CASE ~live(k)
      BY <1>31, <2>2, <2>9, <3>2 DEF PersistDisableWrites, live
    <3> QED
      BY <3>1, <3>2
  <2>10. CASE PersistReschedule(k)
    <3> DEFINE s == snapshot[k].schedule
               t == next_run_for_schedule(s, now)
    <3>1. CASE ~live(k)
      BY <1>31, <2>2, <2>10, <3>1 DEF PersistReschedule, live
    <3>11. CASE live(k) /\ ~HasNext(s, now)
      <4>1. UNCHANGED <<jobs, editor, faults>> /\ Ends(k)
        BY <2>10, <3>11 DEF PersistReschedule
      <4> QED
        BY <1>31, <2>2, <3>11, <4>1
    <3>2. CASE live(k) /\ s.kind = "at"
      <4>1. Write(k, [jobs[k] EXCEPT !.enabled = FALSE])
            /\ Ends(k) /\ UNCHANGED faults
        BY <2>10, <3>2 DEF PersistReschedule, HasNext
      <4>2. ~[jobs[k] EXCEPT !.enabled = FALSE].enabled
        BY <2>7 DEF Row
      <4> QED
        BY <1>33, <2>2, <4>1, <4>2
    <3>3. CASE live(k) /\ HasNext(s, now) /\ s.kind # "at"
      <4>1. Write(k, [jobs[k] EXCEPT !.next_run = t]) /\ Ends(k) /\ UNCHANGED faults
        BY <2>10, <3>3 DEF PersistReschedule
      <4>2. t \in Nat /\ t > now
        <5>1. s \in ProperSchedule /\ s.kind \in {"every", "until"}
          BY <3>3 DEF ProperRows, ProperSchedule, Schedule
        <5> QED
          BY <1>0, <5>1 DEF ProperSchedule, Schedule, next_run_for_schedule
      <4> HIDE DEF t
      <4>3. [jobs[k] EXCEPT !.next_run = t].next_run = t
        BY <2>7, <4>2 DEF Row
      <4> QED
        BY <1>33, <2>2, <4>1, <4>2, <4>3
    <3> QED
      BY <3>1, <3>11, <3>2, <3>3
  <2> QED
    BY <1>13, <2>3, <2>5, <2>6, <2>8, <2>9, <2>10 DEF RunJob, Persist
<1>14. ASSUME NEW k \in Job, NEW delete \in BOOLEAN, AddJob(k, delete) PROVE Waiting(j)'
  <2> DEFINE s == FirstSchedule[k]
  <2>1. /\ Same
        /\ UNCHANGED <<now, queue, phase, snapshot, scheduler, unsynced, faults, editor, edits>>
        /\ jobs'[k] = Inserted(s, TRUE, delete)
        /\ \A i \in Job : i # k => jobs'[i] = jobs[i]
    BY <1>0, <1>2, <1>14 DEF AddJob, CallerFrame
  <2>2. jobs'[k].next_run \in Nat /\ jobs'[k].next_run > now
    <3>1. s \in ProperSchedule /\ s.kind \in {"every", "at", "until"}
      BY CronAssumption DEF ProperSchedule, Schedule
    <3>2. s.kind = "at" => s.n > now
      BY <1>14 DEF AddJob, ValidSchedule
    <3>3. next_run_for_schedule(s, now) \in Nat /\ next_run_for_schedule(s, now) > now
      BY <1>0, <3>1, <3>2 DEF next_run_for_schedule, ProperSchedule, Schedule
    <3> QED
      BY <2>1, <3>3 DEF Inserted
  <2>3. k \notin Before(j)'
    <3>1. jobs'[j].next_run <= now
      BY <1>0, <2>1 DEF Waiting
    <3>2. jobs'[j].next_run \in Nat /\ now \in Nat
      BY <1>0, <2>1
    <3>3. ~(jobs'[k].next_run <= jobs'[j].next_run)
      BY <2>2, <3>1, <3>2
    <3> QED
      BY <3>3 DEF Before
  <2>4. 0 \in {0, 1} /\ Cardinality(Pending') + 0 <= Cardinality(Pending) + edits' - edits
    BY <1>0, <1>31, <2>1
  <2> QED
    BY <1>0, <2>1, <2>3, <2>4, WaitingCaller
<1>15. ASSUME NEW k \in Job, RemoveJob(k) PROVE Waiting(j)'
  <2>1. /\ Same /\ UNCHANGED <<now, queue, phase, snapshot, scheduler, unsynced, faults>>
        /\ edits' = edits + 1
        /\ Write(k, [jobs[k] EXCEPT !.state = "gone"])
    BY <1>2, <1>15 DEF RemoveJob, CallerFrame
  <2>2. [jobs[k] EXCEPT !.state = "gone"].state # "live"
    BY <1>0 DEF Row
  <2>3. k \notin Before(j)' /\ Pending' = Pending /\ \A i \in Job : i # k => jobs'[i] = jobs[i]
    BY <1>33, <2>1, <2>2 DEF Before, live
  <2>4. 0 \in {0, 1} /\ Cardinality(Pending') + 0 <= Cardinality(Pending) + edits' - edits
    BY <1>0, <2>1, <2>3
  <2> QED
    BY <1>0, <2>1, <2>3, <2>4, WaitingCaller
<1>16. ASSUME NEW e \in Editor, NEW k \in Job, EditReads(e, k) PROVE Waiting(j)'
  <2>1. /\ Same
        /\ UNCHANGED <<now, queue, phase, snapshot, scheduler, unsynced, faults, jobs>>
        /\ edits' = edits + 1
        /\ editor[e].on = NoJob /\ Pending' = Pending \cup {e}
    <3>1. k # NoJob
      BY CronAssumption
    <3> QED
      BY <1>0, <1>2, <1>16, <3>1 DEF EditReads, CallerFrame, Pending
  <2>2. Cardinality(Pending') = Cardinality(Pending) + 1
    BY <2>1, PendingSteps
  <2>3. 0 \in {0, 1} /\ Cardinality(Pending') + 0 <= Cardinality(Pending) + edits' - edits
    BY <1>0, <2>1, <2>2
  <2>4. j \notin Before(j)' /\ \A i \in Job : i # j => jobs'[i] = jobs[i]
    BY <2>1 DEF Before
  <2> QED
    BY <1>0, <2>1, <2>3, <2>4, WaitingCaller
<1>17. ASSUME NEW e \in Editor, Edit(e) PROVE Waiting(j)'
  <2>1. editor[e].on # NoJob /\ \E r : EditWrites(e, r)
    BY <1>17 DEF Edit, Amend, Pause, Resume, Reschedule
  <2> DEFINE k == editor[e].on
  <2>2. /\ Same
        /\ UNCHANGED <<now, queue, phase, snapshot, scheduler, unsynced, faults, edits>>
        /\ k \in Job
        /\ \A i \in Job : i # k => jobs'[i] = jobs[i]
    BY <1>0, <1>2, <2>1 DEF EditWrites, CallerFrame, EditorRecord
  <2>3. Pending' = Pending \ {e}
    BY <1>0, <2>1 DEF EditWrites, Pending, NoEdit, EditorRecord
  <2>4. Cardinality(Pending') = Cardinality(Pending) - 1
    BY <2>1, <2>3, PendingSteps
  <2>5. 1 \in {0, 1} /\ Cardinality(Pending') + 1 <= Cardinality(Pending) + edits' - edits
    BY <1>0, <2>2, <2>4
  <2> HIDE DEF k
  <2> QED
    BY <1>0, <2>2, <2>5, WaitingCaller
<1>18. CASE UNCHANGED vars
  <2>1. Restarting' = Restarting
    BY <1>18 DEF vars, Restarting
  <2> QED
    BY <1>0, <1>32, <1>4, <1>18, <2>1 DEF vars
<1> QED
  BY <1>5, <1>6, <1>7, <1>9, <1>10, <1>11, <1>12, <1>13, <1>14, <1>15, <1>16, <1>17, <1>18
     DEF Next, Sync

LEMMA StarvationInit == Init => StarvationInv
<1> SUFFICES ASSUME Init PROVE StarvationInv
  OBVIOUS
<1>1. Pending = {} /\ edits = 0
  BY DEF Init, Pending, NoEdit
<1>11. PendingCounted
  BY <1>1, FS_EmptySet DEF PendingCounted
<1>2. ProperRows
  BY CronAssumption DEF Init, ProperRows, ProperSchedule, Unborn, Legacy, NoRow, NoEdit, Schedule
<1>3. \A j \in Job : Waiting(j)
  BY DEF Init, Waiting
<1> QED
  BY <1>11, <1>2, <1>3 DEF StarvationInv

LEMMA StarvationStep == IInv /\ IInv' /\ StarvationInv /\ [Next]_vars => StarvationInv'
<1> SUFFICES ASSUME IInv, IInv', StarvationInv, [Next]_vars PROVE StarvationInv'
  OBVIOUS
<1>1. TypeOK /\ NoOverlap /\ IdleBeforePoll /\ jobs' \in [Job -> Row]
  BY DEF IInv, TypeOK
<1>2. PendingCounted /\ ProperRows /\ \A j \in Job : Waiting(j)
  BY DEF StarvationInv
<1>3. PendingCounted'
  BY <1>1, <1>2, PendingStep
<1>4. ProperRows'
  BY <1>1, <1>2, ProperRowsStep
<1>5. \A j \in Job : Waiting(j)'
  BY <1>1, <1>2, <1>3, WaitingStep
<1> QED
  BY <1>3, <1>4, <1>5 DEF StarvationInv

LEMMA WaitingBounded ==
  ASSUME TypeOK, StarvationInv
  PROVE  NoStarvation
<1> SUFFICES ASSUME NEW j \in Job PROVE passed[j] <= Budget
  BY DEF NoStarvation, Budget
<1>1. /\ Waiting(j) /\ passed[j] \in Nat /\ Budget \in Int /\ Load(j) \in Nat
      /\ Cardinality(Pending) \in Nat /\ Restarting \in Nat
  BY WaitingTypes, LoadTypes, BudgetStep, FS_CardinalityType DEF StarvationInv, PendingCounted
<1>2. CASE passed[j] > 0
  BY <1>1, <1>2 DEF Waiting, Outstanding
<1>3. CASE passed[j] = 0
  <2>1. Cardinality(Job) \in Nat \ {0} /\ edits \in Nat
        /\ faults * (1 + Cardinality(Declared)) \in Nat
    BY CronAssumption, FS_CardinalityType, FS_EmptySet, Subsets DEF TypeOK
  <2> QED
    BY <1>3, <2>1 DEF Budget
<1> QED
  BY <1>1, <1>2, <1>3

-----------------------------------------------------------------------------
(* Theorems *)

LEMMA InitInv == Init => IInv
<1> SUFFICES ASSUME Init PROVE IInv
  OBVIOUS
<1>1. /\ FirstSchedule \in [Job -> Schedule]
      /\ max_concurrent \in Nat
  BY CronAssumption
<1>2. \A s \in Schedule : Unborn(s) \in Row /\ Legacy(s) \in Row
  BY DEF Unborn, Legacy, Row
<1>3. NoRow \in Row
  BY <1>2 DEF NoRow, Schedule
<1>4. /\ jobs \in [Job -> Row]
      /\ snapshot \in [Job -> Row]
      /\ editor \in [Editor -> EditorRecord]
      /\ \A e \in Editor : editor[e].on = NoJob
  BY <1>1, <1>2, <1>3 DEF Init, NoEdit, EditorRecord
<1>5. active = {} /\ ToSet(queue) = {} /\ DOMAIN queue = {} /\ queue \in Seq(Job)
  BY EmptySeq DEF Init, active, ToSet
<1>6. TypeOK
  BY <1>4, <1>5 DEF Init, TypeOK, EditorRecord
<1>7. NoOverlap
  BY <1>1, <1>5, FS_EmptySet DEF NoOverlap
<1>8. IdleBeforePoll /\ InUseWasAdded /\ CurrentUnlessStale /\ Off
  BY <1>4, <1>5
     DEF Init, IdleBeforePoll, InUseWasAdded, CurrentUnlessStale, Off
<1> QED
  BY <1>6, <1>7, <1>8 DEF IInv

LEMMA NextInv == IInv /\ [Next]_vars => IInv'
<1> SUFFICES ASSUME IInv, [Next]_vars PROVE IInv'
  OBVIOUS
<1> USE DEF IInv
<1>1. BatchTypes' /\ OtherTypes'
  BY BatchTypeStep, OtherTypeStep
<1>2. TableTypes' /\ CurrentUnlessStale'
  BY TableStep DEF TableGood
<1>3. TypeOK'
  BY <1>1, <1>2
     DEF TypeOK, BatchTypes, TableTypes, OtherTypes, EditorRecord
<1>4. NoOverlap' /\ IdleBeforePoll'
  BY OverlapStep
<1>5. InUseWasAdded'
  BY InUseStep
<1>6. Off'
  BY OffStep
<1> QED
  BY <1>2, <1>3, <1>4, <1>5, <1>6

\* The inductive invariant holds in every behaviour of the scheduler.
THEOREM Invariance == Spec => []IInv
  BY InitInv, NextInv, PTL DEF Spec

\* The scheduler's state, the job table and the editors keep their types, and what is
\* queued, run or edited was read as a row of the table.
THEOREM TypeCorrect == Spec => []TypeOK
<1>1. IInv => TypeOK
  BY DEF IInv
<1> QED
  BY <1>1, Invariance, PTL

\* A job never runs twice at a time and no more than max_concurrent jobs run, for any
\* jobs, limits, restarts and edits: process_due_jobs waits for its batch.
THEOREM NoOverlapHolds == Spec => []NoOverlap
<1>1. IInv => NoOverlap
  BY DEF IInv
<1> QED
  BY <1>1, Invariance, PTL

\* A one-shot job whose run was persisted is not due again until somebody resumes or
\* declares it or writes a stale row back: every way its run can end disables it or
\* removes it.
THEOREM OneShotStaysDoneHolds == Spec => []OneShotStaysDone
<1>1. IInv => OneShotStaysDone
  BY DEF IInv, Off, OneShotStaysDone, due, live
<1> QED
  BY <1>1, Invariance, PTL

\* A paused job stays disabled whatever the run that was in progress persists.
THEOREM PauseHoldsTheorem == Spec => []PauseHolds
<1>1. IInv => PauseHolds
  BY DEF IInv, Off, PauseHolds
<1> QED
  BY <1>1, Invariance, PTL

\* A job that stays due at one next_run, with fewer than max_tasks stuck rows before it, is
\* passed over by at most one poll for every other job, edit, failed statement and declared
\* job of a restart: a poll takes at least one job that its run moves, and what may still
\* be taken before the waiting job never exceeds what is left of that budget.
THEOREM NoStarvationHolds == Spec => []NoStarvation
<1>1. IInv /\ StarvationInv => NoStarvation
  BY WaitingBounded DEF IInv
<1>2. Init => StarvationInv
  BY StarvationInit
<1>3. IInv /\ IInv' /\ StarvationInv /\ [Next]_vars => StarvationInv'
  BY StarvationStep
<1>4. Spec => []StarvationInv
  BY <1>2, <1>3, Invariance, PTL DEF Spec
<1> QED
  BY <1>1, <1>4, Invariance, PTL
=============================================================================
