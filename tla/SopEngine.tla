----------------------------- MODULE SopEngine -----------------------------
(***************************************************************************)
(* The SOP engine of src/sop/engine.rs: it loads standard operating        *)
(* procedures (SOPs), starts runs of them, hands the caller one step after *)
(* another, waits for approvals, pauses deterministic runs at checkpoints, *)
(* persists those and resumes them after a restart.                        *)
(*                                                                         *)
(* Every public method runs under one std::sync::Mutex, so a method is one *)
(* action.  A call that returns an error without changing anything is a    *)
(* guard; an error after a change is part of the action.  A panic under    *)
(* the lock poisons the mutex, and no later call gets in.                  *)
(*                                                                         *)
(* Abstractions.  A run id, which the code prints from the epoch           *)
(* milliseconds and the engine's counter, is the pair <<now, counter>>.    *)
(* step_results and step_outputs keep the numbers of the reported steps,   *)
(* not their text.  One tick of `now` is one second.                       *)
(***************************************************************************)
EXTENDS Integers, Sequences, FiniteSets

CONSTANTS
  SopName,             \* names an SOP may have
  Catalogs,            \* what load_sops may find on disk: functions from
                       \* a subset of SopName to Sop
  MaxConcurrentTotal,  \* config.max_concurrent_total
  MaxFinishedRuns,     \* config.max_finished_runs, 0 = unlimited
  ApprovalTimeoutSecs, \* config.approval_timeout_secs, 0 = disabled
  MaxRuns,             \* bound: runs started by one process
  MaxNow,              \* bound: clock ticks
  MaxSavedRuns         \* bound: completions counted in deterministic_savings

Never == -1            \* the None of an Option<timestamp>

Mode == {"Auto", "Supervised", "StepByStep", "PriorityBased", "Deterministic"}
Priority == {"Low", "Normal", "High", "Critical"}
Kind == {"Execute", "Checkpoint"}
ActiveStatus == {"Running", "WaitingApproval", "PausedCheckpoint"}
FinalStatus == {"Completed", "Failed", "Cancelled"}

Step == [requires_confirmation: BOOLEAN, kind: Kind]
Sop == [execution_mode: Mode, priority: Priority, steps: Seq(Step),
        cooldown_secs: Nat, max_concurrent: Nat]

RunId == Nat \X Nat
Time == Nat \cup {Never}

SopRun == [run_id: RunId, sop_name: SopName, status: ActiveStatus \cup FinalStatus,
           current_step: Nat, total_steps: Nat, step_results: SUBSET Nat,
           completed_at: Time, waiting_since: Time, llm_calls_saved: Nat]

DeterministicRunState ==
  [run_id: RunId, sop_name: SopName, last_completed_step: Nat,
   total_steps: Nat, step_outputs: SUBSET Nat, llm_calls_saved: Nat]

ASSUME ConstantsAssumption ==
  /\ \A c \in Catalogs : DOMAIN c \subseteq SopName /\ \A n \in DOMAIN c : c[n] \in Sop
  /\ MaxConcurrentTotal \in Nat
  /\ MaxFinishedRuns \in Nat
  /\ ApprovalTimeoutSecs \in Nat
  /\ MaxRuns \in Nat
  /\ MaxNow \in Nat
  /\ MaxSavedRuns \in Nat

VARIABLES
  sops,                  \* the loaded SOPs, by name
  active_runs,           \* HashMap: run id -> SopRun
  finished_runs,         \* Vec of finished runs, oldest first
  run_counter,
  deterministic_savings, \* cumulative savings of completed deterministic runs
  state_files,           \* <run_id>.state.json on disk: run id -> DeterministicRunState
  action,                \* the SopRunAction the last call returned
  poisoned,              \* a panic under the lock poisoned the mutex
  now,                   \* wall clock
  reconstructed          \* history: ids of runs rebuilt from a state file

vars == <<sops, active_runs, finished_runs, run_counter, deterministic_savings,
          state_files, action, poisoned, now, reconstructed>>

-----------------------------------------------------------------------------
(* Helpers *)

Put(f, k, v) == [x \in DOMAIN f \cup {k} |-> IF x = k THEN v ELSE f[x]]
Drop(f, k) == [x \in DOMAIN f \ {k} |-> f[x]]

Tag == {"None", "Err", "ExecuteStep", "WaitApproval", "DeterministicStep",
        "CheckpointWait", "Completed", "Failed"}
NoAction == [tag |-> "None", run_id |-> <<0, 0>>, step |-> 0]
Act(tag, run) == [tag |-> tag, run_id |-> run.run_id, step |-> run.current_step]

cooldown_elapsed(since, secs) == now - since >= secs

\* Mutant: the search starts from the oldest entry (no `rev`).
IsLastFinished_NoRev(i, name) ==
  /\ finished_runs[i].sop_name = name
  /\ \A j \in DOMAIN finished_runs : j < i => finished_runs[j].sop_name # name

\* last_finished_run: no later entry of finished_runs is of this SOP.
IsLastFinished(i, name) ==
  /\ finished_runs[i].sop_name = name
  /\ \A j \in DOMAIN finished_runs : j > i => finished_runs[j].sop_name # name

active_for_sop(name) ==
  Cardinality({id \in DOMAIN active_runs : active_runs[id].sop_name = name})

\* Mutant: the total is compared with <= before the run is added.
below_limits_OffByOne(name) ==
  /\ active_for_sop(name) < sops[name].max_concurrent
  /\ Cardinality(DOMAIN active_runs) <= MaxConcurrentTotal

below_limits(name) ==
  /\ active_for_sop(name) < sops[name].max_concurrent
  /\ Cardinality(DOMAIN active_runs) < MaxConcurrentTotal

can_start(name) ==
  /\ name \in DOMAIN sops
  /\ below_limits(name)
  /\ sops[name].cooldown_secs > 0 =>
       \A i \in DOMAIN finished_runs :
         IsLastFinished(i, name) =>
           cooldown_elapsed(finished_runs[i].completed_at, sops[name].cooldown_secs)

\* Mutant: steps counted from 0, so that the first-step gate never closes.
needs_approval_ZeroBased(sop, k) ==
  \/ sop.steps[k].requires_confirmation
  \/ sop.execution_mode = "StepByStep"
  \/ sop.execution_mode = "Supervised" /\ k = 0
  \/ sop.execution_mode = "PriorityBased" /\ sop.priority \in {"Normal", "Low"} /\ k = 0

\* resolve_step_action: whether step number k is gated by an approval.
needs_approval(sop, k) ==
  \/ sop.steps[k].requires_confirmation
  \/ sop.execution_mode = "StepByStep"
  \/ sop.execution_mode = "Supervised" /\ k = 1
  \/ sop.execution_mode = "PriorityBased" /\ sop.priority \in {"Normal", "Low"} /\ k = 1

\* Mutant: the newest entries are evicted.
Evicted_Newest(runs) ==
  IF MaxFinishedRuns > 0 /\ Len(runs) > MaxFinishedRuns
    THEN SubSeq(runs, 1, MaxFinishedRuns)
    ELSE runs

\* Evict the oldest finished runs beyond max_finished_runs.
Evicted(runs) ==
  IF MaxFinishedRuns > 0 /\ Len(runs) > MaxFinishedRuns
    THEN SubSeq(runs, Len(runs) - MaxFinishedRuns + 1, Len(runs))
    ELSE runs

\* Mutant: completed_at is not set.
finish_run_NoTime(run, status) ==
  /\ active_runs' = Drop(active_runs, run.run_id)
  /\ finished_runs' = Evicted(Append(finished_runs, [run EXCEPT !.status = status]))

\* Mutant: the run is copied out of active_runs and not removed.
finish_run_Copies(run, status) ==
  /\ active_runs' = active_runs
  /\ finished_runs' =
       Evicted(Append(finished_runs, [run EXCEPT !.status = status, !.completed_at = now]))

finish_run(run, status) ==
  /\ active_runs' = Drop(active_runs, run.run_id)
  /\ finished_runs' =
       Evicted(Append(finished_runs, [run EXCEPT !.status = status, !.completed_at = now]))

\* Mutant: the time at which the wait began is not recorded.
resolve_step_action_NoSince(run) ==
  IF needs_approval(sops[run.sop_name], run.current_step)
    THEN /\ active_runs' = Put(active_runs, run.run_id,
                [run EXCEPT !.status = "WaitingApproval"])
         /\ action' = Act("WaitApproval", run)
    ELSE /\ active_runs' = Put(active_runs, run.run_id, run)
         /\ action' = Act("ExecuteStep", run)

\* The tail of start_run and advance_step: hand out the current step, or wait.
resolve_step_action(run) ==
  IF needs_approval(sops[run.sop_name], run.current_step)
    THEN /\ active_runs' = Put(active_runs, run.run_id,
                [run EXCEPT !.status = "WaitingApproval", !.waiting_since = now])
         /\ action' = Act("WaitApproval", run)
    ELSE /\ active_runs' = Put(active_runs, run.run_id, run)
         /\ action' = Act("ExecuteStep", run)

\* Mutant: the checkpoint itself is recorded as completed.
persisted_AtCheckpoint(run) ==
  [run_id |-> run.run_id, sop_name |-> run.sop_name,
   last_completed_step |-> run.current_step,
   total_steps |-> run.total_steps, step_outputs |-> run.step_results,
   llm_calls_saved |-> run.llm_calls_saved]

\* Mutant: the saved calls are read off the step number.
persisted_SavedByStep(run) ==
  [run_id |-> run.run_id, sop_name |-> run.sop_name,
   last_completed_step |-> run.current_step - 1,
   total_steps |-> run.total_steps, step_outputs |-> run.step_results,
   llm_calls_saved |-> run.current_step]

\* current_step.saturating_sub(1), and one output per reported step.
persisted(run) ==
  [run_id |-> run.run_id, sop_name |-> run.sop_name,
   last_completed_step |-> IF run.current_step > 0 THEN run.current_step - 1 ELSE 0,
   total_steps |-> run.total_steps, step_outputs |-> run.step_results,
   llm_calls_saved |-> run.llm_calls_saved]

\* std::fs::write truncates before it writes: it succeeds, or fails to open the
\* file, or leaves a torn file that load_deterministic_state refuses to parse.
persist_deterministic_state(run) ==
  \/ /\ state_files' = Put(state_files, run.run_id, persisted(run))
     /\ action' = Act("CheckpointWait", run)
  \/ /\ \/ state_files' = state_files
        \/ state_files' = Drop(state_files, run.run_id)
     /\ action' = Act("Err", run)

\* Pause at a checkpoint and persist, or hand out the step.
resolve_deterministic_action(run) ==
  IF sops[run.sop_name].steps[run.current_step].kind = "Checkpoint"
    THEN /\ active_runs' = Put(active_runs, run.run_id,
                [run EXCEPT !.status = "PausedCheckpoint", !.waiting_since = now])
         /\ persist_deterministic_state(run)
    ELSE /\ active_runs' = Put(active_runs, run.run_id, run)
         /\ action' = Act("DeterministicStep", run)
         /\ UNCHANGED state_files

\* Indexing sop.steps out of bounds panics while the lock is held.
panic(run) ==
  /\ active_runs' = Put(active_runs, run.run_id, run)
  /\ poisoned' = TRUE
  /\ action' = Act("Err", run)

-----------------------------------------------------------------------------
(* Run lifecycle *)

reload ==
  /\ ~poisoned
  /\ sops' \in Catalogs
  /\ action' = NoAction
  /\ UNCHANGED <<active_runs, finished_runs, run_counter, deterministic_savings,
                 state_files, poisoned, now, reconstructed>>

\* Mutant: the id does not carry the time.
next_run_id_Counter == <<0, run_counter + 1>>

\* The id of the next run: the epoch time and the incremented counter.
next_run_id == <<now, run_counter + 1>>

new_run(name) ==
  [run_id |-> next_run_id, sop_name |-> name, status |-> "Running",
   current_step |-> 1, total_steps |-> Len(sops[name].steps), step_results |-> {},
   completed_at |-> Never, waiting_since |-> Never, llm_calls_saved |-> 0]

CanStartRun(name) ==
  /\ ~poisoned
  /\ run_counter < MaxRuns
  /\ can_start(name)
  /\ sops[name].steps # <<>>
  /\ run_counter' = run_counter + 1
  /\ UNCHANGED <<sops, finished_runs, deterministic_savings, poisoned, now, reconstructed>>

start_run(name) ==
  /\ CanStartRun(name)
  /\ sops[name].execution_mode # "Deterministic"
  /\ resolve_step_action(new_run(name))
  /\ UNCHANGED state_files

start_deterministic_run(name) ==
  /\ CanStartRun(name)
  /\ sops[name].execution_mode = "Deterministic"
  /\ resolve_deterministic_action(new_run(name))

\* A run of a loaded SOP that is in active_runs; its status is not looked at.
Advanceable(id) ==
  /\ ~poisoned
  /\ id \in DOMAIN active_runs
  /\ active_runs[id].sop_name \in DOMAIN sops

\* The run with the result of its current step recorded.
Reported(run) == [run EXCEPT !.step_results = @ \cup {run.current_step}]

\* The caller, tools/sop_advance.rs, reports the run's current step under the
\* same lock: failed, or completed/skipped.
advance_step(id, failed) ==
  /\ Advanceable(id)
  /\ LET run == Reported(active_runs[id])
         next == [run EXCEPT !.current_step = @ + 1]
     IN \/ /\ failed
           /\ finish_run(run, "Failed")
           /\ action' = Act("Failed", run)
           /\ UNCHANGED poisoned
        \/ /\ ~failed
           /\ next.current_step > run.total_steps
           /\ finish_run(run, "Completed")
           /\ action' = Act("Completed", run)
           /\ UNCHANGED poisoned
        \/ /\ ~failed
           /\ next.current_step <= run.total_steps
           /\ IF next.current_step \in DOMAIN sops[run.sop_name].steps
                THEN resolve_step_action(next) /\ UNCHANGED poisoned
                ELSE panic(next)
           /\ UNCHANGED finished_runs
  /\ UNCHANGED <<sops, run_counter, deterministic_savings, state_files, now, reconstructed>>

cancel_run(id) ==
  /\ ~poisoned
  /\ id \in DOMAIN active_runs
  /\ finish_run(active_runs[id], "Cancelled")
  /\ action' = NoAction
  /\ UNCHANGED <<sops, run_counter, deterministic_savings, state_files, poisoned,
                 now, reconstructed>>

\* The status is reset before the SOP is looked up, so a run of an unloaded SOP
\* leaves WaitingApproval although the call fails.
approve_step(id) ==
  /\ ~poisoned
  /\ id \in DOMAIN active_runs
  /\ active_runs[id].status = "WaitingApproval"
  /\ LET run == [active_runs[id] EXCEPT !.status = "Running", !.waiting_since = Never]
     IN \/ /\ run.sop_name \notin DOMAIN sops
           /\ active_runs' = Put(active_runs, id, run)
           /\ action' = Act("Err", run)
           /\ UNCHANGED poisoned
        \/ /\ run.sop_name \in DOMAIN sops
           /\ IF run.current_step \in DOMAIN sops[run.sop_name].steps
                THEN /\ active_runs' = Put(active_runs, id, run)
                     /\ action' = Act("ExecuteStep", run)
                     /\ UNCHANGED poisoned
                ELSE panic(run)
  /\ UNCHANGED <<sops, finished_runs, run_counter, deterministic_savings, state_files,
                 now, reconstructed>>

\* Read-only: the ids of the runs held past the approval timeout.
check_approval_timeouts ==
  {id \in DOMAIN active_runs :
     /\ ApprovalTimeoutSecs # 0
     /\ active_runs[id].status = "WaitingApproval"
     /\ active_runs[id].waiting_since # Never
     /\ cooldown_elapsed(active_runs[id].waiting_since, ApprovalTimeoutSecs)}

-----------------------------------------------------------------------------
(* Deterministic execution *)

Save(calls) ==
  /\ deterministic_savings.total_runs < MaxSavedRuns
  /\ deterministic_savings' =
       [total_llm_calls_saved |-> deterministic_savings.total_llm_calls_saved + calls,
        total_runs |-> deterministic_savings.total_runs + 1]

advance_deterministic_step(id) ==
  /\ Advanceable(id)
  /\ LET run == [Reported(active_runs[id]) EXCEPT !.llm_calls_saved = @ + 1]
         next == [run EXCEPT !.current_step = @ + 1]
     IN \/ /\ next.current_step > run.total_steps
           /\ Save(run.llm_calls_saved)
           /\ finish_run(run, "Completed")
           /\ action' = Act("Completed", run)
           /\ UNCHANGED <<state_files, poisoned>>
        \/ /\ next.current_step <= run.total_steps
           /\ IF next.current_step \in DOMAIN sops[run.sop_name].steps
                THEN resolve_deterministic_action(next) /\ UNCHANGED poisoned
                ELSE panic(next) /\ UNCHANGED state_files
           /\ UNCHANGED <<deterministic_savings, finished_runs>>
  /\ UNCHANGED <<sops, run_counter, now, reconstructed>>

\* Mutant: the persisted step outputs are not mapped back.
sop_run_from_state_Empty(state) ==
  [run_id |-> state.run_id, sop_name |-> state.sop_name, status |-> "PausedCheckpoint",
   current_step |-> state.last_completed_step, total_steps |-> state.total_steps,
   step_results |-> {}, completed_at |-> Never,
   waiting_since |-> Never, llm_calls_saved |-> state.llm_calls_saved]

\* A run rebuilt from its state file, in the only status resume accepts.
sop_run_from_state(state) ==
  [run_id |-> state.run_id, sop_name |-> state.sop_name, status |-> "PausedCheckpoint",
   current_step |-> state.last_completed_step, total_steps |-> state.total_steps,
   step_results |-> state.step_outputs, completed_at |-> Never,
   waiting_since |-> Never, llm_calls_saved |-> state.llm_calls_saved]

\* An active run is resumed as it is; any other is rebuilt, provided the SOP
\* still has the number of steps it had.  No concurrency limit is consulted.
resume_deterministic_run(id) ==
  /\ ~poisoned
  /\ id \in DOMAIN state_files
  /\ LET state == state_files[id]
         found == id \in DOMAIN active_runs
         base == IF found THEN active_runs[id] ELSE sop_run_from_state(state)
         resumed == [base EXCEPT !.status = "Running", !.waiting_since = Never,
                                 !.llm_calls_saved = state.llm_calls_saved]
         next == [resumed EXCEPT !.current_step = state.last_completed_step + 1]
     IN /\ base.status = "PausedCheckpoint"
        /\ base.sop_name \in DOMAIN sops
        /\ ~found => Len(sops[base.sop_name].steps) = state.total_steps
        /\ reconstructed' = IF found THEN reconstructed ELSE reconstructed \cup {id}
        /\ IF next.current_step > state.total_steps
             THEN /\ Save(state.llm_calls_saved)
                  /\ finish_run(resumed, "Completed")
                  /\ action' = Act("Completed", resumed)
                  /\ UNCHANGED state_files
             ELSE /\ IF next.current_step \in DOMAIN sops[base.sop_name].steps
                       THEN resolve_deterministic_action(next)
                       ELSE /\ active_runs' = Put(active_runs, id, next)
                            /\ action' = Act("Err", next)
                            /\ UNCHANGED state_files
                  /\ UNCHANGED <<deterministic_savings, finished_runs>>
  /\ UNCHANGED <<sops, run_counter, poisoned, now>>

-----------------------------------------------------------------------------
(* Environment *)

Tick ==
  /\ now < MaxNow
  /\ now' = now + 1
  /\ UNCHANGED <<sops, active_runs, finished_runs, run_counter, deterministic_savings,
                 state_files, action, poisoned, reconstructed>>

\* The process dies and a new one comes up: only the state files survive.  It
\* takes longer than the millisecond that tells two run ids apart.
Restart ==
  /\ now < MaxNow
  /\ now' = now + 1
  /\ sops' \in Catalogs
  /\ active_runs' = <<>>
  /\ finished_runs' = <<>>
  /\ run_counter' = 0
  /\ deterministic_savings' = [total_llm_calls_saved |-> 0, total_runs |-> 0]
  /\ action' = NoAction
  /\ poisoned' = FALSE
  /\ reconstructed' = {}
  /\ UNCHANGED state_files

Init ==
  /\ sops = <<>>
  /\ active_runs = <<>>
  /\ finished_runs = <<>>
  /\ run_counter = 0
  /\ deterministic_savings = [total_llm_calls_saved |-> 0, total_runs |-> 0]
  /\ state_files = <<>>
  /\ action = NoAction
  /\ poisoned = FALSE
  /\ now = 0
  /\ reconstructed = {}

Next ==
  \/ reload
  \/ \E name \in SopName : start_run(name)
  \/ \E name \in SopName : start_deterministic_run(name)
  \/ \E id \in DOMAIN active_runs, failed \in BOOLEAN : advance_step(id, failed)
  \/ \E id \in DOMAIN active_runs : cancel_run(id)
  \/ \E id \in DOMAIN active_runs : approve_step(id)
  \/ \E id \in DOMAIN active_runs : advance_deterministic_step(id)
  \/ \E id \in DOMAIN state_files : resume_deterministic_run(id)
  \/ Tick
  \/ Restart

Spec == Init /\ [][Next]_vars

-----------------------------------------------------------------------------
(* Properties *)

\* Types, and: only an active run is unfinished, and only a finished one has a
\* completion time (finish_run).
TypeOK ==
  /\ DOMAIN sops \subseteq SopName /\ \A n \in DOMAIN sops : sops[n] \in Sop
  /\ DOMAIN active_runs \subseteq RunId
  /\ \A id \in DOMAIN active_runs :
       /\ active_runs[id] \in SopRun
       /\ active_runs[id].run_id = id
       /\ active_runs[id].status \in ActiveStatus
       /\ active_runs[id].completed_at = Never
  /\ finished_runs \in Seq(SopRun)
  /\ \A i \in DOMAIN finished_runs :
       /\ finished_runs[i].status \in FinalStatus
       /\ finished_runs[i].completed_at # Never
  /\ run_counter \in Nat
  /\ deterministic_savings \in [total_llm_calls_saved: Nat, total_runs: Nat]
  /\ DOMAIN state_files \subseteq RunId
  /\ \A id \in DOMAIN state_files :
       state_files[id] \in DeterministicRunState /\ state_files[id].run_id = id
  /\ action \in [tag: Tag, run_id: RunId, step: Nat]
  /\ poisoned \in BOOLEAN
  /\ now \in Nat
  /\ reconstructed \subseteq RunId

\* A run never passes a step without a recorded result for it: an active run has
\* one for every step before its current one, which is one of its steps, and a
\* Completed run has one for every step.  This has to survive retried results,
\* reloads, persisting, a crash and resuming from a state file
\* (advance_step, advance_deterministic_step, resume_deterministic_run).
NoStepSkipped ==
  /\ \A id \in DOMAIN active_runs :
       LET run == active_runs[id]
       IN /\ run.current_step \in 1..run.total_steps
          /\ 1..(run.current_step - 1) \subseteq run.step_results
  /\ \A i \in DOMAIN finished_runs :
       finished_runs[i].status = "Completed" =>
         1..finished_runs[i].total_steps \subseteq finished_runs[i].step_results

\* A state file resumes only behind steps whose output it holds, inside the SOP,
\* and claims no result that the run it was written from does not have
\* (persist_deterministic_state).
StateFileSound ==
  \A id \in DOMAIN state_files :
    LET state == state_files[id]
    IN /\ state.last_completed_step < state.total_steps
       /\ 1..state.last_completed_step \subseteq state.step_outputs
       /\ id \in DOMAIN active_runs => state.step_outputs \subseteq active_runs[id].step_results

\* The reported savings are real: a run never claims more saved LLM calls than
\* steps it has passed, also when a resume takes the count from a state file
\* (llm_calls_saved in advance_deterministic_step, resume_deterministic_run).
SavingsBounded ==
  /\ \A id \in DOMAIN active_runs :
       active_runs[id].llm_calls_saved < active_runs[id].current_step
  /\ \A id \in DOMAIN state_files :
       state_files[id].llm_calls_saved <= state_files[id].last_completed_step
  /\ \A i \in DOMAIN finished_runs :
       finished_runs[i].llm_calls_saved <= finished_runs[i].total_steps

\* config.max_concurrent_total bounds the runs that start_run admitted; only runs
\* rebuilt by resume_deterministic_run come on top of it.
ConcurrencyLimit ==
  Cardinality(DOMAIN active_runs \ reconstructed) <= MaxConcurrentTotal

\* A run finishes once: no run is active and finished, or finished twice, unless
\* resume_deterministic_run rebuilt it from its state file (finish_run).
FinishedOnce ==
  /\ \A i \in DOMAIN finished_runs :
       finished_runs[i].run_id \in DOMAIN active_runs =>
         finished_runs[i].run_id \in reconstructed
  /\ \A i, j \in DOMAIN finished_runs :
       i # j /\ finished_runs[i].run_id = finished_runs[j].run_id =>
         finished_runs[i].run_id \in reconstructed

\* A run that has waited for its approval at least approval_timeout_secs is
\* surfaced by check_approval_timeouts, whatever calls led it to wait.
TimeoutSurfaced ==
  ApprovalTimeoutSecs # 0 =>
    \A id \in DOMAIN active_runs :
      active_runs[id].status = "WaitingApproval" =>
        \/ id \in check_approval_timeouts
        \/ now - active_runs[id].waiting_since < ApprovalTimeoutSecs

\* The documented approval gates (SopExecutionMode, SOP.md requires_confirmation).
Gated(sop, k) ==
  \/ sop.steps[k].requires_confirmation
  \/ CASE sop.execution_mode = "StepByStep" -> TRUE
       [] sop.execution_mode = "Supervised" -> k = 1
       [] sop.execution_mode = "PriorityBased" ->
            sop.priority \notin {"Critical", "High"} /\ k = 1
       [] OTHER -> FALSE

\* The engine hands a gated step to the agent only for a run that was waiting for
\* approval at that very step (approve_step), whatever came before.
GatedStepsWait ==
  [][\A id \in DOMAIN active_runs' :
       LET run == active_runs'[id]
       IN /\ action'.tag = "ExecuteStep" /\ action'.run_id = id
          /\ <<action', active_runs'>> # <<action, active_runs>>
          /\ Gated(sops[run.sop_name], run.current_step)
          => /\ id \in DOMAIN active_runs
             /\ active_runs[id].status = "WaitingApproval"
             /\ active_runs[id].current_step = run.current_step]_vars

Started == run_counter' = run_counter + 1

\* A new run gets an id that no run, finished run or state file has, so that no
\* run overwrites another, not even after a restart, which resets run_counter.
FreshRunIds ==
  [][Started =>
       /\ next_run_id \notin DOMAIN active_runs \cup DOMAIN state_files
       /\ \A i \in DOMAIN finished_runs : finished_runs[i].run_id # next_run_id]_vars

\* A run starts only when every finished run of its SOP that is still remembered
\* ended at least cooldown_secs ago; can_start looks only at the last one.
CooldownRespected ==
  [][Started =>
       \A id \in DOMAIN active_runs' \ DOMAIN active_runs :
         \A i \in DOMAIN finished_runs :
           LET name == active_runs'[id].sop_name
           IN finished_runs[i].sop_name = name =>
                now - finished_runs[i].completed_at >= sops[name].cooldown_secs]_vars

\* finished_runs forgets only its oldest entries, and never the run that has just
\* finished, for status queries and the audit record read it back (finish_run).
HistoryKeepsNewest ==
  [][active_runs' # <<>> \/ finished_runs' # <<>> =>
       \A id \in DOMAIN active_runs \ DOMAIN active_runs' :
         /\ finished_runs' # <<>>
         /\ finished_runs'[Len(finished_runs')].run_id = id
         /\ \A k \in 1..(Len(finished_runs') - 1) :
              finished_runs'[Len(finished_runs') - k] =
                finished_runs[Len(finished_runs) - k + 1]]_vars

-----------------------------------------------------------------------------
(* What comments and documents say that the engine does not do *)

\* docs/reference/sop/syntax.md: "requires_confirmation: true enforces approval
\* for that step": a run that waits for approval does not move to another step.
ApprovalEnforced ==
  [][\A id \in DOMAIN active_runs \cap DOMAIN active_runs' :
       active_runs[id].status = "WaitingApproval" =>
         active_runs'[id].current_step = active_runs[id].current_step]_vars

\* sop/types.rs, SopStepKind::Checkpoint: "pauses execution and waits for human
\* approval": a deterministic run that stands at a checkpoint is paused.
CheckpointPauses ==
  \A id \in DOMAIN active_runs :
    LET run == active_runs[id]
        sop == sops[run.sop_name]
    IN /\ run.sop_name \in DOMAIN sops
       /\ sop.execution_mode = "Deterministic"
       /\ run.current_step \in DOMAIN sop.steps
       /\ sop.steps[run.current_step].kind = "Checkpoint"
       => run.status = "PausedCheckpoint"

\* sop/types.rs, SopRunAction::CheckpointWait: "Workflow state has been persisted
\* so it can resume after approval": resuming leaves the checkpoint behind.
ResumeLeavesCheckpoint ==
  [][\A id \in DOMAIN state_files \cap DOMAIN active_runs' :
       resume_deterministic_run(id) /\ id \in DOMAIN active_runs /\ action'.tag # "Err" =>
         active_runs'[id].current_step # active_runs[id].current_step]_vars
=============================================================================
