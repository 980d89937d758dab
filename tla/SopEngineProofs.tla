-------------------------- MODULE SopEngineProofs --------------------------
(***************************************************************************)
(* Theorems about SopEngine, for every catalog, limit and bound.           *)
(*                                                                         *)
(* The inductive invariant IInv says of each record by itself what the     *)
(* engine's invariants say of all of them (RunInv, FinInv, FileInv), that  *)
(* a state file never claims a result its run has not got, and that every  *)
(* run id in use was issued before the next one (Issued).                  *)
(***************************************************************************)
EXTENDS SopEngine, NatSets, FiniteSetTheorems, TLAPS

RunInv(run) ==
  /\ run \in SopRun
  /\ run.status \in ActiveStatus
  /\ run.completed_at = Never
  /\ run.current_step \in 1..run.total_steps
  /\ 1..(run.current_step - 1) \subseteq run.step_results
  /\ run.llm_calls_saved < run.current_step

FinInv(run) ==
  /\ run \in SopRun
  /\ run.status \in FinalStatus
  /\ run.completed_at # Never
  /\ run.status = "Completed" => 1..run.total_steps \subseteq run.step_results
  /\ run.llm_calls_saved <= run.total_steps

FileInv(state) ==
  /\ state \in DeterministicRunState
  /\ state.last_completed_step < state.total_steps
  /\ 1..state.last_completed_step \subseteq state.step_outputs
  /\ state.llm_calls_saved <= state.last_completed_step

ActiveInv(runs) ==
  \A id \in DOMAIN runs : id \in RunId /\ runs[id].run_id = id /\ RunInv(runs[id])

FinishedInv(runs) ==
  runs \in Seq(SopRun) /\ \A i \in DOMAIN runs : FinInv(runs[i])

\* The state file claims nothing of its run that is not so.
Matches(state, run) ==
  state.step_outputs \subseteq run.step_results /\ state.total_steps = run.total_steps

FilesInv(files, runs) ==
  \A id \in DOMAIN files :
    /\ id \in RunId /\ files[id].run_id = id /\ FileInv(files[id])
    /\ id \in DOMAIN runs => Matches(files[id], runs[id])

SopsInv == DOMAIN sops \subseteq SopName /\ \A n \in DOMAIN sops : sops[n] \in Sop

RestInv ==
  /\ run_counter \in Nat
  /\ deterministic_savings \in [total_llm_calls_saved: Nat, total_runs: Nat]
  /\ action \in [tag: Tag, run_id: RunId, step: Nat]
  /\ poisoned \in BOOLEAN
  /\ now \in Nat
  /\ reconstructed \subseteq RunId

\* The id was given out by this process or by one before it.
IssuedBy(id, t, n) == id[1] < t \/ (id[1] = t /\ id[2] <= n)
Issued(id) == IssuedBy(id, now, run_counter)

IssuedInv ==
  /\ \A id \in DOMAIN active_runs \cup DOMAIN state_files : Issued(id)
  /\ \A i \in DOMAIN finished_runs : Issued(finished_runs[i].run_id)

IInv ==
  /\ SopsInv
  /\ ActiveInv(active_runs)
  /\ FinishedInv(finished_runs)
  /\ FilesInv(state_files, active_runs)
  /\ RestInv
  /\ IssuedInv

-----------------------------------------------------------------------------
(* Lemmas about the helpers *)

\* Drop removes one entry and leaves the others alone.
LEMMA DropFacts ==
  ASSUME NEW f, NEW k
  PROVE  /\ DOMAIN Drop(f, k) = DOMAIN f \ {k}
         /\ \A x \in DOMAIN f : x # k => Drop(f, k)[x] = f[x]
  BY DEF Drop

\* Eviction returns a suffix: each remaining entry was there before.
LEMMA EvictedFacts ==
  ASSUME NEW s \in Seq(SopRun)
  PROVE  /\ Evicted(s) \in Seq(SopRun)
         /\ \A i \in DOMAIN Evicted(s) : \E j \in DOMAIN s : Evicted(s)[i] = s[j]
<1>1. CASE MaxFinishedRuns > 0 /\ Len(s) > MaxFinishedRuns
  <2>1. DEFINE m == Len(s) - MaxFinishedRuns + 1
  <2>2. MaxFinishedRuns \in Nat
    BY ConstantsAssumption
  <2>3. m \in 1..Len(s) /\ Len(s) \in Nat
    BY <1>1, <2>2
  <2>4. Evicted(s) = SubSeq(s, m, Len(s))
    BY <1>1 DEF Evicted
  <2>5. Len(Evicted(s)) = Len(s) - m + 1
    BY <2>3, <2>4
  <2>6. \A i \in 1..(Len(s) - m + 1) : Evicted(s)[i] = s[m + i - 1]
    BY <2>3, <2>4
  <2>7. \A i \in DOMAIN Evicted(s) : m + i - 1 \in DOMAIN s
    BY <2>3, <2>4, <2>5
  <2>8. Evicted(s) \in Seq(SopRun)
    BY <2>3, <2>4
  <2> QED
    BY <2>4, <2>5, <2>6, <2>7, <2>8, <2>3
<1>2. CASE ~(MaxFinishedRuns > 0 /\ Len(s) > MaxFinishedRuns)
  BY <1>2 DEF Evicted
<1> QED
  BY <1>1, <1>2

\* A finished record can be appended, whatever is evicted.
LEMMA FinishedPreserved ==
  ASSUME NEW runs, FinishedInv(runs), NEW run, FinInv(run)
  PROVE  FinishedInv(Evicted(Append(runs, run)))
<1>1. Append(runs, run) \in Seq(SopRun)
  BY DEF FinishedInv, FinInv
<1>2. \A j \in DOMAIN Append(runs, run) : FinInv(Append(runs, run)[j])
  BY DEF FinishedInv, FinInv
<1> QED
  BY <1>1, <1>2, EvictedFacts DEF FinishedInv

\* An active run can be added or replaced by a good one.
LEMMA ActivePut ==
  ASSUME NEW runs, ActiveInv(runs), NEW run, RunInv(run)
  PROVE  ActiveInv(Put(runs, run.run_id, run))
<1>1. run.run_id \in RunId
  BY DEF RunInv, SopRun
<1> SUFFICES ASSUME NEW id \in DOMAIN Put(runs, run.run_id, run)
             PROVE  /\ id \in RunId /\ Put(runs, run.run_id, run)[id].run_id = id
                    /\ RunInv(Put(runs, run.run_id, run)[id])
  BY DEF ActiveInv
<1>2. CASE id = run.run_id
  <2>1. Put(runs, run.run_id, run)[id] = run
    BY <1>2 DEF Put
  <2> QED
    BY <1>1, <1>2, <2>1
<1>3. CASE id # run.run_id
  <2>1. id \in DOMAIN runs /\ Put(runs, run.run_id, run)[id] = runs[id]
    BY <1>3 DEF Put
  <2> QED
    BY <2>1 DEF ActiveInv
<1> QED
  BY <1>2, <1>3

LEMMA ActiveDrop ==
  ASSUME NEW runs, ActiveInv(runs), NEW id
  PROVE  ActiveInv(Drop(runs, id))
<1> SUFFICES ASSUME NEW x \in DOMAIN Drop(runs, id)
             PROVE  x \in RunId /\ Drop(runs, id)[x].run_id = x /\ RunInv(Drop(runs, id)[x])
  BY DEF ActiveInv
<1>1. x \in DOMAIN runs /\ Drop(runs, id)[x] = runs[x]
  BY DropFacts
<1> QED
  BY <1>1 DEF ActiveInv

\* State files stay sound when an active run grows.
LEMMA FilesActivePut ==
  ASSUME NEW files, NEW runs, FilesInv(files, runs), NEW run,
         run.run_id \in DOMAIN files =>
           Matches(files[run.run_id], run)
  PROVE  FilesInv(files, Put(runs, run.run_id, run))
<1> DEFINE new == Put(runs, run.run_id, run)
<1> SUFFICES ASSUME NEW id \in DOMAIN files, id \in DOMAIN new
             PROVE  Matches(files[id], new[id])
  BY DEF FilesInv
<1>1. CASE id = run.run_id
  <2>1. new[id] = run
    BY <1>1 DEF Put
  <2> QED
    BY <1>1, <2>1
<1>2. CASE id # run.run_id
  <2>1. id \in DOMAIN runs /\ new[id] = runs[id]
    BY <1>2 DEF Put
  <2> QED
    BY <2>1 DEF FilesInv
<1> QED
  BY <1>1, <1>2

LEMMA FilesActiveDrop ==
  ASSUME NEW files, NEW runs, FilesInv(files, runs), NEW id
  PROVE  FilesInv(files, Drop(runs, id))
<1>1. \A x \in DOMAIN Drop(runs, id) : x \in DOMAIN runs /\ Drop(runs, id)[x] = runs[x]
  BY DropFacts
<1> QED
  BY <1>1 DEF FilesInv

LEMMA FilesDrop ==
  ASSUME NEW files, NEW runs, FilesInv(files, runs), NEW id
  PROVE  FilesInv(Drop(files, id), runs)
<1>1. \A x \in DOMAIN Drop(files, id) : x \in DOMAIN files /\ Drop(files, id)[x] = files[x]
  BY DropFacts
<1> QED
  BY <1>1 DEF FilesInv

\* Persisting a good run writes a sound state file.
LEMMA PersistedSound ==
  ASSUME NEW run, RunInv(run)
  PROVE  /\ FileInv(persisted(run))
         /\ persisted(run).run_id = run.run_id
         /\ persisted(run).step_outputs = run.step_results
         /\ persisted(run).total_steps = run.total_steps
<1>1. persisted(run) \in DeterministicRunState
  BY DEF RunInv, SopRun, persisted, DeterministicRunState
<1>2. persisted(run).last_completed_step = run.current_step - 1
  BY DEF RunInv, SopRun, persisted
<1> QED
  BY <1>1, <1>2 DEF RunInv, SopRun, FileInv, persisted

LEMMA FilesPut ==
  ASSUME NEW files, NEW runs, FilesInv(files, runs), NEW run, RunInv(run),
         run.run_id \in DOMAIN runs =>
           /\ runs[run.run_id].step_results = run.step_results
           /\ runs[run.run_id].total_steps = run.total_steps
  PROVE  FilesInv(Put(files, run.run_id, persisted(run)), runs)
<1> DEFINE new == Put(files, run.run_id, persisted(run))
<1>1. run.run_id \in RunId
  BY DEF RunInv, SopRun
<1> SUFFICES ASSUME NEW id \in DOMAIN new
             PROVE  /\ id \in RunId /\ new[id].run_id = id /\ FileInv(new[id])
                    /\ id \in DOMAIN runs => Matches(new[id], runs[id])
  BY DEF FilesInv
<1>2. CASE id = run.run_id
  <2>1. new[id] = persisted(run)
    BY <1>2 DEF Put
  <2> QED
    BY <1>1, <1>2, <2>1, PersistedSound DEF Matches
<1>3. CASE id # run.run_id
  <2>1. id \in DOMAIN files /\ new[id] = files[id]
    BY <1>3 DEF Put
  <2> QED
    BY <2>1 DEF FilesInv
<1> QED
  BY <1>2, <1>3

-----------------------------------------------------------------------------
(* Lemmas about the parts of the actions *)

ActionType == [tag: Tag, run_id: RunId, step: Nat]

LEMMA ActType ==
  ASSUME NEW run \in SopRun, NEW tag \in Tag
  PROVE  Act(tag, run) \in ActionType
  BY DEF Act, ActionType, SopRun

\* A change of status and waiting time disturbs nothing else.
LEMMA StatusChange ==
  ASSUME NEW run, RunInv(run), NEW s \in ActiveStatus, NEW t \in Time
  PROVE  LET new == [run EXCEPT !.status = s, !.waiting_since = t]
         IN /\ RunInv(new)
            /\ new.run_id = run.run_id
            /\ new.step_results = run.step_results
            /\ new.total_steps = run.total_steps
  BY DEF RunInv, SopRun

\* Recording the current step and going on to the next keeps a run good.
LEMMA Advanced ==
  ASSUME NEW run, RunInv(run), run.current_step + 1 <= run.total_steps,
         NEW calls \in {0, 1}
  PROVE  LET new == [[Reported(run) EXCEPT !.llm_calls_saved = @ + calls]
                        EXCEPT !.current_step = @ + 1]
         IN /\ RunInv(new)
            /\ new.run_id = run.run_id
            /\ run.step_results \subseteq new.step_results
            /\ new.total_steps = run.total_steps
<1> DEFINE new == [[Reported(run) EXCEPT !.llm_calls_saved = @ + calls]
                      EXCEPT !.current_step = @ + 1]
<1>1. new \in SopRun
  <2>1. run \in SopRun /\ run.current_step \in Nat /\ run.step_results \in SUBSET Nat
        /\ run.llm_calls_saved \in Nat
    BY DEF RunInv, SopRun
  <2>2. Reported(run) \in SopRun
    BY <2>1 DEF SopRun, Reported
  <2>3. [Reported(run) EXCEPT !.llm_calls_saved = @ + calls] \in SopRun
    BY <2>2 DEF SopRun
  <2>4. \A r \in SopRun : [r EXCEPT !.current_step = @ + 1] \in SopRun
    BY DEF SopRun
  <2> QED
    BY <2>3, <2>4
<1>2. /\ new.current_step = run.current_step + 1
      /\ new.step_results = run.step_results \cup {run.current_step}
      /\ new.llm_calls_saved = run.llm_calls_saved + calls
      /\ new.total_steps = run.total_steps /\ new.status = run.status
      /\ new.completed_at = run.completed_at /\ new.run_id = run.run_id
  BY DEF RunInv, SopRun, Reported
<1>3. 1..(new.current_step - 1) \subseteq new.step_results
  BY <1>2 DEF RunInv, SopRun
<1> QED
  BY <1>1, <1>2, <1>3 DEF RunInv, SopRun

\* finish_run ends a good run, with every step recorded if it is Completed.
LEMMA Finished ==
  ASSUME NEW run \in SopRun, NEW status \in FinalStatus, now \in Nat,
         run.llm_calls_saved <= run.total_steps,
         status = "Completed" => 1..run.total_steps \subseteq run.step_results
  PROVE  FinInv([run EXCEPT !.status = status, !.completed_at = now])
<1> DEFINE new == [run EXCEPT !.status = status, !.completed_at = now]
<1>1. status \in ActiveStatus \cup FinalStatus /\ now \in Time /\ now # Never
  BY DEF Time, Never
<1>2. new \in SopRun
  BY <1>1 DEF SopRun
<1>3. /\ new.status = status /\ new.completed_at = now
      /\ new.total_steps = run.total_steps /\ new.step_results = run.step_results
      /\ new.llm_calls_saved = run.llm_calls_saved
  BY DEF SopRun
<1> QED
  BY <1>1, <1>2, <1>3 DEF FinInv

LEMMA FinishRun ==
  ASSUME IInv, NEW run, NEW status,
         FinInv([run EXCEPT !.status = status, !.completed_at = now]),
         run \in SopRun, Issued(run.run_id), finish_run(run, status)
  PROVE  /\ ActiveInv(active_runs') /\ FinishedInv(finished_runs')
         /\ FilesInv(state_files, active_runs')
         /\ DOMAIN active_runs' \subseteq DOMAIN active_runs
         /\ \A i \in DOMAIN finished_runs' : Issued(finished_runs'[i].run_id)
<1> DEFINE rec == [run EXCEPT !.status = status, !.completed_at = now]
<1>1. active_runs' = Drop(active_runs, run.run_id)
      /\ finished_runs' = Evicted(Append(finished_runs, rec))
  BY DEF finish_run
<1>2. ActiveInv(active_runs') /\ FilesInv(state_files, active_runs')
  BY <1>1, ActiveDrop, FilesActiveDrop DEF IInv
<1>3. DOMAIN active_runs' \subseteq DOMAIN active_runs
  BY <1>1 DEF Drop
<1>4. FinishedInv(finished_runs')
  BY <1>1, FinishedPreserved DEF IInv
<1>5. rec.run_id = run.run_id /\ rec \in SopRun
  BY DEF SopRun, FinInv
<1>6. Append(finished_runs, rec) \in Seq(SopRun)
  BY <1>5 DEF IInv, FinishedInv
<1>7. \A j \in DOMAIN Append(finished_runs, rec) : Issued(Append(finished_runs, rec)[j].run_id)
  BY <1>5 DEF IInv, FinishedInv, IssuedInv
<1>8. \A i \in DOMAIN finished_runs' : Issued(finished_runs'[i].run_id)
  BY <1>1, <1>6, <1>7, EvictedFacts
<1> QED
  BY <1>2, <1>3, <1>4, <1>8

LEMMA ResolveStep ==
  ASSUME IInv, NEW run, RunInv(run), resolve_step_action(run),
         run.run_id \in DOMAIN state_files =>
           Matches(state_files[run.run_id], run)
  PROVE  /\ ActiveInv(active_runs')
         /\ FilesInv(state_files, active_runs')
         /\ DOMAIN active_runs' = DOMAIN active_runs \cup {run.run_id}
         /\ action' \in ActionType
<1> DEFINE waiting == [run EXCEPT !.status = "WaitingApproval", !.waiting_since = now]
<1>1. now \in Time /\ run \in SopRun
  BY DEF IInv, RestInv, Time, RunInv
<1>2. RunInv(waiting) /\ waiting.run_id = run.run_id
      /\ waiting.step_results = run.step_results /\ waiting.total_steps = run.total_steps
  BY <1>1, StatusChange DEF ActiveStatus
<1>3. action' \in ActionType
  BY <1>1, ActType DEF resolve_step_action, Tag
<1>4. \/ active_runs' = Put(active_runs, run.run_id, run)
      \/ active_runs' = Put(active_runs, waiting.run_id, waiting)
  BY <1>2 DEF resolve_step_action
<1>5. ActiveInv(active_runs')
  BY <1>2, <1>4, ActivePut DEF IInv
<1>6. FilesInv(state_files, active_runs')
  BY <1>2, <1>4, FilesActivePut DEF IInv, Matches
<1>7. DOMAIN active_runs' = DOMAIN active_runs \cup {run.run_id}
  BY <1>2, <1>4 DEF Put
<1> QED
  BY <1>3, <1>5, <1>6, <1>7

LEMMA ResolveDeterministic ==
  ASSUME IInv, NEW run, RunInv(run), resolve_deterministic_action(run),
         run.run_id \in DOMAIN state_files =>
           Matches(state_files[run.run_id], run)
  PROVE  /\ ActiveInv(active_runs')
         /\ FilesInv(state_files', active_runs')
         /\ DOMAIN active_runs' = DOMAIN active_runs \cup {run.run_id}
         /\ DOMAIN state_files' \subseteq DOMAIN state_files \cup {run.run_id}
         /\ action' \in ActionType
<1> DEFINE paused == [run EXCEPT !.status = "PausedCheckpoint", !.waiting_since = now]
<1>1. now \in Time /\ run \in SopRun
  BY DEF IInv, RestInv, Time, RunInv
<1>2. RunInv(paused) /\ paused.run_id = run.run_id
      /\ paused.step_results = run.step_results /\ paused.total_steps = run.total_steps
  BY <1>1, StatusChange DEF ActiveStatus
<1>3. action' \in ActionType
  BY <1>1, ActType DEF resolve_deterministic_action, persist_deterministic_state, Tag
<1>4. \/ active_runs' = Put(active_runs, run.run_id, run)
      \/ active_runs' = Put(active_runs, paused.run_id, paused)
  BY <1>2 DEF resolve_deterministic_action
<1>5. ActiveInv(active_runs')
  BY <1>2, <1>4, ActivePut DEF IInv
<1>6. FilesInv(state_files, active_runs')
  BY <1>2, <1>4, FilesActivePut DEF IInv, Matches
<1>7. /\ DOMAIN active_runs' = DOMAIN active_runs \cup {run.run_id}
      /\ active_runs'[run.run_id].step_results = run.step_results
      /\ active_runs'[run.run_id].total_steps = run.total_steps
  BY <1>2, <1>4 DEF Put
<1>8. \/ state_files' = Put(state_files, run.run_id, persisted(run))
      \/ state_files' = state_files
      \/ state_files' = Drop(state_files, run.run_id)
  BY DEF resolve_deterministic_action, persist_deterministic_state
<1>9. FilesInv(state_files', active_runs')
  BY <1>6, <1>7, <1>8, FilesPut, FilesDrop
<1>10. DOMAIN state_files' \subseteq DOMAIN state_files \cup {run.run_id}
  BY <1>8 DEF Put, Drop
<1> QED
  BY <1>3, <1>5, <1>7, <1>9, <1>10

-----------------------------------------------------------------------------
(* The invariant is inductive *)

\* What is left to show of IInv' when the clock and the counter stand still.
LEMMA Assemble ==
  ASSUME IInv, UNCHANGED <<sops, run_counter, now>>,
         ActiveInv(active_runs'), FinishedInv(finished_runs'),
         FilesInv(state_files', active_runs'),
         deterministic_savings' \in [total_llm_calls_saved: Nat, total_runs: Nat],
         action' \in ActionType, poisoned' \in BOOLEAN, reconstructed' \subseteq RunId,
         \A id \in DOMAIN active_runs' \cup DOMAIN state_files' : Issued(id),
         \A i \in DOMAIN finished_runs' : Issued(finished_runs'[i].run_id)
  PROVE  IInv'
<1>1. SopsInv'
  BY DEF IInv, SopsInv
<1>2. RestInv'
  BY DEF IInv, RestInv, ActionType
<1>3. IssuedInv'
  BY DEF IssuedInv, Issued, IssuedBy
<1> QED
  BY <1>1, <1>2, <1>3 DEF IInv

LEMMA InitIInv == Init => IInv
<1> SUFFICES ASSUME Init PROVE IInv
  OBVIOUS
<1>1. NoAction \in ActionType
  BY DEF NoAction, ActionType, Tag, RunId
<1>2. /\ DOMAIN sops = {} /\ DOMAIN active_runs = {} /\ DOMAIN state_files = {}
      /\ DOMAIN finished_runs = {} /\ finished_runs \in Seq(SopRun)
  BY DEF Init
<1>3. SopsInv /\ RestInv
  BY <1>1, <1>2 DEF Init, SopsInv, RestInv, ActionType
<1>4. ActiveInv(active_runs) /\ FilesInv(state_files, active_runs) /\ IssuedInv
      /\ FinishedInv(finished_runs)
  BY <1>2 DEF ActiveInv, FilesInv, IssuedInv, FinishedInv
<1> QED
  BY <1>3, <1>4 DEF IInv

\* A new run is a good run under an id that nothing has.
LEMMA NewRun ==
  ASSUME IInv, NEW name, CanStartRun(name)
  PROVE  /\ RunInv(new_run(name))
         /\ new_run(name).run_id = next_run_id
         /\ next_run_id \in RunId
         /\ ~Issued(next_run_id)
         /\ name \in DOMAIN sops
<1>1. name \in DOMAIN sops /\ sops[name].steps # <<>>
  BY DEF CanStartRun, can_start
<1>2. sops[name].steps \in Seq(Step) /\ name \in SopName
  BY <1>1 DEF IInv, SopsInv, Sop
<1>3. Len(sops[name].steps) \in Nat \ {0}
  BY <1>1, <1>2
<1>4. run_counter \in Nat /\ now \in Nat
  BY DEF IInv, RestInv
<1>5. next_run_id \in RunId /\ ~Issued(next_run_id)
  BY <1>4 DEF next_run_id, RunId, Issued, IssuedBy
<1>6. new_run(name) \in SopRun
  BY <1>2, <1>3, <1>5 DEF new_run, SopRun, ActiveStatus, Time
<1>7. RunInv(new_run(name))
  BY <1>3, <1>6 DEF RunInv, new_run, ActiveStatus
<1> QED
  BY <1>1, <1>5, <1>7 DEF new_run

LEMMA StartIInv ==
  ASSUME IInv, NEW name, start_run(name) \/ start_deterministic_run(name)
  PROVE  IInv'
<1> DEFINE run == new_run(name)
<1>1. CanStartRun(name)
  BY DEF start_run, start_deterministic_run
<1>2. RunInv(run) /\ run.run_id = next_run_id /\ ~Issued(next_run_id) /\ next_run_id \in RunId
  BY <1>1, NewRun
<1>3. run.run_id \notin DOMAIN state_files
  BY <1>2 DEF IInv, IssuedInv
<1>4. /\ ActiveInv(active_runs') /\ FilesInv(state_files', active_runs')
      /\ action' \in ActionType
      /\ DOMAIN active_runs' = DOMAIN active_runs \cup {next_run_id}
      /\ DOMAIN state_files' \subseteq DOMAIN state_files \cup {next_run_id}
  <2>1. CASE start_run(name)
    <3>1. resolve_step_action(run) /\ state_files' = state_files
      BY <2>1 DEF start_run
    <3> QED
      BY <1>2, <1>3, <3>1, ResolveStep
  <2>2. CASE start_deterministic_run(name)
    <3>1. resolve_deterministic_action(run)
      BY <2>2 DEF start_deterministic_run
    <3> QED
      BY <1>2, <1>3, <3>1, ResolveDeterministic
  <2> QED
    BY <2>1, <2>2
<1>5. /\ run_counter' = run_counter + 1
      /\ UNCHANGED <<sops, finished_runs, deterministic_savings, poisoned, now, reconstructed>>
  BY <1>1 DEF CanStartRun
<1>6. SopsInv' /\ FinishedInv(finished_runs')
  BY <1>5 DEF IInv, SopsInv
<1>7. RestInv'
  BY <1>4, <1>5 DEF IInv, RestInv, ActionType
<1>8. \A id \in RunId : Issued(id) => IssuedBy(id, now', run_counter')
  BY <1>5 DEF IInv, RestInv, RunId, Issued, IssuedBy
<1>9. IssuedBy(next_run_id, now', run_counter')
  BY <1>5 DEF IInv, RestInv, IssuedBy, next_run_id
<1>10. \A i \in DOMAIN finished_runs : finished_runs[i].run_id \in RunId
  BY DEF IInv, FinishedInv, FinInv, SopRun
<1>11. DOMAIN active_runs \cup DOMAIN state_files \subseteq RunId
  BY DEF IInv, ActiveInv, FilesInv
<1>12. IssuedInv'
  <2>1. \A id \in DOMAIN active_runs' \cup DOMAIN state_files' :
          IssuedBy(id, now', run_counter')
    BY <1>4, <1>8, <1>9, <1>11 DEF IInv, IssuedInv
  <2>2. \A i \in DOMAIN finished_runs : IssuedBy(finished_runs[i].run_id, now', run_counter')
    BY <1>8, <1>10 DEF IInv, IssuedInv
  <2> QED
    BY <2>1, <2>2, <1>5 DEF IssuedInv, Issued
<1> QED
  BY <1>4, <1>6, <1>7, <1>12 DEF IInv

LEMMA ReloadIInv == ASSUME IInv, reload PROVE IInv'
<1>1. SopsInv'
  BY ConstantsAssumption DEF reload, SopsInv
<1>2. RestInv'
  BY DEF IInv, RestInv, reload, NoAction, Tag, RunId
<1>3. IssuedInv'
  BY DEF IInv, IssuedInv, Issued, IssuedBy, reload
<1>4. ActiveInv(active_runs') /\ FinishedInv(finished_runs') /\ FilesInv(state_files', active_runs')
  BY DEF IInv, reload
<1> QED
  BY <1>1, <1>2, <1>3, <1>4 DEF IInv

\* What IInv says of one active run.
LEMMA ActiveRun ==
  ASSUME IInv, NEW id \in DOMAIN active_runs
  PROVE  /\ RunInv(active_runs[id]) /\ active_runs[id].run_id = id /\ id \in RunId
         /\ active_runs[id] \in SopRun /\ Issued(id)
         /\ id \in DOMAIN state_files =>
              Matches(state_files[id], active_runs[id])
  BY DEF IInv, ActiveInv, FilesInv, IssuedInv, RunInv

\* Every id in use stays issued when no id is added.
LEMMA StillIssued ==
  ASSUME IInv, NEW runs, NEW files,
         DOMAIN runs \subseteq DOMAIN active_runs, DOMAIN files \subseteq DOMAIN state_files
  PROVE  \A id \in DOMAIN runs \cup DOMAIN files : Issued(id)
  BY DEF IInv, IssuedInv

LEMMA CancelIInv ==
  ASSUME IInv, NEW id \in DOMAIN active_runs, cancel_run(id)
  PROVE  IInv'
<1> DEFINE run == active_runs[id]
<1>1. /\ finish_run(run, "Cancelled") /\ action' = NoAction
      /\ UNCHANGED <<sops, run_counter, deterministic_savings, state_files, poisoned,
                     now, reconstructed>>
  BY DEF cancel_run
<1>2. FinInv([run EXCEPT !.status = "Cancelled", !.completed_at = now])
  <2>1. run \in SopRun /\ run.llm_calls_saved <= run.total_steps
    BY ActiveRun DEF RunInv, SopRun
  <2> QED
    BY <2>1, Finished DEF FinalStatus, IInv, RestInv
<1>3. /\ ActiveInv(active_runs') /\ FinishedInv(finished_runs')
      /\ FilesInv(state_files, active_runs')
      /\ DOMAIN active_runs' \subseteq DOMAIN active_runs
      /\ \A i \in DOMAIN finished_runs' : Issued(finished_runs'[i].run_id)
  BY <1>1, <1>2, ActiveRun, FinishRun
<1>4. NoAction \in ActionType
  BY DEF NoAction, ActionType, Tag, RunId
<1>5. \A x \in DOMAIN active_runs' \cup DOMAIN state_files' : Issued(x)
  BY <1>1, <1>3, StillIssued
<1> QED
  BY <1>1, <1>3, <1>4, <1>5, Assemble DEF IInv, RestInv

\* A step that panics leaves a good run and a poisoned lock.
LEMMA Panic ==
  ASSUME IInv, NEW run, RunInv(run), panic(run),
         run.run_id \in DOMAIN state_files =>
           Matches(state_files[run.run_id], run)
  PROVE  /\ ActiveInv(active_runs')
         /\ FilesInv(state_files, active_runs')
         /\ DOMAIN active_runs' = DOMAIN active_runs \cup {run.run_id}
         /\ action' \in ActionType
         /\ poisoned' \in BOOLEAN
<1>1. active_runs' = Put(active_runs, run.run_id, run) /\ poisoned' = TRUE
      /\ action' = Act("Err", run)
  BY DEF panic
<1>2. ActiveInv(active_runs') /\ FilesInv(state_files, active_runs')
  BY <1>1, ActivePut, FilesActivePut DEF IInv
<1>3. DOMAIN active_runs' = DOMAIN active_runs \cup {run.run_id}
  BY <1>1 DEF Put
<1>4. action' \in ActionType
  BY <1>1, ActType DEF Tag, RunInv
<1> QED
  BY <1>1, <1>2, <1>3, <1>4

LEMMA ApproveIInv ==
  ASSUME IInv, NEW id \in DOMAIN active_runs, approve_step(id)
  PROVE  IInv'
<1> DEFINE run == [active_runs[id] EXCEPT !.status = "Running", !.waiting_since = Never]
<1>1. RunInv(run) /\ run.run_id = id /\ run.step_results = active_runs[id].step_results
      /\ run.total_steps = active_runs[id].total_steps
  BY ActiveRun, StatusChange DEF ActiveStatus, Time
<1>2. id \in DOMAIN state_files => Matches(state_files[id], run)
  BY <1>1, ActiveRun DEF Matches
<1>3. UNCHANGED <<sops, finished_runs, run_counter, deterministic_savings, state_files,
                  now, reconstructed>>
  BY DEF approve_step
<1>4. /\ ActiveInv(active_runs') /\ FilesInv(state_files, active_runs')
      /\ DOMAIN active_runs' = DOMAIN active_runs \cup {id}
      /\ action' \in ActionType /\ poisoned' \in BOOLEAN
  <2>1. CASE panic(run)
    BY <1>1, <1>2, <2>1, Panic
  <2>2. CASE active_runs' = Put(active_runs, id, run) /\ poisoned' = poisoned
             /\ \E tag \in {"Err", "ExecuteStep"} : action' = Act(tag, run)
    <3>1. ActiveInv(active_runs') /\ FilesInv(state_files, active_runs')
      BY <1>1, <1>2, <2>2, ActivePut, FilesActivePut DEF IInv
    <3>2. action' \in ActionType
      BY <1>1, <2>2, ActType DEF Tag, RunInv
    <3> QED
      BY <2>2, <3>1, <3>2 DEF Put, IInv, RestInv
  <2> QED
    BY <2>1, <2>2 DEF approve_step
<1>5. \A x \in DOMAIN active_runs' \cup DOMAIN state_files' : Issued(x)
  BY <1>3, <1>4, StillIssued
<1>6. \A i \in DOMAIN finished_runs' : Issued(finished_runs'[i].run_id)
  BY <1>3 DEF IInv, IssuedInv
<1> QED
  BY <1>3, <1>4, <1>5, <1>6, Assemble DEF IInv, RestInv

\* Reporting the last step makes a run that may finish as Completed, and
\* reporting any step one that may finish as Failed.
LEMMA ReportedFinishes ==
  ASSUME IInv, NEW id \in DOMAIN active_runs, NEW calls \in {0, 1}, NEW status,
         \/ status = "Failed"
         \/ status = "Completed" /\ active_runs[id].current_step + 1 > active_runs[id].total_steps
  PROVE  LET run == [Reported(active_runs[id]) EXCEPT !.llm_calls_saved = @ + calls]
         IN /\ run \in SopRun
            /\ run.run_id = id
            /\ FinInv([run EXCEPT !.status = status, !.completed_at = now])
<1> DEFINE old == active_runs[id]
           run == [Reported(old) EXCEPT !.llm_calls_saved = @ + calls]
<1>1. RunInv(old) /\ old \in SopRun /\ old.run_id = id
  BY ActiveRun
<1>2. Reported(old) \in SopRun
  BY <1>1 DEF SopRun, Reported
<1>3. run \in SopRun
  BY <1>2 DEF SopRun
<1>4. /\ run.current_step = old.current_step /\ run.total_steps = old.total_steps
      /\ run.step_results = old.step_results \cup {old.current_step}
      /\ run.llm_calls_saved = old.llm_calls_saved + calls
      /\ run.run_id = id
  BY <1>1 DEF SopRun, Reported
<1>5. run.llm_calls_saved <= run.total_steps
  BY <1>1, <1>4 DEF RunInv, SopRun
<1>6. status = "Completed" => 1..run.total_steps \subseteq run.step_results
  BY <1>1, <1>4 DEF RunInv, SopRun
<1>7. FinInv([run EXCEPT !.status = status, !.completed_at = now])
  BY <1>3, <1>5, <1>6, Finished DEF FinalStatus, IInv, RestInv
<1> QED
  BY <1>3, <1>4, <1>7

\* Adding no saved call is no change.
LEMMA NoCalls ==
  ASSUME NEW run \in SopRun
  PROVE  [Reported(run) EXCEPT !.llm_calls_saved = @ + 0] = Reported(run)
<1>1. \A r \in SopRun : r.llm_calls_saved + 0 = r.llm_calls_saved
  BY DEF SopRun
<1>2. \A r \in SopRun : [r EXCEPT !.llm_calls_saved = r.llm_calls_saved] = r
  BY DEF SopRun
<1>3. Reported(run) \in SopRun
  BY DEF SopRun, Reported
<1> QED
  BY <1>1, <1>2, <1>3

LEMMA AdvanceIInv ==
  ASSUME IInv, NEW id \in DOMAIN active_runs, NEW failed \in BOOLEAN, advance_step(id, failed)
  PROVE  IInv'
<1> DEFINE old == active_runs[id]
           run == Reported(old)
           next == [run EXCEPT !.current_step = @ + 1]
<1>1. /\ RunInv(old) /\ old \in SopRun /\ old.run_id = id /\ Issued(id)
      /\ id \in DOMAIN state_files => Matches(state_files[id], old)
  BY ActiveRun
<1>2. UNCHANGED <<sops, run_counter, deterministic_savings, state_files, now, reconstructed>>
  BY DEF advance_step
<1>3. next.current_step = old.current_step + 1 /\ run.total_steps = old.total_steps
      /\ run.run_id = id
  BY <1>1 DEF SopRun, Reported
<1>4. CASE \E status \in {"Failed", "Completed"} :
             /\ status = "Completed" => next.current_step > run.total_steps
             /\ finish_run(run, status) /\ action' = Act(status, run)
             /\ UNCHANGED poisoned
  <2>1. PICK status \in {"Failed", "Completed"} :
             /\ status = "Completed" => next.current_step > run.total_steps
             /\ finish_run(run, status) /\ action' = Act(status, run)
             /\ UNCHANGED poisoned
    BY <1>4
  <2>2. run \in SopRun /\ FinInv([run EXCEPT !.status = status, !.completed_at = now])
    <3>1. \/ status = "Failed"
          \/ status = "Completed" /\ old.current_step + 1 > old.total_steps
      BY <1>3, <2>1
    <3> DEFINE zero == [Reported(old) EXCEPT !.llm_calls_saved = @ + 0]
    <3>2. zero = run
      BY <1>1, NoCalls
    <3>3. zero \in SopRun /\ FinInv([zero EXCEPT !.status = status, !.completed_at = now])
      BY <3>1, ReportedFinishes
    <3> HIDE DEF run, zero
    <3> QED
      BY <3>2, <3>3
  <2>3. /\ ActiveInv(active_runs') /\ FinishedInv(finished_runs')
        /\ FilesInv(state_files, active_runs')
        /\ DOMAIN active_runs' \subseteq DOMAIN active_runs
        /\ \A i \in DOMAIN finished_runs' : Issued(finished_runs'[i].run_id)
    BY <1>1, <1>3, <2>1, <2>2, FinishRun
  <2>4. action' \in ActionType
    BY <2>1, <2>2, ActType DEF Tag
  <2>5. \A x \in DOMAIN active_runs' \cup DOMAIN state_files' : Issued(x)
    BY <1>2, <2>3, StillIssued
  <2> QED
    BY <1>2, <2>1, <2>3, <2>4, <2>5, Assemble DEF IInv, RestInv
<1>5. CASE /\ next.current_step <= run.total_steps
           /\ \/ resolve_step_action(next) /\ UNCHANGED poisoned
              \/ panic(next)
           /\ UNCHANGED finished_runs
  <2>1. RunInv(next) /\ next.run_id = id /\ old.step_results \subseteq next.step_results
        /\ next.total_steps = old.total_steps
    <3>1. [Reported(old) EXCEPT !.llm_calls_saved = @ + 0] = run
      BY <1>1, NoCalls
    <3>2. old.current_step + 1 <= old.total_steps
      BY <1>3, <1>5
    <3> HIDE DEF run, old
    <3> QED
      BY <1>1, <3>1, <3>2, Advanced
  <2>2. next.run_id \in DOMAIN state_files =>
          Matches(state_files[next.run_id], next)
    BY <1>1, <2>1 DEF Matches
  <2>3. /\ ActiveInv(active_runs') /\ FilesInv(state_files, active_runs')
        /\ DOMAIN active_runs' = DOMAIN active_runs \cup {id}
        /\ action' \in ActionType /\ poisoned' \in BOOLEAN
    <3> HIDE DEF next
    <3>1. CASE panic(next)
      BY <2>1, <2>2, <3>1, Panic
    <3>2. CASE resolve_step_action(next) /\ UNCHANGED poisoned
      BY <2>1, <2>2, <3>2, ResolveStep DEF IInv, RestInv
    <3> QED
      BY <1>5, <3>1, <3>2
  <2>4. \A x \in DOMAIN active_runs' \cup DOMAIN state_files' : Issued(x)
    BY <1>2, <2>3, StillIssued
  <2>5. \A i \in DOMAIN finished_runs' : Issued(finished_runs'[i].run_id)
    BY <1>5 DEF IInv, IssuedInv
  <2> QED
    BY <1>2, <1>5, <2>3, <2>4, <2>5, Assemble DEF IInv, RestInv
<1> QED
  BY <1>4, <1>5 DEF advance_step

\* Saving adds a natural number of calls.
LEMMA SaveType ==
  ASSUME IInv, NEW calls \in Nat, Save(calls)
  PROVE  deterministic_savings' \in [total_llm_calls_saved: Nat, total_runs: Nat]
  BY DEF IInv, RestInv, Save

LEMMA AdvanceDeterministicIInv ==
  ASSUME IInv, NEW id \in DOMAIN active_runs, advance_deterministic_step(id)
  PROVE  IInv'
<1> DEFINE old == active_runs[id]
           run == [Reported(old) EXCEPT !.llm_calls_saved = @ + 1]
           next == [run EXCEPT !.current_step = @ + 1]
<1>1. /\ RunInv(old) /\ old \in SopRun /\ old.run_id = id /\ Issued(id)
      /\ id \in DOMAIN state_files => Matches(state_files[id], old)
  BY ActiveRun
<1>2. UNCHANGED <<sops, run_counter, now, reconstructed>>
  BY DEF advance_deterministic_step
<1>3. next.current_step = old.current_step + 1 /\ run.total_steps = old.total_steps
      /\ run.run_id = id
  BY <1>1 DEF SopRun, Reported
<1>4. CASE /\ next.current_step > run.total_steps
           /\ Save(run.llm_calls_saved)
           /\ finish_run(run, "Completed") /\ action' = Act("Completed", run)
           /\ UNCHANGED <<state_files, poisoned>>
  <2>1. run \in SopRun /\ FinInv([run EXCEPT !.status = "Completed", !.completed_at = now])
    <3>1. old.current_step + 1 > old.total_steps
      BY <1>3, <1>4
    <3> QED
      BY <3>1, ReportedFinishes
  <2>2. /\ ActiveInv(active_runs') /\ FinishedInv(finished_runs')
        /\ FilesInv(state_files, active_runs')
        /\ DOMAIN active_runs' \subseteq DOMAIN active_runs
        /\ \A i \in DOMAIN finished_runs' : Issued(finished_runs'[i].run_id)
    <3> HIDE DEF run
    <3> QED
      BY <1>1, <1>3, <1>4, <2>1, FinishRun
  <2>3. action' \in ActionType
    <3> HIDE DEF run
    <3> QED
      BY <1>4, <2>1, ActType DEF Tag
  <2>4. deterministic_savings' \in [total_llm_calls_saved: Nat, total_runs: Nat]
    <3>1. run.llm_calls_saved \in Nat
      BY <2>1 DEF SopRun
    <3> HIDE DEF run
    <3> QED
      BY <1>4, <3>1, SaveType
  <2>5. \A x \in DOMAIN active_runs' \cup DOMAIN state_files' : Issued(x)
    BY <1>4, <2>2, StillIssued
  <2> QED
    BY <1>2, <1>4, <2>2, <2>3, <2>4, <2>5, Assemble DEF IInv, RestInv
<1>5. CASE /\ next.current_step <= run.total_steps
           /\ \/ resolve_deterministic_action(next) /\ UNCHANGED poisoned
              \/ panic(next) /\ UNCHANGED state_files
           /\ UNCHANGED <<deterministic_savings, finished_runs>>
  <2>1. RunInv(next) /\ next.run_id = id /\ old.step_results \subseteq next.step_results
        /\ next.total_steps = old.total_steps
    <3>1. old.current_step + 1 <= old.total_steps
      BY <1>3, <1>5
    <3> QED
      BY <1>1, <3>1, Advanced
  <2>2. next.run_id \in DOMAIN state_files =>
          Matches(state_files[next.run_id], next)
    BY <1>1, <2>1 DEF Matches
  <2>3. /\ ActiveInv(active_runs') /\ FilesInv(state_files', active_runs')
        /\ DOMAIN active_runs' = DOMAIN active_runs \cup {id}
        /\ DOMAIN state_files' \subseteq DOMAIN state_files \cup {id}
        /\ action' \in ActionType /\ poisoned' \in BOOLEAN
    <3> HIDE DEF next
    <3>1. CASE panic(next) /\ UNCHANGED state_files
      BY <2>1, <2>2, <3>1, Panic
    <3>2. CASE resolve_deterministic_action(next) /\ UNCHANGED poisoned
      BY <2>1, <2>2, <3>2, ResolveDeterministic DEF IInv, RestInv
    <3> QED
      BY <1>5, <3>1, <3>2
  <2>4. \A x \in DOMAIN active_runs' \cup DOMAIN state_files' : Issued(x)
    BY <1>1, <2>3 DEF IInv, IssuedInv
  <2>5. \A i \in DOMAIN finished_runs' : Issued(finished_runs'[i].run_id)
    BY <1>5 DEF IInv, IssuedInv
  <2> QED
    BY <1>2, <1>5, <2>3, <2>4, <2>5, Assemble DEF IInv, RestInv
<1> QED
  BY <1>4, <1>5 DEF advance_deterministic_step

\* What resuming makes of a paused run: rebuilt from the file or found active,
\* it stands right behind the last step the file calls completed.
LEMMA Resumed ==
  ASSUME IInv, NEW id \in DOMAIN state_files, NEW base, NEW next,
         \/ id \notin DOMAIN active_runs /\ base = sop_run_from_state(state_files[id])
         \/ id \in DOMAIN active_runs /\ base = active_runs[id],
         next = [base EXCEPT !.status = "Running", !.waiting_since = Never,
                             !.llm_calls_saved = state_files[id].llm_calls_saved,
                             !.current_step = state_files[id].last_completed_step + 1],
         state_files[id].last_completed_step + 1 <= state_files[id].total_steps
  PROVE  RunInv(next) /\ next.run_id = id /\ Matches(state_files[id], next)
<1> DEFINE state == state_files[id]
<1>1. FileInv(state) /\ state \in DeterministicRunState /\ state.run_id = id /\ id \in RunId
  BY DEF IInv, FilesInv, FileInv
<1>2. /\ base \in SopRun /\ base.run_id = id /\ base.completed_at = Never
      /\ Matches(state, base)
  <2>1. CASE base = sop_run_from_state(state)
    BY <1>1, <2>1 DEF Matches, sop_run_from_state, SopRun, DeterministicRunState, ActiveStatus, Time
  <2>2. CASE id \in DOMAIN active_runs /\ base = active_runs[id]
    BY <2>2, ActiveRun DEF RunInv
  <2> QED
    BY <2>1, <2>2
<1>3. /\ state.last_completed_step \in Nat /\ state.llm_calls_saved \in Nat
      /\ state.total_steps \in Nat
  BY <1>1 DEF DeterministicRunState
<1>4. next \in SopRun
  <2>1. Never \in Time /\ "Running" \in ActiveStatus
    BY DEF Time, ActiveStatus
  <2>2. state.last_completed_step + 1 \in Nat
    BY <1>3
  <2> QED
    BY <1>2, <1>3, <2>1, <2>2 DEF SopRun
<1>5. /\ next.current_step = state.last_completed_step + 1
      /\ next.llm_calls_saved = state.llm_calls_saved
      /\ next.total_steps = state.total_steps /\ next.status = "Running"
      /\ next.completed_at = Never /\ next.step_results = base.step_results
      /\ next.run_id = id
  BY <1>2 DEF SopRun, Matches
<1> QED
  BY <1>1, <1>2, <1>3, <1>4, <1>5 DEF Matches, RunInv, FileInv, ActiveStatus

LEMMA ResumeIInv ==
  ASSUME IInv, NEW id \in DOMAIN state_files, resume_deterministic_run(id)
  PROVE  IInv'
<1> DEFINE state == state_files[id]
           found == id \in DOMAIN active_runs
           base == IF found THEN active_runs[id] ELSE sop_run_from_state(state)
           resumed == [base EXCEPT !.status = "Running", !.waiting_since = Never,
                                   !.llm_calls_saved = state.llm_calls_saved]
           next == [resumed EXCEPT !.current_step = state.last_completed_step + 1]
           flat == [base EXCEPT !.status = "Running", !.waiting_since = Never,
                                !.llm_calls_saved = state.llm_calls_saved,
                                !.current_step = state.last_completed_step + 1]
<1>1. FileInv(state) /\ state \in DeterministicRunState /\ id \in RunId /\ Issued(id)
      /\ state.run_id = id
  BY DEF IInv, FilesInv, FileInv, IssuedInv
<1>2. base \in SopRun
  <2>1. CASE found
    BY <2>1, ActiveRun
  <2>2. CASE ~found
    BY <1>1, <2>2 DEF sop_run_from_state, SopRun, DeterministicRunState, ActiveStatus, Time
  <2> QED
    BY <2>1, <2>2
<1>3. state.last_completed_step + 1 <= state.total_steps
  BY <1>1 DEF FileInv, DeterministicRunState
<1>4. next = flat /\ next.current_step = state.last_completed_step + 1
  BY <1>2 DEF SopRun
<1>5. RunInv(next) /\ next.run_id = id /\ Matches(state, next)
  <2> HIDE DEF next
  <2>1. \/ id \notin DOMAIN active_runs /\ base = sop_run_from_state(state)
        \/ id \in DOMAIN active_runs /\ base = active_runs[id]
    OBVIOUS
  <2> HIDE DEF base
  <2> QED
    BY <1>3, <1>4, <2>1, Resumed
<1>6. UNCHANGED <<sops, run_counter, poisoned, now>>
  BY DEF resume_deterministic_run
<1>7. reconstructed' \in {reconstructed, reconstructed \cup {id}}
  BY DEF resume_deterministic_run
<1>8. ~(next.current_step > state.total_steps)
  <2>1. state.last_completed_step \in Nat /\ state.total_steps \in Nat
    BY <1>1 DEF DeterministicRunState
  <2> QED
    BY <1>3, <1>4, <2>1
<1>9. /\ \/ resolve_deterministic_action(next)
         \/ /\ active_runs' = Put(active_runs, id, next)
            /\ action' = Act("Err", next)
            /\ UNCHANGED state_files
      /\ UNCHANGED <<deterministic_savings, finished_runs>>
  BY <1>8 DEF resume_deterministic_run
<1>10. /\ ActiveInv(active_runs') /\ FilesInv(state_files', active_runs')
       /\ DOMAIN active_runs' = DOMAIN active_runs \cup {id}
       /\ DOMAIN state_files' \subseteq DOMAIN state_files \cup {id}
       /\ action' \in ActionType
  <2> HIDE DEF next
  <2>1. CASE resolve_deterministic_action(next)
    BY <1>5, <2>1, ResolveDeterministic
  <2>2. CASE /\ active_runs' = Put(active_runs, id, next)
             /\ action' = Act("Err", next)
             /\ UNCHANGED state_files
    <3>1. ActiveInv(active_runs') /\ FilesInv(state_files, active_runs')
      BY <1>5, <2>2, ActivePut, FilesActivePut DEF IInv
    <3>2. action' \in ActionType
      BY <1>5, <2>2, ActType DEF Tag, RunInv
    <3> QED
      BY <2>2, <3>1, <3>2 DEF Put
  <2> QED
    BY <1>9, <2>1, <2>2
<1>11. \A x \in DOMAIN active_runs' \cup DOMAIN state_files' : Issued(x)
  BY <1>1, <1>10 DEF IInv, IssuedInv
<1>12. \A i \in DOMAIN finished_runs' : Issued(finished_runs'[i].run_id)
  BY <1>9 DEF IInv, IssuedInv
<1>13. reconstructed' \subseteq RunId
  BY <1>1, <1>7 DEF IInv, RestInv
<1> QED
  BY <1>6, <1>9, <1>10, <1>11, <1>12, <1>13, Assemble DEF IInv, RestInv

\* A later clock leaves every issued id issued, whatever the counter.
LEMMA LaterIssued ==
  ASSUME IInv, now' = now + 1, NEW n, NEW id \in RunId, Issued(id)
  PROVE  IssuedBy(id, now', n)
  BY DEF IInv, RestInv, RunId, Issued, IssuedBy

LEMMA TickIInv == ASSUME IInv, Tick PROVE IInv'
<1>1. DOMAIN active_runs \cup DOMAIN state_files \subseteq RunId
  BY DEF IInv, ActiveInv, FilesInv
<1>2. \A i \in DOMAIN finished_runs : finished_runs[i].run_id \in RunId
  BY DEF IInv, FinishedInv, FinInv, SopRun
<1>3. /\ now' = now + 1
      /\ UNCHANGED <<sops, active_runs, finished_runs, run_counter, deterministic_savings,
                     state_files, action, poisoned, reconstructed>>
  BY DEF Tick
<1>4. IssuedInv'
  <2>1. \A id \in DOMAIN active_runs \cup DOMAIN state_files : IssuedBy(id, now', run_counter)
    BY <1>1, <1>3, LaterIssued DEF IInv, IssuedInv
  <2>2. \A i \in DOMAIN finished_runs : IssuedBy(finished_runs[i].run_id, now', run_counter)
    BY <1>2, <1>3, LaterIssued DEF IInv, IssuedInv
  <2> QED
    BY <1>3, <2>1, <2>2 DEF IssuedInv, Issued
<1>5. SopsInv' /\ RestInv'
  BY <1>3 DEF IInv, SopsInv, RestInv
<1>6. ActiveInv(active_runs') /\ FinishedInv(finished_runs') /\ FilesInv(state_files', active_runs')
  BY <1>3 DEF IInv
<1> QED
  BY <1>4, <1>5, <1>6 DEF IInv

LEMMA RestartIInv == ASSUME IInv, Restart PROVE IInv'
<1>1. /\ now' = now + 1 /\ sops' \in Catalogs /\ run_counter' = 0
      /\ deterministic_savings' = [total_llm_calls_saved |-> 0, total_runs |-> 0]
      /\ action' = NoAction /\ poisoned' = FALSE /\ reconstructed' = {}
      /\ state_files' = state_files
  BY DEF Restart
<1>2. /\ DOMAIN active_runs' = {} /\ DOMAIN finished_runs' = {}
      /\ finished_runs' \in Seq(SopRun)
  BY DEF Restart
<1>3. SopsInv'
  BY <1>1, ConstantsAssumption DEF SopsInv
<1>4. RestInv'
  <2>1. NoAction \in ActionType
    BY DEF NoAction, ActionType, Tag, RunId
  <2>2. now' \in Nat
    BY <1>1 DEF IInv, RestInv
  <2>3. deterministic_savings' \in [total_llm_calls_saved: Nat, total_runs: Nat]
    BY <1>1
  <2>4. run_counter' \in Nat /\ poisoned' \in BOOLEAN /\ reconstructed' \subseteq RunId
    BY <1>1
  <2> QED
    BY <1>1, <2>1, <2>2, <2>3, <2>4 DEF RestInv, ActionType
<1>5. ActiveInv(active_runs') /\ FinishedInv(finished_runs')
  BY <1>2 DEF ActiveInv, FinishedInv
<1>6. FilesInv(state_files', active_runs')
  BY <1>1, <1>2 DEF IInv, FilesInv
<1>7. IssuedInv'
  <2>1. \A id \in DOMAIN state_files : IssuedBy(id, now', 0)
    BY <1>1, LaterIssued DEF IInv, IssuedInv, FilesInv
  <2> QED
    BY <1>1, <1>2, <2>1 DEF IssuedInv, Issued
<1> QED
  BY <1>3, <1>4, <1>5, <1>6, <1>7 DEF IInv

LEMMA NextIInv == IInv /\ [Next]_vars => IInv'
<1> SUFFICES ASSUME IInv, [Next]_vars PROVE IInv'
  OBVIOUS
<1>1. CASE reload
  BY <1>1, ReloadIInv
<1>2. ASSUME NEW name \in SopName, start_run(name) \/ start_deterministic_run(name)
      PROVE  IInv'
  BY <1>2, StartIInv
<1>3. ASSUME NEW id \in DOMAIN active_runs, NEW failed \in BOOLEAN, advance_step(id, failed)
      PROVE  IInv'
  BY <1>3, AdvanceIInv
<1>4. ASSUME NEW id \in DOMAIN active_runs, cancel_run(id) PROVE IInv'
  BY <1>4, CancelIInv
<1>5. ASSUME NEW id \in DOMAIN active_runs, approve_step(id) PROVE IInv'
  BY <1>5, ApproveIInv
<1>6. ASSUME NEW id \in DOMAIN active_runs, advance_deterministic_step(id) PROVE IInv'
  BY <1>6, AdvanceDeterministicIInv
<1>7. ASSUME NEW id \in DOMAIN state_files, resume_deterministic_run(id) PROVE IInv'
  BY <1>7, ResumeIInv
<1>8. CASE Tick
  BY <1>8, TickIInv
<1>9. CASE Restart
  BY <1>9, RestartIInv
<1>10. CASE UNCHANGED vars
  BY <1>10 DEF vars, IInv, SopsInv, RestInv, IssuedInv, Issued
<1> QED
  BY <1>1, <1>2, <1>3, <1>4, <1>5, <1>6, <1>7, <1>8, <1>9, <1>10 DEF Next

-----------------------------------------------------------------------------
(* Theorems *)

\* The inductive invariant holds of every reachable state.
THEOREM Invariance == Spec => []IInv
  BY InitIInv, NextIInv, PTL DEF Spec

\* Every variable keeps its type; only active runs are unfinished and only
\* finished ones have a completion time.
THEOREM TypeCorrect == Spec => []TypeOK
<1>1. IInv => TypeOK
  BY DEF IInv, SopsInv, ActiveInv, FinishedInv, FilesInv, RestInv, RunInv, FinInv, FileInv, TypeOK
<1> QED
  BY <1>1, Invariance, PTL

\* No run passes a step without a recorded result, through retried results,
\* reloads, crashes and resumptions.
THEOREM NoStepSkippedHolds == Spec => []NoStepSkipped
<1>1. IInv => NoStepSkipped
  BY DEF IInv, ActiveInv, FinishedInv, RunInv, FinInv, NoStepSkipped
<1> QED
  BY <1>1, Invariance, PTL

\* A state file resumes only behind steps whose output it holds, and claims
\* no result that its run has not got.
THEOREM StateFilesSound == Spec => []StateFileSound
<1>1. IInv => StateFileSound
  BY DEF IInv, FilesInv, FileInv, Matches, StateFileSound
<1> QED
  BY <1>1, Invariance, PTL

\* No run claims more saved LLM calls than the steps it has passed.
THEOREM SavingsHold == Spec => []SavingsBounded
<1>1. IInv => SavingsBounded
  BY DEF IInv, ActiveInv, FinishedInv, FilesInv, RunInv, FinInv, FileInv, SavingsBounded
<1> QED
  BY <1>1, Invariance, PTL

\* A new run gets an id that no run, finished run or state file has.
THEOREM RunIdsFresh == Spec => FreshRunIds
<1> DEFINE Fresh == /\ next_run_id \notin DOMAIN active_runs \cup DOMAIN state_files
                    /\ \A i \in DOMAIN finished_runs : finished_runs[i].run_id # next_run_id
<1>1. IInv => Fresh
  <2>1. IInv => ~Issued(next_run_id)
    BY DEF IInv, RestInv, Issued, IssuedBy, next_run_id
  <2> QED
    BY <2>1 DEF IInv, IssuedInv
<1>2. IInv /\ [Next]_vars => [Started => Fresh]_vars
  BY <1>1
<1> QED
  BY <1>2, Invariance, PTL DEF Spec, FreshRunIds

-----------------------------------------------------------------------------
(* What a step does to the sets of runs *)

Starts ==
  /\ DOMAIN active_runs' = DOMAIN active_runs \cup {next_run_id}
  /\ Cardinality(DOMAIN active_runs) < MaxConcurrentTotal
  /\ UNCHANGED <<finished_runs, reconstructed>>

Finishes ==
  /\ \E id \in DOMAIN active_runs, rec \in SopRun :
       /\ rec.run_id = id /\ rec.completed_at = now
       /\ DOMAIN active_runs' = DOMAIN active_runs \ {id}
       /\ finished_runs' = Evicted(Append(finished_runs, rec))
  /\ UNCHANGED reconstructed

Stays == /\ DOMAIN active_runs' = DOMAIN active_runs
         /\ UNCHANGED <<finished_runs, reconstructed>>

Rebuilds ==
  /\ \E id \in DOMAIN state_files :
       /\ DOMAIN active_runs' = DOMAIN active_runs \cup {id}
       /\ reconstructed' = reconstructed \cup {id}
  /\ UNCHANGED finished_runs

Forgets == /\ active_runs' = <<>>
           /\ finished_runs' = <<>>
           /\ reconstructed' = {}

\* Handing out a step, at whatever gate, puts the run among the active ones.
LEMMA HandOutDomain ==
  ASSUME NEW run,
         resolve_step_action(run) \/ resolve_deterministic_action(run) \/ panic(run)
  PROVE  DOMAIN active_runs' = DOMAIN active_runs \cup {run.run_id}
<1>1. \E r : active_runs' = Put(active_runs, run.run_id, r)
  BY DEF resolve_step_action, resolve_deterministic_action, panic
<1> QED
  BY <1>1 DEF Put

\* finish_run moves one run from the active to the finished ones.
LEMMA FinishShape ==
  ASSUME IInv, NEW run \in SopRun, run.run_id \in DOMAIN active_runs, NEW status \in FinalStatus,
         finish_run(run, status), UNCHANGED reconstructed
  PROVE  Finishes
<1> DEFINE rec == [run EXCEPT !.status = status, !.completed_at = now]
<1>1. now \in Time /\ status \in ActiveStatus \cup FinalStatus
  BY DEF IInv, RestInv, Time
<1>2. rec \in SopRun /\ rec.run_id = run.run_id /\ rec.completed_at = now
  BY <1>1 DEF SopRun
<1>3. /\ DOMAIN active_runs' = DOMAIN active_runs \ {run.run_id}
      /\ finished_runs' = Evicted(Append(finished_runs, rec))
  BY DEF finish_run, Drop
<1> HIDE DEF rec
<1> QED
  BY <1>2, <1>3 DEF Finishes

LEMMA StartShape ==
  ASSUME IInv, NEW name, start_run(name) \/ start_deterministic_run(name)
  PROVE  Starts
<1>1. CanStartRun(name)
      /\ (resolve_step_action(new_run(name)) \/ resolve_deterministic_action(new_run(name)))
  BY DEF start_run, start_deterministic_run
<1>2. new_run(name).run_id = next_run_id
  BY DEF new_run
<1> QED
  BY <1>1, <1>2, HandOutDomain DEF Starts, CanStartRun, can_start, below_limits

LEMMA AdvanceShape ==
  ASSUME IInv, NEW id \in DOMAIN active_runs, NEW failed \in BOOLEAN,
         advance_step(id, failed) \/ advance_deterministic_step(id)
  PROVE  Finishes \/ Stays
<1>1. active_runs[id] \in SopRun /\ active_runs[id].run_id = id
  BY ActiveRun
<1>2. Reported(active_runs[id]) \in SopRun /\ Reported(active_runs[id]).run_id = id
  BY <1>1 DEF SopRun, Reported
<1> DEFINE Advances(run) ==
      \/ \E status \in FinalStatus : finish_run(run, status) /\ UNCHANGED reconstructed
      \/ /\ LET next == [run EXCEPT !.current_step = @ + 1]
            IN resolve_step_action(next) \/ resolve_deterministic_action(next) \/ panic(next)
         /\ UNCHANGED <<finished_runs, reconstructed>>
<1>3. ASSUME NEW run \in SopRun, run.run_id = id, Advances(run)
      PROVE  Finishes \/ Stays
  <2> DEFINE next == [run EXCEPT !.current_step = @ + 1]
  <2>1. next.run_id = id
    BY <1>3 DEF SopRun
  <2>2. CASE \E status \in FinalStatus : finish_run(run, status) /\ UNCHANGED reconstructed
    BY <1>3, <2>2, FinishShape
  <2>3. CASE /\ resolve_step_action(next) \/ resolve_deterministic_action(next) \/ panic(next)
             /\ UNCHANGED <<finished_runs, reconstructed>>
    <3> HIDE DEF next
    <3>1. DOMAIN active_runs' = DOMAIN active_runs \cup {id}
      BY <2>1, <2>3, HandOutDomain
    <3> QED
      BY <2>3, <3>1 DEF Stays
  <2> QED
    BY <1>3, <2>2, <2>3
<1>4. CASE advance_step(id, failed)
  <2> DEFINE run == Reported(active_runs[id])
  <2>1. Advances(run)
    BY <1>4 DEF advance_step, FinalStatus
  <2> HIDE DEF run, Advances
  <2>2. run \in SopRun /\ run.run_id = id
    BY <1>2 DEF run
  <2> QED
    BY <1>3, <2>1, <2>2
<1>5. CASE advance_deterministic_step(id)
  <2> DEFINE run == [Reported(active_runs[id]) EXCEPT !.llm_calls_saved = @ + 1]
  <2>1. Advances(run)
    BY <1>5 DEF advance_deterministic_step, FinalStatus
  <2>2. run \in SopRun /\ run.run_id = id
    BY <1>2 DEF SopRun
  <2> HIDE DEF run, Advances
  <2> QED
    BY <1>3, <2>1, <2>2
<1> QED
  BY <1>4, <1>5

LEMMA ResumeShape ==
  ASSUME IInv, NEW id \in DOMAIN state_files, resume_deterministic_run(id)
  PROVE  Finishes \/ Stays \/ Rebuilds
<1>1. FileInv(state_files[id]) /\ state_files[id].run_id = id /\ id \in RunId
      /\ state_files[id] \in DeterministicRunState
  BY DEF IInv, FilesInv, FileInv
<1> DEFINE found == id \in DOMAIN active_runs
           base == IF found THEN active_runs[id] ELSE sop_run_from_state(state_files[id])
           resumed == [base EXCEPT !.status = "Running", !.waiting_since = Never,
                                   !.llm_calls_saved = state_files[id].llm_calls_saved]
           next == [resumed EXCEPT !.current_step = state_files[id].last_completed_step + 1]
<1>2. base \in SopRun /\ base.run_id = id
  <2>1. CASE found
    BY <2>1, ActiveRun
  <2>2. CASE ~found
    BY <1>1, <2>2 DEF sop_run_from_state, SopRun, DeterministicRunState, ActiveStatus, Time
  <2> QED
    BY <2>1, <2>2
<1>3. /\ next.run_id = id
      /\ next.current_step = state_files[id].last_completed_step + 1
  BY <1>2 DEF SopRun
<1>4. ~(next.current_step > state_files[id].total_steps)
  BY <1>1, <1>3 DEF FileInv, DeterministicRunState
<1>5. /\ \/ resolve_deterministic_action(next)
         \/ active_runs' = Put(active_runs, id, next)
      /\ UNCHANGED finished_runs
      /\ reconstructed' = IF found THEN reconstructed ELSE reconstructed \cup {id}
  BY <1>4 DEF resume_deterministic_run
<1>6. DOMAIN active_runs' = DOMAIN active_runs \cup {id}
  <2> HIDE DEF next
  <2> QED
    BY <1>3, <1>5, HandOutDomain DEF Put
<1> QED
  BY <1>5, <1>6 DEF Stays, Rebuilds

LEMMA NextShape ==
  IInv /\ [Next]_vars => Starts \/ Finishes \/ Stays \/ Rebuilds \/ Forgets
<1> SUFFICES ASSUME IInv, [Next]_vars
             PROVE  Starts \/ Finishes \/ Stays \/ Rebuilds \/ Forgets
  OBVIOUS
<1>1. CASE reload \/ Tick \/ UNCHANGED vars
  BY <1>1 DEF reload, Tick, vars, Stays
<1>2. ASSUME NEW name \in SopName, start_run(name) \/ start_deterministic_run(name)
      PROVE  Starts
  BY <1>2, StartShape
<1>3. ASSUME NEW id \in DOMAIN active_runs, NEW failed \in BOOLEAN,
             advance_step(id, failed) \/ advance_deterministic_step(id)
      PROVE  Finishes \/ Stays
  BY <1>3, AdvanceShape
<1>4. ASSUME NEW id \in DOMAIN active_runs, cancel_run(id) PROVE Finishes
  BY <1>4, ActiveRun, FinishShape DEF cancel_run, FinalStatus
<1>5. ASSUME NEW id \in DOMAIN active_runs, approve_step(id) PROVE Stays
  <2> DEFINE run == [active_runs[id] EXCEPT !.status = "Running", !.waiting_since = Never]
  <2>1. run.run_id = id
    BY ActiveRun DEF SopRun
  <2>2. /\ active_runs' = Put(active_runs, id, run) \/ panic(run)
        /\ UNCHANGED <<finished_runs, reconstructed>>
    BY <1>5 DEF approve_step
  <2> HIDE DEF run
  <2>3. DOMAIN active_runs' = DOMAIN active_runs \cup {id}
    BY <2>1, <2>2, HandOutDomain DEF Put
  <2> QED
    BY <2>2, <2>3 DEF Stays
<1>6. ASSUME NEW id \in DOMAIN state_files, resume_deterministic_run(id)
      PROVE  Finishes \/ Stays \/ Rebuilds
  BY <1>6, ResumeShape
<1>7. CASE Restart
  BY <1>7 DEF Restart, Forgets
<1> QED
  BY <1>1, <1>2, <1>3, <1>4, <1>5, <1>6, <1>7 DEF Next

-----------------------------------------------------------------------------
(* Concurrency and finishing *)

ConcurrencyInv == IsFiniteSet(DOMAIN active_runs) /\ ConcurrencyLimit

LEMMA ConcurrencyStep ==
  ConcurrencyInv /\ (Starts \/ Finishes \/ Stays \/ Rebuilds \/ Forgets) => ConcurrencyInv'
<1> SUFFICES ASSUME ConcurrencyInv, Starts \/ Finishes \/ Stays \/ Rebuilds \/ Forgets
             PROVE  ConcurrencyInv'
  OBVIOUS
<1> DEFINE old == DOMAIN active_runs
           new == DOMAIN active_runs'
<1>1. IsFiniteSet(old) /\ IsFiniteSet(old \ reconstructed)
      /\ Cardinality(old \ reconstructed) <= MaxConcurrentTotal
  BY FS_Subset DEF ConcurrencyInv, ConcurrencyLimit
<1>2. MaxConcurrentTotal \in Nat
  BY ConstantsAssumption
<1>3. CASE Starts
  <2>1. new = old \cup {next_run_id} /\ Cardinality(old) < MaxConcurrentTotal
    BY <1>3 DEF Starts
  <2>2. IsFiniteSet(new) /\ Cardinality(new) <= Cardinality(old) + 1
    <3>1. /\ IsFiniteSet(old \cup {next_run_id})
          /\ \/ Cardinality(old \cup {next_run_id}) = Cardinality(old)
             \/ Cardinality(old \cup {next_run_id}) = Cardinality(old) + 1
      BY <1>1, FS_AddElement
    <3>2. Cardinality(old) \in Nat
      BY <1>1, FS_CardinalityType
    <3> HIDE DEF old, new
    <3> QED
      BY <2>1, <3>1, <3>2
  <2>3. Cardinality(new \ reconstructed') <= Cardinality(new)
    BY <2>2, FS_Subset
  <2>4. IsFiniteSet(new \ reconstructed')
    BY <2>2, FS_Subset
  <2>5. Cardinality(old) \in Nat /\ Cardinality(new) \in Nat
        /\ Cardinality(new \ reconstructed') \in Nat
    BY <1>1, <2>2, <2>4, FS_CardinalityType
  <2> QED
    BY <1>2, <2>1, <2>2, <2>3, <2>5 DEF ConcurrencyInv, ConcurrencyLimit
<1>4. ASSUME new \ reconstructed' \subseteq old \ reconstructed, IsFiniteSet(new)
      PROVE  ConcurrencyInv'
  <2>1. Cardinality(new \ reconstructed') <= Cardinality(old \ reconstructed)
    BY <1>1, <1>4, FS_Subset
  <2>2. IsFiniteSet(new \ reconstructed')
    BY <1>4, FS_Subset
  <2>3. Cardinality(new \ reconstructed') \in Nat /\ Cardinality(old \ reconstructed) \in Nat
    BY <1>1, <2>2, FS_CardinalityType
  <2> QED
    BY <1>1, <1>2, <1>4, <2>1, <2>3 DEF ConcurrencyInv, ConcurrencyLimit
<1>5. CASE Finishes
  <2>1. new \subseteq old /\ reconstructed' = reconstructed
    BY <1>5 DEF Finishes
  <2> QED
    BY <1>1, <1>4, <2>1, FS_Subset
<1>6. CASE Stays
  BY <1>1, <1>4, <1>6 DEF Stays
<1>7. CASE Rebuilds
  <2>1. PICK id : new = old \cup {id} /\ reconstructed' = reconstructed \cup {id}
    BY <1>7 DEF Rebuilds
  <2>2. IsFiniteSet(new)
    BY <1>1, <2>1, FS_AddElement
  <2> QED
    BY <1>4, <2>1, <2>2
<1>8. CASE Forgets
  <2>1. new = {}
    BY <1>8 DEF Forgets
  <2> QED
    BY <1>4, <2>1, FS_EmptySet
<1> QED
  BY <1>3, <1>5, <1>6, <1>7, <1>8

\* No more than max_concurrent_total runs that start_run admitted are active.
THEOREM ConcurrencyLimitHolds == Spec => []ConcurrencyLimit
<1>1. Init => ConcurrencyInv
  <2> SUFFICES ASSUME Init PROVE ConcurrencyInv
    OBVIOUS
  <2>1. DOMAIN active_runs = {} /\ DOMAIN active_runs \ reconstructed = {}
    BY DEF Init
  <2> QED
    BY <2>1, FS_EmptySet, ConstantsAssumption DEF ConcurrencyInv, ConcurrencyLimit
<1>2. IInv /\ ConcurrencyInv /\ [Next]_vars => ConcurrencyInv'
  BY NextShape, ConcurrencyStep
<1>3. ConcurrencyInv => ConcurrencyLimit
  BY DEF ConcurrencyInv
<1> QED
  BY <1>1, <1>2, <1>3, Invariance, PTL DEF Spec

\* Eviction shifts the remaining entries to the front, in their order.
LEMMA EvictedShift ==
  ASSUME NEW s \in Seq(SopRun)
  PROVE  \E d \in Nat : \A i \in DOMAIN Evicted(s) :
           i + d \in DOMAIN s /\ i \in Nat /\ Evicted(s)[i] = s[i + d]
<1>1. CASE MaxFinishedRuns > 0 /\ Len(s) > MaxFinishedRuns
  <2> DEFINE d == Len(s) - MaxFinishedRuns
  <2>1. MaxFinishedRuns \in Nat /\ Len(s) \in Nat
    BY ConstantsAssumption
  <2>2. d \in Nat /\ d + 1 \in 1..Len(s)
    BY <1>1, <2>1
  <2>3. Evicted(s) = SubSeq(s, d + 1, Len(s))
    BY <1>1 DEF Evicted
  <2>4. \A i \in DOMAIN Evicted(s) : i + d \in DOMAIN s /\ i \in Nat /\ Evicted(s)[i] = s[i + d]
    BY <2>1, <2>2, <2>3
  <2> QED
    BY <2>2, <2>4
<1>2. CASE ~(MaxFinishedRuns > 0 /\ Len(s) > MaxFinishedRuns)
  <2>1. \A i \in DOMAIN Evicted(s) : i + 0 \in DOMAIN s /\ i \in Nat /\ Evicted(s)[i] = s[i + 0]
    BY <1>2 DEF Evicted
  <2> QED
    BY <2>1
<1> QED
  BY <1>1, <1>2

\* A finished history stays without unexplained duplicates when a run that was
\* active is appended to it.
LEMMA FinishesOnce == IInv /\ FinishedOnce /\ Finishes => FinishedOnce'
<1> SUFFICES ASSUME IInv, FinishedOnce, Finishes PROVE FinishedOnce'
  OBVIOUS
<1>1. PICK id \in DOMAIN active_runs, rec \in SopRun :
        /\ rec.run_id = id
        /\ DOMAIN active_runs' = DOMAIN active_runs \ {id}
        /\ finished_runs' = Evicted(Append(finished_runs, rec))
  BY DEF Finishes
<1>2. reconstructed' = reconstructed
  BY DEF Finishes
<1> DEFINE all == Append(finished_runs, rec)
           n == Len(finished_runs)
<1>3. finished_runs \in Seq(SopRun) /\ all \in Seq(SopRun) /\ n \in Nat
  BY DEF IInv, FinishedInv
<1>4. /\ DOMAIN all = 1..(n + 1) /\ DOMAIN finished_runs = 1..n
      /\ all[n + 1] = rec /\ \A i \in 1..n : all[i] = finished_runs[i]
  BY <1>3
<1>5. \A i \in 1..n : finished_runs[i].run_id = id => id \in reconstructed
  BY <1>4 DEF FinishedOnce
<1> HIDE DEF all, n
<1>6. \A i, j \in DOMAIN all :
        i # j /\ all[i].run_id = all[j].run_id => all[i].run_id \in reconstructed
  <2> SUFFICES ASSUME NEW i \in 1..(n + 1), NEW j \in 1..(n + 1), i # j,
                      all[i].run_id = all[j].run_id
               PROVE  all[i].run_id \in reconstructed
    BY <1>4
  <2>1. CASE i \in 1..n /\ j \in 1..n
    BY <1>4, <2>1 DEF FinishedOnce
  <2>2. CASE i = n + 1
    <3>1. j \in 1..n
      BY <1>3, <2>2
    <3> QED
      BY <1>1, <1>4, <1>5, <2>2, <3>1
  <2>3. CASE j = n + 1
    <3>1. i \in 1..n
      BY <1>3, <2>3
    <3> QED
      BY <1>1, <1>4, <1>5, <2>3, <3>1
  <2> QED
    BY <1>3, <2>1, <2>2, <2>3
<1>7. \A i \in DOMAIN all :
        all[i].run_id \in DOMAIN active_runs' => all[i].run_id \in reconstructed
  <2> SUFFICES ASSUME NEW i \in 1..(n + 1), all[i].run_id \in DOMAIN active_runs'
               PROVE  all[i].run_id \in reconstructed
    BY <1>4
  <2>1. all[i].run_id # id /\ all[i].run_id \in DOMAIN active_runs
    BY <1>1
  <2>2. i # n + 1
    BY <1>1, <1>4, <2>1
  <2>3. i \in 1..n
    BY <1>3, <2>2
  <2> QED
    BY <1>4, <2>1, <2>3 DEF FinishedOnce
<1>8. PICK d \in Nat : \A i \in DOMAIN finished_runs' :
        i + d \in DOMAIN all /\ i \in Nat /\ finished_runs'[i] = all[i + d]
  BY <1>1, <1>3, EvictedShift DEF all
<1>9. ASSUME NEW i \in DOMAIN finished_runs', finished_runs'[i].run_id \in DOMAIN active_runs'
      PROVE  finished_runs'[i].run_id \in reconstructed'
  BY <1>2, <1>7, <1>8, <1>9
<1>10. ASSUME NEW i \in DOMAIN finished_runs', NEW j \in DOMAIN finished_runs', i # j,
              finished_runs'[i].run_id = finished_runs'[j].run_id
       PROVE  finished_runs'[i].run_id \in reconstructed'
  <2>1. i + d \in DOMAIN all /\ j + d \in DOMAIN all /\ i + d # j + d
    BY <1>8, <1>10
  <2>2. finished_runs'[i] = all[i + d] /\ finished_runs'[j] = all[j + d]
    BY <1>8
  <2> QED
    BY <1>2, <1>6, <1>10, <2>1, <2>2
<1> QED
  BY <1>9, <1>10 DEF FinishedOnce

\* A run finishes once: it is active and finished, or finished twice, only if
\* resume_deterministic_run has rebuilt it from its state file.
THEOREM FinishedOnceHolds == Spec => []FinishedOnce
<1>1. Init => FinishedOnce
  BY DEF Init, FinishedOnce
<1>2. IInv /\ FinishedOnce /\ [Next]_vars => FinishedOnce'
  <2> SUFFICES ASSUME IInv, FinishedOnce, [Next]_vars PROVE FinishedOnce'
    OBVIOUS
  <2>1. CASE Starts
    <3>1. \A i \in DOMAIN finished_runs : finished_runs[i].run_id # next_run_id
      BY DEF IInv, RestInv, IssuedInv, Issued, IssuedBy, next_run_id
    <3> QED
      BY <2>1, <3>1 DEF Starts, FinishedOnce
  <2>2. CASE Finishes
    BY <2>2, FinishesOnce
  <2>3. CASE Stays
    BY <2>3 DEF Stays, FinishedOnce
  <2>4. CASE Rebuilds
    BY <2>4 DEF Rebuilds, FinishedOnce
  <2>5. CASE Forgets
    BY <2>5 DEF Forgets, FinishedOnce
  <2> QED
    BY <2>1, <2>2, <2>3, <2>4, <2>5, NextShape
<1> QED
  BY <1>1, <1>2, Invariance, PTL DEF Spec

-----------------------------------------------------------------------------
(* The order of the finished runs *)

\* What is left after an eviction are the newest entries, in their order.
LEMMA EvictedSuffix ==
  ASSUME NEW s \in Seq(SopRun), s # <<>>
  PROVE  /\ Evicted(s) # <<>>
         /\ \A k \in 0..(Len(Evicted(s)) - 1) :
              Evicted(s)[Len(Evicted(s)) - k] = s[Len(s) - k]
<1>1. CASE MaxFinishedRuns > 0 /\ Len(s) > MaxFinishedRuns
  <2> DEFINE d == Len(s) - MaxFinishedRuns
  <2>1. MaxFinishedRuns \in Nat /\ Len(s) \in Nat
    BY ConstantsAssumption
  <2>2. d \in Nat /\ d + 1 \in 1..Len(s)
    BY <1>1, <2>1
  <2>3. Evicted(s) = SubSeq(s, d + 1, Len(s))
    BY <1>1 DEF Evicted
  <2>4. Len(Evicted(s)) = MaxFinishedRuns
        /\ \A i \in 1..MaxFinishedRuns : Evicted(s)[i] = s[i + d]
    BY <2>1, <2>2, <2>3
  <2>5. ASSUME NEW k \in 0..(MaxFinishedRuns - 1)
        PROVE  Evicted(s)[MaxFinishedRuns - k] = s[Len(s) - k]
    <3>1. MaxFinishedRuns - k \in 1..MaxFinishedRuns /\ MaxFinishedRuns - k + d = Len(s) - k
      BY <2>1
    <3> QED
      BY <2>4, <3>1
  <2> QED
    BY <1>1, <2>4, <2>5
<1>2. CASE ~(MaxFinishedRuns > 0 /\ Len(s) > MaxFinishedRuns)
  BY <1>2 DEF Evicted
<1> QED
  BY <1>1, <1>2

\* A run that finishes becomes the newest entry, and the entries that are evicted
\* for it are the oldest.
LEMMA FinishesKeepsNewest ==
  ASSUME IInv, Finishes, NEW id \in DOMAIN active_runs \ DOMAIN active_runs'
  PROVE  /\ finished_runs' # <<>>
         /\ finished_runs'[Len(finished_runs')].run_id = id
         /\ \A k \in 1..(Len(finished_runs') - 1) :
              finished_runs'[Len(finished_runs') - k] =
                finished_runs[Len(finished_runs) - k + 1]
<1>1. PICK x \in DOMAIN active_runs, rec \in SopRun :
        /\ rec.run_id = x
        /\ DOMAIN active_runs' = DOMAIN active_runs \ {x}
        /\ finished_runs' = Evicted(Append(finished_runs, rec))
  BY DEF Finishes
<1> DEFINE all == Append(finished_runs, rec)
           n == Len(finished_runs)
           new == Len(finished_runs')
<1>2. finished_runs \in Seq(SopRun) /\ all \in Seq(SopRun) /\ n \in Nat /\ all # <<>>
  BY DEF IInv, FinishedInv
<1>3. Len(all) = n + 1 /\ all[n + 1] = rec /\ \A i \in 1..n : all[i] = finished_runs[i]
  BY <1>2
<1>4. finished_runs' = Evicted(all)
  BY <1>1
<1> HIDE DEF all
<1>5. finished_runs' # <<>> /\ finished_runs' \in Seq(SopRun)
      /\ \A k \in 0..(new - 1) : finished_runs'[new - k] = all[Len(all) - k]
  BY <1>2, <1>4, EvictedSuffix, EvictedFacts
<1>6. new \in Nat /\ new > 0 /\ new <= n + 1
  <2>1. new \in Nat /\ new > 0
    BY <1>5
  <2>2. PICK d \in Nat : \A i \in DOMAIN Evicted(all) :
          i + d \in DOMAIN all /\ i \in Nat /\ Evicted(all)[i] = all[i + d]
    BY <1>2, EvictedShift
  <2>3. new \in DOMAIN finished_runs' /\ DOMAIN all = 1..(n + 1)
    BY <1>2, <1>3, <1>5, <2>1
  <2>4. new + d \in 1..(n + 1)
    BY <1>4, <2>2, <2>3
  <2> QED
    BY <1>2, <2>1, <2>2, <2>4
<1>7. finished_runs'[new].run_id = id
  <2>1. finished_runs'[new - 0] = all[Len(all) - 0] /\ new - 0 = new /\ Len(all) - 0 = n + 1
    BY <1>2, <1>3, <1>5, <1>6
  <2> QED
    BY <1>1, <1>3, <2>1
<1>8. ASSUME NEW k \in 1..(new - 1) PROVE finished_runs'[new - k] = finished_runs[n - k + 1]
  <2>1. finished_runs'[new - k] = all[n + 1 - k]
    BY <1>3, <1>5, <1>6
  <2>2. n - k + 1 \in 1..n /\ n + 1 - k = n - k + 1
    BY <1>2, <1>6
  <2> QED
    BY <1>3, <2>1, <2>2
<1> QED
  BY <1>5, <1>7, <1>8

\* finished_runs forgets only its oldest entries, for any max_finished_runs, and never
\* the run that has just finished (finish_run).
THEOREM HistoryKeepsNewestHolds == Spec => HistoryKeepsNewest
<1> DEFINE Kept ==
      active_runs' # <<>> \/ finished_runs' # <<>> =>
        \A id \in DOMAIN active_runs \ DOMAIN active_runs' :
          /\ finished_runs' # <<>>
          /\ finished_runs'[Len(finished_runs')].run_id = id
          /\ \A k \in 1..(Len(finished_runs') - 1) :
               finished_runs'[Len(finished_runs') - k] =
                 finished_runs[Len(finished_runs) - k + 1]
<1>1. ASSUME IInv, [Next]_vars PROVE Kept
  <2>1. CASE Finishes
    BY <1>1, <2>1, FinishesKeepsNewest
  <2>2. CASE Forgets
    BY <2>2 DEF Forgets
  <2>3. CASE Starts \/ Stays \/ Rebuilds
    <3>1. DOMAIN active_runs \subseteq DOMAIN active_runs'
      BY <2>3 DEF Starts, Stays, Rebuilds
    <3> QED
      BY <3>1
  <2> QED
    BY <1>1, <2>1, <2>2, <2>3, NextShape
<1>2. IInv /\ [Next]_vars => [Kept]_vars
  BY <1>1
<1> QED
  BY <1>2, Invariance, PTL DEF Spec, HistoryKeepsNewest

\* Runs finish in the order in which they are kept.
Chronological ==
  /\ \A i \in DOMAIN finished_runs :
       finished_runs[i].completed_at \in Nat /\ finished_runs[i].completed_at <= now
  /\ \A i, j \in DOMAIN finished_runs :
       i < j => finished_runs[i].completed_at <= finished_runs[j].completed_at

LEMMA NowGrows ==
  ASSUME IInv, [Next]_vars
  PROVE  now \in Nat /\ now' \in Nat /\ now <= now'
<1>1. now \in Nat
  BY DEF IInv, RestInv
<1>2. now' = now \/ now' = now + 1
  BY DEF Next, vars, reload, start_run, start_deterministic_run, CanStartRun, advance_step,
         cancel_run, approve_step, advance_deterministic_step, resume_deterministic_run,
         Tick, Restart
<1> QED
  BY <1>1, <1>2

LEMMA FinishesChronological ==
  ASSUME IInv, Chronological, Finishes, now \in Nat, now' \in Nat, now <= now'
  PROVE  Chronological'
<1>1. PICK rec \in SopRun : /\ rec.completed_at = now
                            /\ finished_runs' = Evicted(Append(finished_runs, rec))
  BY DEF Finishes
<1> DEFINE all == Append(finished_runs, rec)
           n == Len(finished_runs)
<1>2. finished_runs \in Seq(SopRun) /\ all \in Seq(SopRun) /\ n \in Nat
  BY DEF IInv, FinishedInv
<1>3. /\ DOMAIN all = 1..(n + 1) /\ DOMAIN finished_runs = 1..n
      /\ all[n + 1] = rec /\ \A i \in 1..n : all[i] = finished_runs[i]
  BY <1>2
<1>4. finished_runs' = Evicted(all)
  BY <1>1
<1> HIDE DEF all, n
<1>5. \A i \in 1..(n + 1) : all[i].completed_at \in Nat /\ all[i].completed_at <= now
  <2>1. ASSUME NEW i \in 1..(n + 1), i # n + 1
        PROVE  all[i].completed_at \in Nat /\ all[i].completed_at <= now
    <3>1. i \in 1..n
      BY <1>2, <2>1
    <3> QED
      BY <1>3, <3>1 DEF Chronological
  <2> QED
    BY <1>1, <1>3, <2>1
<1>6. ASSUME NEW i \in 1..(n + 1), NEW j \in 1..(n + 1), i < j
      PROVE  all[i].completed_at <= all[j].completed_at
  <2>1. i \in 1..n
    BY <1>2, <1>6
  <2>2. CASE j = n + 1
    BY <1>1, <1>3, <1>5, <2>2
  <2>3. CASE j # n + 1
    <3>1. j \in 1..n
      BY <1>2, <2>3
    <3> QED
      BY <1>3, <1>6, <2>1, <3>1 DEF Chronological
  <2> QED
    BY <2>2, <2>3
<1>7. PICK d \in Nat : \A i \in DOMAIN finished_runs' :
        i + d \in DOMAIN all /\ i \in Nat /\ finished_runs'[i] = all[i + d]
  BY <1>2, <1>4, EvictedShift
<1>8. ASSUME NEW i \in DOMAIN finished_runs'
      PROVE  finished_runs'[i].completed_at \in Nat /\ finished_runs'[i].completed_at <= now'
  BY <1>3, <1>5, <1>7
<1>9. ASSUME NEW i \in DOMAIN finished_runs', NEW j \in DOMAIN finished_runs', i < j
      PROVE  finished_runs'[i].completed_at <= finished_runs'[j].completed_at
  <2>1. i + d < j + d /\ i + d \in 1..(n + 1) /\ j + d \in 1..(n + 1)
    BY <1>3, <1>7, <1>9
  <2> QED
    BY <1>6, <1>7, <2>1
<1> QED
  BY <1>8, <1>9 DEF Chronological

LEMMA ChronologicalStep == IInv /\ Chronological /\ [Next]_vars => Chronological'
<1> SUFFICES ASSUME IInv, Chronological, [Next]_vars PROVE Chronological'
  OBVIOUS
<1>1. now \in Nat /\ now' \in Nat /\ now <= now'
  BY NowGrows
<1>2. CASE Finishes
  BY <1>1, <1>2, FinishesChronological
<1>3. CASE UNCHANGED finished_runs
  BY <1>1, <1>3 DEF Chronological
<1>4. CASE Forgets
  BY <1>4 DEF Forgets, Chronological
<1> QED
  BY <1>2, <1>3, <1>4, NextShape DEF Starts, Stays, Rebuilds

\* The newest finished run of an SOP exists if any does, and it is the one the
\* cooldown is measured from.
LEMMA LastFinishedExists ==
  ASSUME IInv, NEW name, NEW i \in DOMAIN finished_runs, finished_runs[i].sop_name = name
  PROVE  \E l \in DOMAIN finished_runs : IsLastFinished(l, name) /\ i <= l
<1> DEFINE T == {j \in DOMAIN finished_runs : finished_runs[j].sop_name = name}
           n == Len(finished_runs)
<1>1. n \in Nat /\ DOMAIN finished_runs = 1..n
  BY DEF IInv, FinishedInv
<1>2. T \in SUBSET (0..n) /\ i \in T
  BY <1>1
<1>3. PICK l \in T : \A y \in T : y <= l
  BY <1>1, <1>2, GreatestElement
<1>4. \A j \in DOMAIN finished_runs : j > l => j \notin T
  BY <1>1, <1>3
<1> QED
  BY <1>2, <1>3, <1>4 DEF IsLastFinished

LEMMA CooldownStep ==
  ASSUME IInv, Chronological, NEW name \in SopName,
         start_run(name) \/ start_deterministic_run(name)
  PROVE  \A id \in DOMAIN active_runs' \ DOMAIN active_runs :
           \A i \in DOMAIN finished_runs :
             finished_runs[i].sop_name = active_runs'[id].sop_name =>
               now - finished_runs[i].completed_at >= sops[active_runs'[id].sop_name].cooldown_secs
<1> DEFINE run == new_run(name)
<1>1. /\ can_start(name)
      /\ resolve_step_action(run) \/ resolve_deterministic_action(run)
  BY DEF start_run, start_deterministic_run, CanStartRun
<1>2. PICK r : active_runs' = Put(active_runs, run.run_id, r) /\ r.sop_name = name
  <2>1. \/ active_runs' = Put(active_runs, run.run_id, run)
        \/ \E status : active_runs' = Put(active_runs, run.run_id,
                         [run EXCEPT !.status = status, !.waiting_since = now])
    BY <1>1 DEF resolve_step_action, resolve_deterministic_action
  <2>2. run.sop_name = name
        /\ \A status : [run EXCEPT !.status = status, !.waiting_since = now].sop_name = name
    BY DEF new_run
  <2> HIDE DEF run
  <2> QED
    BY <2>1, <2>2
<1> SUFFICES ASSUME NEW id \in DOMAIN active_runs' \ DOMAIN active_runs,
                    NEW i \in DOMAIN finished_runs,
                    finished_runs[i].sop_name = active_runs'[id].sop_name
             PROVE  now - finished_runs[i].completed_at
                      >= sops[active_runs'[id].sop_name].cooldown_secs
  OBVIOUS
<1>3. active_runs'[id].sop_name = name
  BY <1>2 DEF Put
<1>4. name \in DOMAIN sops /\ sops[name].cooldown_secs \in Nat /\ now \in Nat
  BY <1>1 DEF can_start, IInv, SopsInv, RestInv, Sop
<1>5. finished_runs[i].completed_at \in Nat /\ finished_runs[i].completed_at <= now
  BY DEF Chronological
<1>6. CASE sops[name].cooldown_secs = 0
  BY <1>3, <1>4, <1>5, <1>6
<1>7. CASE sops[name].cooldown_secs > 0
  <2>1. PICK l \in DOMAIN finished_runs : IsLastFinished(l, name) /\ i <= l
    BY <1>3, LastFinishedExists
  <2>2. now - finished_runs[l].completed_at >= sops[name].cooldown_secs
    BY <1>1, <1>7, <2>1 DEF can_start, cooldown_elapsed
  <2>3. i \in Nat /\ l \in Nat
    BY DEF IInv, FinishedInv
  <2>4. finished_runs[i].completed_at <= finished_runs[l].completed_at
        /\ finished_runs[l].completed_at \in Nat
    BY <1>5, <2>1, <2>3 DEF Chronological
  <2> QED
    BY <1>3, <1>4, <1>5, <2>2, <2>4
<1> QED
  BY <1>4, <1>6, <1>7

LEMMA StartedShape ==
  ASSUME IInv, Next, Started
  PROVE  \E name \in SopName : start_run(name) \/ start_deterministic_run(name)
<1>1. run_counter \in Nat
  BY DEF IInv, RestInv
<1>2. ~(reload \/ Tick \/ Restart)
  BY <1>1 DEF Started, reload, Tick, Restart
<1>3. \A id \in DOMAIN active_runs :
        /\ \A failed \in BOOLEAN : ~advance_step(id, failed)
        /\ ~cancel_run(id) /\ ~approve_step(id)
  BY <1>1 DEF Started, advance_step, cancel_run, approve_step
<1>4. \A id \in DOMAIN active_runs : ~advance_deterministic_step(id)
  BY <1>1 DEF Started, advance_deterministic_step
<1>5. \A id \in DOMAIN state_files : ~resume_deterministic_run(id)
  BY <1>1 DEF Started, resume_deterministic_run
<1> QED
  BY <1>2, <1>3, <1>4, <1>5 DEF Next

\* A run starts only if every finished run of its SOP that is remembered ended at least
\* cooldown_secs ago, although can_start looks at the last of them only.
THEOREM CooldownHolds == Spec => CooldownRespected
<1> DEFINE Respected ==
      Started =>
        \A id \in DOMAIN active_runs' \ DOMAIN active_runs :
          \A i \in DOMAIN finished_runs :
            LET name == active_runs'[id].sop_name
            IN finished_runs[i].sop_name = name =>
                 now - finished_runs[i].completed_at >= sops[name].cooldown_secs
<1>1. ASSUME IInv, Chronological, Next PROVE Respected
  BY <1>1, StartedShape, CooldownStep
<1>2. IInv /\ Chronological /\ [Next]_vars => [Respected]_vars
  BY <1>1
<1>3. Init => Chronological
  BY DEF Init, Chronological
<1> QED
  BY <1>2, <1>3, ChronologicalStep, Invariance, PTL DEF Spec, CooldownRespected

-----------------------------------------------------------------------------
(* Waiting for an approval *)

\* A run that waits knows since when.
WaitsSince(run) == run.status = "WaitingApproval" => run.waiting_since \in Nat

WaitInv == \A id \in DOMAIN active_runs : WaitsSince(active_runs[id])

LEMMA WaitPut ==
  ASSUME WaitInv, NEW id, NEW run, WaitsSince(run), active_runs' = Put(active_runs, id, run)
  PROVE  WaitInv'
<1> SUFFICES ASSUME NEW x \in DOMAIN active_runs' PROVE WaitsSince(active_runs'[x])
  BY DEF WaitInv, WaitsSince
<1>1. CASE x = id
  BY <1>1 DEF Put
<1>2. CASE x # id
  BY <1>2 DEF Put, WaitInv
<1> QED
  BY <1>1, <1>2

LEMMA WaitDrop ==
  ASSUME WaitInv, NEW id, active_runs' = Drop(active_runs, id)
  PROVE  WaitInv'
<1>1. \A x \in DOMAIN active_runs' : x \in DOMAIN active_runs /\ active_runs'[x] = active_runs[x]
  BY DropFacts
<1> QED
  BY <1>1 DEF WaitInv, WaitsSince

\* Handing out a step, or waiting for its approval, keeps track of the time.
LEMMA WaitHandOut ==
  ASSUME IInv, WaitInv, NEW run \in SopRun, WaitsSince(run),
         resolve_step_action(run) \/ resolve_deterministic_action(run) \/ panic(run)
  PROVE  WaitInv'
<1>1. \/ active_runs' = Put(active_runs, run.run_id, run)
      \/ active_runs' = Put(active_runs, run.run_id,
                            [run EXCEPT !.status = "WaitingApproval", !.waiting_since = now])
      \/ active_runs' = Put(active_runs, run.run_id,
                            [run EXCEPT !.status = "PausedCheckpoint", !.waiting_since = now])
  BY DEF resolve_step_action, resolve_deterministic_action, panic
<1>2. WaitsSince([run EXCEPT !.status = "WaitingApproval", !.waiting_since = now])
      /\ WaitsSince([run EXCEPT !.status = "PausedCheckpoint", !.waiting_since = now])
  BY DEF WaitsSince, SopRun, IInv, RestInv
<1> QED
  BY <1>1, <1>2, WaitPut

LEMMA WaitAdvance ==
  ASSUME IInv, WaitInv, NEW id \in DOMAIN active_runs, NEW failed \in BOOLEAN,
         advance_step(id, failed) \/ advance_deterministic_step(id)
  PROVE  WaitInv'
<1> DEFINE old == active_runs[id]
           step == [Reported(old) EXCEPT !.current_step = @ + 1]
           saved == [Reported(old) EXCEPT !.llm_calls_saved = @ + 1]
           next == [saved EXCEPT !.current_step = @ + 1]
<1>1. old \in SopRun /\ WaitsSince(old)
  BY ActiveRun DEF WaitInv
<1>2. Reported(old) \in SopRun /\ WaitsSince(Reported(old))
  BY <1>1 DEF SopRun, Reported, WaitsSince
<1>3. step \in SopRun /\ WaitsSince(step)
  BY <1>2 DEF SopRun, WaitsSince
<1>4. saved \in SopRun /\ WaitsSince(saved)
  BY <1>2 DEF SopRun, WaitsSince
<1>5. next \in SopRun /\ WaitsSince(next)
  <2>1. \A r \in SopRun : LET n == [r EXCEPT !.current_step = @ + 1]
                         IN n \in SopRun /\ (WaitsSince(r) => WaitsSince(n))
    BY DEF SopRun, WaitsSince
  <2> HIDE DEF saved
  <2> QED
    BY <1>4, <2>1
<1>6. \/ \E k : active_runs' = Drop(active_runs, k)
      \/ resolve_step_action(step) \/ panic(step)
      \/ resolve_deterministic_action(next) \/ panic(next)
  <2>1. CASE advance_step(id, failed)
    BY <2>1 DEF advance_step, finish_run
  <2>2. CASE advance_deterministic_step(id)
    BY <2>2 DEF advance_deterministic_step, finish_run
  <2> QED
    BY <2>1, <2>2
<1> HIDE DEF step, next
<1> QED
  BY <1>3, <1>5, <1>6, WaitDrop, WaitHandOut

LEMMA WaitApprove ==
  ASSUME IInv, WaitInv, NEW id \in DOMAIN active_runs, approve_step(id)
  PROVE  WaitInv'
<1> DEFINE run == [active_runs[id] EXCEPT !.status = "Running", !.waiting_since = Never]
<1>1. run.run_id = id /\ WaitsSince(run)
  BY ActiveRun DEF SopRun, WaitsSince
<1>2. active_runs' = Put(active_runs, id, run) \/ panic(run)
  BY DEF approve_step
<1> HIDE DEF run
<1> QED
  BY <1>1, <1>2, WaitPut DEF panic

LEMMA WaitResume ==
  ASSUME IInv, WaitInv, NEW id \in DOMAIN state_files, resume_deterministic_run(id)
  PROVE  WaitInv'
<1> DEFINE state == state_files[id]
           base == IF id \in DOMAIN active_runs THEN active_runs[id] ELSE sop_run_from_state(state)
           resumed == [base EXCEPT !.status = "Running", !.waiting_since = Never,
                                   !.llm_calls_saved = state.llm_calls_saved]
           next == [resumed EXCEPT !.current_step = state.last_completed_step + 1]
<1>1. state \in DeterministicRunState
  BY DEF IInv, FilesInv, FileInv
<1>2. base \in SopRun
  BY <1>1, ActiveRun DEF sop_run_from_state, SopRun, DeterministicRunState, ActiveStatus, Time
<1>3. resumed \in SopRun /\ resumed.status = "Running"
  BY <1>1, <1>2 DEF SopRun, DeterministicRunState, ActiveStatus, Time
<1>4. next \in SopRun /\ next.status = "Running"
  <2>1. \A r \in SopRun, k \in Nat : LET n == [r EXCEPT !.current_step = k]
                                   IN n \in SopRun /\ n.status = r.status
    BY DEF SopRun
  <2>2. state.last_completed_step + 1 \in Nat
    BY <1>1 DEF DeterministicRunState
  <2> HIDE DEF resumed
  <2> QED
    BY <1>3, <2>1, <2>2
<1>5. \/ active_runs' = Drop(active_runs, resumed.run_id)
      \/ resolve_deterministic_action(next)
      \/ active_runs' = Put(active_runs, id, next)
  BY DEF resume_deterministic_run, finish_run
<1> HIDE DEF next, resumed
<1> QED
  BY <1>4, <1>5, WaitDrop, WaitPut, WaitHandOut DEF WaitsSince

LEMMA WaitStep == IInv /\ WaitInv /\ [Next]_vars => WaitInv'
<1> SUFFICES ASSUME IInv, WaitInv, [Next]_vars PROVE WaitInv'
  OBVIOUS
<1>1. CASE UNCHANGED active_runs
  BY <1>1 DEF WaitInv, WaitsSince
<1>2. ASSUME NEW name \in SopName, start_run(name) \/ start_deterministic_run(name)
      PROVE  WaitInv'
  <2>1. new_run(name) \in SopRun /\ new_run(name).status = "Running"
    <3>1. name \in DOMAIN sops
      BY <1>2 DEF start_run, start_deterministic_run, CanStartRun, can_start
    <3>2. Len(sops[name].steps) \in Nat
      BY <3>1 DEF IInv, SopsInv, Sop
    <3> QED
      BY <3>2 DEF new_run, next_run_id, IInv, RestInv, RunId, SopRun, ActiveStatus, Time
  <2>2. resolve_step_action(new_run(name)) \/ resolve_deterministic_action(new_run(name))
    BY <1>2 DEF start_run, start_deterministic_run
  <2> QED
    BY <2>1, <2>2, WaitHandOut DEF WaitsSince
<1>3. ASSUME NEW id \in DOMAIN active_runs, cancel_run(id) PROVE WaitInv'
  BY <1>3, WaitDrop DEF cancel_run, finish_run
<1>4. CASE Restart
  BY <1>4 DEF Restart, WaitInv
<1> QED
  BY <1>1, <1>2, <1>3, <1>4, WaitAdvance, WaitApprove, WaitResume DEF Next, vars, reload, Tick

\* A run that has waited for its approval at least approval_timeout_secs is surfaced by
\* check_approval_timeouts, whatever calls led it to wait, for any timeout.
THEOREM TimeoutsSurface == Spec => []TimeoutSurfaced
<1>1. Init => WaitInv
  BY DEF Init, WaitInv
<1>2. IInv /\ WaitInv => TimeoutSurfaced
  <2> SUFFICES ASSUME IInv, WaitInv, ApprovalTimeoutSecs # 0,
                      NEW id \in DOMAIN active_runs,
                      active_runs[id].status = "WaitingApproval",
                      ~(now - active_runs[id].waiting_since < ApprovalTimeoutSecs)
               PROVE  id \in check_approval_timeouts
    BY DEF TimeoutSurfaced
  <2>1. active_runs[id].waiting_since \in Nat /\ now \in Nat /\ ApprovalTimeoutSecs \in Nat
    BY ConstantsAssumption DEF WaitInv, WaitsSince, IInv, RestInv
  <2> QED
    BY <2>1 DEF check_approval_timeouts, cooldown_elapsed, Never
<1> QED
  BY <1>1, <1>2, WaitStep, Invariance, PTL DEF Spec

\* The engine asks for an approval exactly where the documentation promises one.
LEMMA GatedIsNeeded ==
  ASSUME NEW sop \in Sop, NEW k \in DOMAIN sop.steps
  PROVE  Gated(sop, k) <=> needs_approval(sop, k)
<1>1. /\ sop.execution_mode \in Mode /\ sop.priority \in Priority
      /\ sop.steps[k].requires_confirmation \in BOOLEAN
  <2>1. sop.steps \in Seq(Step)
    BY DEF Sop
  <2>2. sop.steps[k] \in Step
    BY <2>1
  <2> QED
    BY <2>2 DEF Sop, Step
<1> QED
  BY <1>1 DEF Gated, needs_approval, Mode, Priority

\* What GatedStepsWait says of one run.
WaitedAt(id) ==
  LET run == active_runs'[id]
  IN /\ action'.tag = "ExecuteStep" /\ action'.run_id = id
     /\ <<action', active_runs'>> # <<action, active_runs>>
     /\ Gated(sops[run.sop_name], run.current_step)
     => /\ id \in DOMAIN active_runs
        /\ active_runs[id].status = "WaitingApproval"
        /\ active_runs[id].current_step = run.current_step

LEMMA HandedOutUngated ==
  ASSUME IInv, NEW run \in SopRun, run.sop_name \in DOMAIN sops,
         run.current_step \in DOMAIN sops[run.sop_name].steps,
         resolve_step_action(run), NEW id \in DOMAIN active_runs'
  PROVE  WaitedAt(id)
<1>1. CASE needs_approval(sops[run.sop_name], run.current_step)
  BY <1>1 DEF resolve_step_action, Act, WaitedAt
<1>2. CASE ~needs_approval(sops[run.sop_name], run.current_step)
  <2>1. active_runs' = Put(active_runs, run.run_id, run) /\ action'.run_id = run.run_id
    BY <1>2 DEF resolve_step_action, Act
  <2>2. ~Gated(sops[run.sop_name], run.current_step)
    BY <1>2, GatedIsNeeded DEF IInv, SopsInv
  <2>3. active_runs'[run.run_id] = run
    BY <2>1 DEF Put
  <2> QED
    BY <2>1, <2>2, <2>3 DEF WaitedAt
<1> QED
  BY <1>1, <1>2

LEMMA GatedAdvance ==
  ASSUME IInv, NEW x \in DOMAIN active_runs, NEW failed \in BOOLEAN, advance_step(x, failed),
         NEW id \in DOMAIN active_runs'
  PROVE  WaitedAt(id)
<1> DEFINE next == [Reported(active_runs[x]) EXCEPT !.current_step = @ + 1]
<1>1. Reported(active_runs[x]) \in SopRun /\ active_runs[x].sop_name \in DOMAIN sops
      /\ Reported(active_runs[x]).sop_name = active_runs[x].sop_name
  BY ActiveRun DEF SopRun, Reported, advance_step, Advanceable
<1>2. next \in SopRun /\ next.sop_name \in DOMAIN sops
      /\ next.sop_name = Reported(active_runs[x]).sop_name
  BY <1>1 DEF SopRun
<1>3. \/ action'.tag \in {"Failed", "Completed", "Err"}
      \/ /\ resolve_step_action(next)
         /\ next.current_step \in DOMAIN sops[next.sop_name].steps
  BY <1>2 DEF advance_step, panic, Act
<1> HIDE DEF next
<1> QED
  BY <1>2, <1>3, HandedOutUngated DEF WaitedAt

LEMMA GatedApprove ==
  ASSUME IInv, NEW x \in DOMAIN active_runs, approve_step(x), NEW id \in DOMAIN active_runs'
  PROVE  WaitedAt(id)
<1> DEFINE run == [active_runs[x] EXCEPT !.status = "Running", !.waiting_since = Never]
<1>1. run.run_id = x /\ run.current_step = active_runs[x].current_step
  BY ActiveRun DEF SopRun
<1>2. active_runs[x].status = "WaitingApproval"
  BY DEF approve_step
<1>3. \/ action'.tag = "Err"
      \/ active_runs' = Put(active_runs, x, run) /\ action' = Act("ExecuteStep", run)
  BY DEF approve_step, panic, Act
<1> HIDE DEF run
<1>4. CASE active_runs' = Put(active_runs, x, run) /\ action' = Act("ExecuteStep", run)
  <2>1. action'.run_id = x /\ active_runs'[x] = run
    BY <1>1, <1>4 DEF Act, Put
  <2> QED
    BY <1>1, <1>2, <2>1 DEF WaitedAt
<1> QED
  BY <1>3, <1>4 DEF WaitedAt

LEMMA GatedStart ==
  ASSUME IInv, NEW name \in SopName, start_run(name), NEW id \in DOMAIN active_runs'
  PROVE  WaitedAt(id)
<1> DEFINE run == new_run(name)
<1>1. /\ name \in DOMAIN sops /\ sops[name].steps # <<>> /\ resolve_step_action(run)
  BY DEF start_run, CanStartRun, can_start
<1>2. sops[name].steps \in Seq(Step)
  BY <1>1 DEF IInv, SopsInv, Sop
<1>3. Len(sops[name].steps) \in Nat /\ 1 \in DOMAIN sops[name].steps
  BY <1>1, <1>2
<1>4. run \in SopRun /\ run.sop_name = name /\ run.current_step = 1
  BY <1>3 DEF new_run, next_run_id, IInv, RestInv, RunId, SopRun, ActiveStatus, Time
<1> HIDE DEF run
<1> QED
  BY <1>1, <1>3, <1>4, HandedOutUngated

\* A step that is not handed out, or not now, needs no approval.
LEMMA NotHandedOut ==
  ASSUME NEW id,
         \/ action'.tag # "ExecuteStep"
         \/ <<action', active_runs'>> = <<action, active_runs>>
  PROVE  WaitedAt(id)
  BY DEF WaitedAt

\* The engine hands a gated step to the agent only for a run that was waiting for an
\* approval at that very step, for any SOPs and any calls before.
THEOREM GatedStepsWaitHolds == Spec => GatedStepsWait
<1>1. ASSUME IInv, Next PROVE \A id \in DOMAIN active_runs' : WaitedAt(id)
  <2> SUFFICES ASSUME NEW id \in DOMAIN active_runs' PROVE WaitedAt(id)
    OBVIOUS
  <2>1. CASE reload \/ Restart
    BY <2>1, NotHandedOut DEF reload, Restart, NoAction
  <2>2. ASSUME NEW name \in SopName, start_run(name) PROVE WaitedAt(id)
    BY <1>1, <2>2, GatedStart
  <2>3. ASSUME NEW name \in SopName, start_deterministic_run(name) PROVE WaitedAt(id)
    <3>1. action'.tag # "ExecuteStep"
      BY <2>3 DEF start_deterministic_run, resolve_deterministic_action,
                  persist_deterministic_state, Act
    <3> QED
      BY <3>1, NotHandedOut
  <2>4. ASSUME NEW x \in DOMAIN active_runs, NEW failed \in BOOLEAN, advance_step(x, failed)
        PROVE  WaitedAt(id)
    BY <1>1, <2>4, GatedAdvance
  <2>5. ASSUME NEW x \in DOMAIN active_runs, cancel_run(x) PROVE WaitedAt(id)
    BY <2>5, NotHandedOut DEF cancel_run, NoAction
  <2>6. ASSUME NEW x \in DOMAIN active_runs, approve_step(x) PROVE WaitedAt(id)
    BY <1>1, <2>6, GatedApprove
  <2>7. ASSUME NEW x \in DOMAIN active_runs, advance_deterministic_step(x) PROVE WaitedAt(id)
    <3>1. action'.tag # "ExecuteStep"
      BY <2>7 DEF advance_deterministic_step, resolve_deterministic_action, panic,
                  persist_deterministic_state, Act
    <3> QED
      BY <3>1, NotHandedOut
  <2>8. ASSUME NEW x \in DOMAIN state_files, resume_deterministic_run(x) PROVE WaitedAt(id)
    <3>1. action'.tag # "ExecuteStep"
      BY <2>8 DEF resume_deterministic_run, resolve_deterministic_action,
                  persist_deterministic_state, Act
    <3> QED
      BY <3>1, NotHandedOut
  <2>9. CASE Tick
    BY <2>9, NotHandedOut DEF Tick
  <2> QED
    BY <1>1, <2>1, <2>2, <2>3, <2>4, <2>5, <2>6, <2>7, <2>8, <2>9 DEF Next
<1>2. IInv /\ [Next]_vars => [\A id \in DOMAIN active_runs' : WaitedAt(id)]_vars
  BY <1>1
<1> QED
  BY <1>2, Invariance, PTL DEF Spec, GatedStepsWait, WaitedAt
=============================================================================
