# TLA+ models of Revka

Revka is an agent runtime written in Rust: a daemon with a gateway (HTTP,
WebSocket, dashboard), chat channels, an agent loop over language model
providers and tools, standard operating procedures (SOPs), cron jobs, memory,
and safety controls. This directory models the parts where several actors, a
clock, a disk or a crash meet, checks them with TLC, and proves theorems about
them with TLAPS.

    tlc -workers 2 -config MCSopRuns.cfg MCSopEngine     # one run
    tlapm SopEngineProofs.tla                            # the proofs of a module

Paths below are relative to `src/src/` unless they start with `docs/` or
`operator-mcp/` (which is `src/operator-mcp/operator_mcp/`).

## 1. The system

| Component | State | Operations | What is hard | What makes it correct |
|---|---|---|---|---|
| SOP engine `sop/engine.rs` | loaded SOPs, active and finished runs, counter, savings, state files on disk | start, advance, approve, cancel, checkpoint, resume, reload, timeout scan | any caller in any order; reload under active runs; crash between steps; torn files; ids across restarts | no step without a result, gates wait, limits and cooldown hold, a run finishes once, ids are fresh, resume is sound |
| SOP dispatch, audit, metrics `sop/dispatch.rs`, `audit.rs`, `metrics.rs` | audit entries in memory, counters | start matching SOPs, cancel headless waits, record | audit is written after the engine's lock is dropped | every run has its records in order, nothing is orphaned |
| SOP tools `tools/sop_*.rs` | none | call the engine under its mutex, then audit | a result reported for a step that has moved | reported step = current step |
| Session queue `gateway/session_queue.rs` | map of slots, semaphore, pending count, last use per slot | acquire with timeout and depth limit, guard drop, idle sweep | lookup and wait under different locks, sweep in between, timeout racing a release | one turn per session, no lost permit, exact counts, slots reclaimed |
| Chat socket `gateway/ws.rs` | per connection: agent, current turn, guard | handshake, first frame, queued message, steer, stop, reply | turns of several sockets on one session, lost clients, crash in a turn | guarded turns are serial, "running" is true, guards are given back |
| Session backend `channels/session_sqlite.rs` | messages, metadata (state, turn id, archived) | append, state, archive, search, TTL | called by several sockets and REST at once | history is in order, state names the live turn |
| Channel orchestrator `channels/mod.rs`, `debounce.rs` | semaphore, in-flight table per sender scope, conversation histories, debounce entries and timers | receive, debounce, dispatch, interrupt, `/stop`, `/new`, record turns | a newer message cancels and awaits the older one; timers race messages; workers end in any order | no message is lost or doubled, the in-flight table is exact, a reply follows its own turn, nothing hangs |
| Cron `cron/scheduler.rs`, `store.rs` | job table in SQLite, the batch in hand | sync, catch up, poll, execute, persist, reschedule, edit, remove | long executions against edits by other processes, crash before persist, failed writes | due jobs are served, none starves or overlaps itself, a one-shot runs to its end once, a pause holds |
| Workflow approvals `gateway/approval_registry.rs`, `api_workflows.rs` | pending approvals by run | register, attach, match, claim, resume | several channels and the dashboard answer at once | an approval is claimed once |
| Workflow executor `operator-mcp/workflow/executor.py`, `tool_handlers/workflows.py` | run states in memory, checkpoint files, run locks | execute, pause, resume, reject, cancel | racing resumes between awaits, live objects and checkpoint copies | one execution per run, no step without an approval, a cancelled run stays cancelled |
| Tool approval `approval/mod.rs` | session allowlist | prompt, remember | concurrent prompts | asks unless allowed |
| Emergency stop `security/estop.rs` | stop levels in memory and on disk | engage, resume | failing half way | memory and file agree |
| Agent loop `agent/`, providers `providers/` | history, tool calls | turn, tools, retry, fallback | cancellation, streaming | outcome reported once |
| Daemon, heartbeat, hooks, nodes, tunnels, MCP server, plugins, skills, memory, trust, cost, config, hardware | various | start, restart, I/O, parsing | supervision with backoff | see section 8 |

How they meet: the gateway owns one `SessionActorQueue` (depth 8, swept
periodically by a task started in `gateway/mod.rs`) and one session backend; each
dashboard socket acquires its session from the queue, writes the user message,
runs the agent and writes the reply. REST handlers archive sessions through the
same backend. The SOP tools and `sop/dispatch.rs` share one engine behind an
`Arc<std::sync::Mutex<SopEngine>>`; the daemon loads its SOPs when it starts. The
channels feed one dispatch loop, whose workers run the agent per message. Workflows
run in a Python process, the operator: it posts each approval it needs to the
gateway, which registers it and sends prompts into the channels; a reply there or a
click on the dashboard reaches the operator's `resume_workflow` through the gateway's
approve endpoint. The cron scheduler is a daemon task over a table that agent tools,
REST handlers and the CLI edit too.

The behaviours a unit test hardly reaches are listed at their lines under
`hazards` in PROJECT.json; each names the properties that watch it, or says why
none does yet.

## 2. Modules

| Module | Models | Uses |
|---|---|---|
| `SopEngine` | `sop/engine.rs`, `sop/types.rs`, the step `tools/sop_advance.rs` reports | |
| `MCSopEngine` | catalogs of SOPs for TLC | `SopEngine` |
| `NatSets` | lemmas: induction and extrema over sets of numbers | TLAPS |
| `SopEngineProofs` | theorems | `SopEngine`, `NatSets`, TLAPS |
| `SessionLock` | abstract: a lock per session | |
| `SessionQueue` | `gateway/session_queue.rs`, its semaphore, the sweeper of `gateway/mod.rs` | refines `SessionLock` |
| `MCSessionQueue` | instance for TLC | `SessionQueue` |
| `SessionQueueProofs` | theorems, including the refinement | `SessionQueue`, TLAPS |
| `ChatSocket` | `gateway/ws.rs` (`handle_socket`, `process_chat_message`), the backend writes, the archive handler | composes with `SessionLock` |
| `MCChatSocket` | instance for TLC | `ChatSocket` |
| `ChatSocketProofs` | theorems | `ChatSocket`, TLAPS |
| `Debouncer` | `channels/debounce.rs` | |
| `ChannelDispatch` | `run_message_dispatch_loop`, `dispatch_worker`, the history side of `process_channel_message` in `channels/mod.rs` | composes with `Debouncer` |
| `MCChannelDispatch` | scenarios for TLC | `ChannelDispatch` |
| `ChannelDispatchProofs` | theorems: texts, in-flight table | `ChannelDispatch`, TLAPS |
| `ChannelHistoryProofs` | theorems: conversation histories | `ChannelDispatchProofs`, `NatSets`, TLAPS |
| `CronScheduler` | `cron/scheduler.rs`, `cron/store.rs` | |
| `MCCronScheduler` | schedules for TLC | `CronScheduler` |
| `CronSchedulerProofs` | theorems | `CronScheduler`, TLAPS |
| `WorkflowApproval` | `gateway/approval_registry.rs`, the approve endpoint, `resume_workflow` and the operator's `execute_workflow` | |
| `MCWorkflowApproval` | instance for TLC | `WorkflowApproval` |
| `WorkflowApprovalProofs` | theorems | `WorkflowApproval`, TLAPS |

Definitions carry the source's names. `map` in PROJECT.json gives the lines each
of them translates. An operator whose name is a code name with a suffix
(`below_limits_OffByOne`) is a mutant: the same code with a plausible mistake,
used only to show that the property it is listed with can fail.

### SopEngine

Each public method takes `&mut self` under one mutex, so a method is one action.
A call that fails without a change is a guard; one that fails after a change is
a disjunct (`approve_step` of an unloaded SOP, `persist_deterministic_state` on a
full disk). `panic` is the index out of bounds that a shortened SOP causes: it
poisons the mutex and disables all later calls until `Restart`.

* Variables are the fields of `SopEngine`, plus `state_files` (the JSON files of
  persisted runs), `action` (the returned `SopRunAction`), `poisoned`, `now`, and the
  history variable `reconstructed` (ids of runs rebuilt from a file).
* A run id, `run-{epoch_ms}-{counter}`, is the pair `<<now, counter>>`. `Restart`
  advances the clock: a restart takes longer than a millisecond.
* Results are the set of reported step numbers; texts are left out.
* A state file is written whole, not at all, or torn. A torn file does not parse,
  so resume cannot see it: it is modelled as no file.
* `reload` may find any catalog at any time. In production only
  `daemon/mod.rs` reloads its engine, at start; the engine's contract does not
  depend on that, and the file edits that a restart picks up are the same set.

### SessionQueue and SessionLock

`acquire` is split where other tasks can run: `reserve` (under the map's mutex),
`enqueue` (first poll of the semaphore), then `stamp` or `timeout` and `fail`. A guard's
drop is two steps, `drop_guard` (pending) and `release` (permit). The sweep holds the
map's mutex from `sweep_lock` to `sweep_remove` and reads `last_active` and `pending` of
each entry in two steps, for guards drop without that mutex. The tokio semaphore
(`acquire_owned`, `drop_permit`) is external: one permit handed over in FIFO order.
Time is abstract: a waiter may time out at any moment, a slot may become idle at
any moment.

`SessionLock` is the promise: a session is taken only when free and given by its
holder. The refinement maps `holders[s]` to the tasks between `stamp` and `drop_guard`.

### ChatSocket

One action per stretch between two awaits. `connect`, `handshake`, `first_message`,
`acquire`, `session_busy`, `acquired`, `agent_failed` are `handle_socket`; `start_turn`, `steer`,
`stopped`, `reply`, `set_idle`, `turn_failed` are `process_chat_message`; `leave` is the end of
the loop's arm, where the guard is dropped; `archive_session` is the REST handler;
`crash` keeps only the database. The queue appears as `SessionLock`, which
`SessionQueue` is shown to implement. Each row of `history` remembers, as a ghost
field, whether its turn holds the guard; `killed` remembers turns a crash cut off.
A turn's outcome (reply, error, stop, timeout, lost client) is nondeterministic.

### Debouncer and ChannelDispatch

A message is its number in the order of arrival; the same number names its timer, its
oneshot channel and its worker. `debounce` and `fire_debounced` hold the entries lock
without awaiting, so each is one action. What is not atomic is the abort: a timer
that sleeps is stopped by it, but one whose sleep has elapsed may already be polled,
and then fires after the lock is free (`AfterAbort`).

The loop's steps are `Receive`, `ReceiveStop` and `StopCancel`, `Spawn`, `Close`, `Return`. A worker
goes through `Register`, `Interrupt`, `WaitLoadsDone`, `WaitSubscribes`, the steps of
`process_channel_message`, `Unregister`, `MarkStoresDone`, `MarkNotifies`; each is one lock
section or one atomic operation. What an answer is belongs to the data: a worker may
end as a command, a canned reply, an answer with or without tools, a timeout, an
error, an overflow or a cancellation, and each end writes the history as the code
does (`append_turn`, `strip`, `compact`, rollback). `normalize` and `strip` walk over the turns as the
code's loops do, each as a recursive function of the number of turns done. A route fixes the two keys of a message,
`conversation_history_key` and `interruption_scope_key`, which need not agree: two Slack
threads may share a scope, so the model has routes where they do.

What the model shows about the code beside its properties:

* `wait` loads `done` before it subscribes, and `notify_waiters` leaves no permit behind. A
  completion in between is missed, and the waiting worker hangs with its permit.
  `SettledUnlessWakeupLost` names this case as its only exception.
* `/stop` finds a worker by its registration. A message that is still debounced, waits
  for a permit or is spawned but unregistered is not reached by it.
* A message whose token is cancelled before its worker begins is dropped without a
  trace in the history (`channels/mod.rs:2962`), while
  `docs/reference/api/channels-reference.md:163` speaks of preserved context.
* While a conversation has at most `keep_tool_context_turns` user turns, `strip` removes
  all tool turns instead of none (`channels/mod.rs:1419`: without an older turn the
  boundary stays at the end), although `docs/reference/api/config-reference.md:104`
  says that they are kept.

### CronScheduler

A statement on the table is the unit of atomicity, for every store function opens its
own connection: `update_job` is `EditReads` and later one of `Amend`, `Pause`, `Resume`,
`Reschedule`, each of which writes the whole row. The start-up is a `SyncJob` for each declared
job and then `SyncEnds`, or `SyncFails` with some of them unwritten. A run goes from `Start`
over `Execute` to one of the `Persist` actions. A schedule is "every" (an interval, or a cron
expression, of which only matters that its next time is later), "at" (a one-shot) or "until" (an
expression that names years, and has no occurrence from some time on). `passed`,
`finished` and `paused` are history variables of the properties.

Two kinds of rows stay due whatever is run, and the model has both (`Barren`):

* `due_jobs` applies `LIMIT` in the query (`cron/store.rs:184`) and then skips the rows that
  `map_cron_job_row` cannot decode (`cron/store.rs:193`). Such a row takes a place in
  every poll (`Draws`) and never runs (`Decoded`). Nothing but removing it helps, for
  `update_job` cannot read it either.
* `next_run_for_schedule` fails when an expression has no future occurrence
  (`cron/schedule.rs:18`). After its last occurrence a job is run, `reschedule_after_run` fails
  before it writes (`cron/store.rs:353`), and the job is drawn again by the next poll.

With `max_tasks` of them before a job, no poll ever reaches it: it starves without a fault and
without an edit. `NoStarvation` and `DueIsServed` name this as their exception (`Blocked`). In the
bounds of `cron_scheduler` TLC refutes either without it: the undecodable row and the
declared job past its last occurrence fill the polls of two. A catch-up has no limit
and does reach the jobs behind such rows.

Stale rows are the code's own hazard, and the properties name them where they
matter: an `update_job` that read its row before a run was persisted writes back what
it read, so a finished one-shot or a paused job may come back. Jobs declared as enabled
are enabled again by each start (`sync_declarative_jobs`), and so a declared one-shot that failed runs again after each restart. With `catch_up_on_startup` off, overdue jobs still
run at the first poll, limited by `max_tasks`. A job whose schedule was edited while it ran
is rescheduled from the schedule it was drawn with.

### WorkflowApproval

One workflow run with `N` approval steps. `heap` holds its state objects: `LookUp` takes the
live object of `ACTIVE_WORKFLOWS` if there is one and loads a copy of the checkpoint
otherwise, so that two requests may work on different objects. The operator is one
asyncio process: `LookUp` and `Approve` or `RejectLoops` are separate actions because
`resolve_workflow` is awaited between the check and the change; `Enter` is the scheduled
execution's start, `Push` and `Pause` lie around the await of the gateway's answer,
`Finalize` and `Finish` around the persisting of the result. A preflight check that fails
(`PreflightFails`, `PreflightEnds`) marks the object failed, persists that under the run's lock
if it gets it, and touches neither the checkpoint nor `ACTIVE_WORKFLOWS`. What a run
ends as is not simply its status: a cancellation requested during the last step is too
late and the run completes, and the time guard, the cost guard or a failing step make a
cancelled run failed. On the gateway's side, `MatchReply` and
`ClaimReply` are two critical sections of the registry, and `Post` claims again.

Read from the model: a reply that arrives between `Push` and `Pause` is claimed, finds the
run still running and is lost, and the run stays paused; a resume that fails does not
give the claim back; the registry's key is the run, so a late `Attach` or a claim may
concern the next approval of the same run; of two approvals that pass the check
together, the second finds the run locked and marks the state object cancelled,
which the first one shares when both took it from memory.

## 3. Runs

| Run | Bounds | Question |
|---|---|---|
| `sop_runs` | 3 runs started, 1 clock tick, limits 2/1..3, history of 2, timeout 1 s, four catalogs that differ in mode, gating, steps, cooldown, limits, or are empty | Do approvals, timeouts, cooldown, limits and history hold whatever is edited? |
| `sop_checkpoint` | 1 run per process, 1 restart or tick, SOP of 3 steps with a checkpoint or shortened to 1 | Do checkpoints, torn files, crashes and resumes keep runs sound? |
| `session_queue` | 3 tasks, 1 session, depth 2, 3 slots | Does the queue implement the lock, answer everyone and shrink again? |
| `chat_sockets` | 2 connections, 1 session, 2 turns, 2 notes, 1 crash | Are guarded turns serial, is "running" true, are guards returned? |
| `channel_dispatch` | 3 messages, 2 or 3 conversations, histories of 3 turns, compaction to 2, 1 tool turn kept, up to 1 `/stop`, five scenarios | Is every message handled once, the in-flight table exact, a reply next to its own turn, and does nothing hang but the lost wakeup? |
| `cron_scheduler` | 4 jobs (recurring, one-shot, declared with a last occurrence, undecodable), 1 editor, 1 edit or removal, 2 ticks, 1 fault, 2 rows per poll | Do due jobs run, without overlap or starvation, and do one-shots and pauses stay what they are? |
| `workflow_approval` | 2 replies and 1 click, 2 approval steps, 1 rejection that loops | Is an approval claimed once, a run executed once at a time, and no step passed without an approval? |
| `approval_doc_rejected` | as above, without a rejection loop | A rejected run is resumed from its checkpoint |
| `sop_doc_approval`, `sop_doc_checkpoint`, `sop_doc_resume`, `chat_doc_one_turn` | one unchanging SOP, or as above | Sentences of the documentation that the code does not keep |

Why the bounds are enough. `sop_runs`: the limit 2 is reached with 3 runs; a history
of 2 overflows with 3 finished runs; a cooldown of 1 is missed before the tick and
met after it, one of 2 is never met; every execution mode that gates steps occurs. `sop_checkpoint`: the
checkpoint is in the middle, so there are steps before it, after it and on it; one
restart is what a resume needs, and the same run is resumed repeatedly.
`session_queue`: with depth 2 and 3 tasks one waits, one holds and one is rejected, and a
third slot would be free if a sweep wrongly evicted one. Several sessions share
nothing but the map's mutex; the proofs cover any number. `chat_sockets`: two
turns can be guarded or not in every combination, and a third connection adds only
a third copy of the same code. `MaxRuns`, `MaxNow`, `MaxSavedRuns`, `MaxTurns`, `MaxNotes`,
`MaxCrashes`, `MaxMessages`, `MaxTime`, `MaxEdits`, `MaxFaults` exist for TLC only: each is a
guard of the actions it counts.

`channel_dispatch`: the five scenarios (debounced with interruption; one permit with the
CLI between two conversations and a `/stop`; three permits and tools with two
conversations of one scope; interruption with a `/stop`; neither, with tools) reach every
ending and every replacement of an entry; three messages are one that is interrupted,
one that interrupts it, and one that interrupts the interrupter. A history of three turns
overflows, and one of its trims cuts a user turn from its reply. `cron_scheduler`: of
the two rows of a poll the undecodable one takes one, which leaves one job per poll and
makes the others wait, and with the declared job past its last occurrence both are
gone, which is `Blocked`; the single edit
covers each patch, and the single fault each failed write and the crash, at every
point. `workflow_approval`: three requests are enough for a decision, its duplicate, and
one that contradicts both; the two replies are symmetric.

Deadlock is checked in `session_queue`, `chat_sockets`. It is off for the others, which come to
rest by design: the SOP engine when nobody calls it, the dispatch loop when the
channels are closed and its workers have ended, the scheduler when nothing is due
and the clock stands at its bound, a workflow when its requests are used up.

## 4. Properties

Beside one type invariant per module:

* **Engine**: `NoStepSkipped`, `StateFileSound`, `SavingsBounded`, `FinishedOnce`, `FreshRunIds`
  (checkpoints and crashes), `GatedStepsWait`, `TimeoutSurfaced`, `ConcurrencyLimit`,
  `CooldownRespected`, `HistoryKeepsNewest` (interactive runs).
* **Queue**: `SlotCurrent`, `PendingExact`, `NoLostPermit`, `ImplementsLock`, and under fairness
  `Answered` and `Reclaimed`.
* **Socket**: `GuardedTurnsSerial`, `TurnsInOrder`, `RunningIsLive`, `GuardScoped`,
  `OthersKeepRunning`, and under fairness `TurnEnds`.
* **Channels**: `EveryMessageOnce`, `InFlightExact`, `ReplyFollowsItsTurn`, and under fairness
  `SettledUnlessWakeupLost`.
* **Cron**: `NoOverlap`, `NoStarvation`, `OneShotStaysDone`, `PauseHolds`, and under fairness
  `DueIsServed`.
* **Workflow**: `ClaimedOnce`, `OneExecution`, `StepsNeedApprovals`.

Several are stated with an exception because the code has one:
`ConcurrencyLimit` and `FinishedOnce` exempt runs rebuilt by a resume, which consults no
limit and can bring back a finished run; `RunningIsLive` exempts turns cut off by a crash,
because nothing resets the row at startup (`list_stuck_sessions` has no caller);
`ReplyFollowsItsTurn` speaks of runs without `/stop`, because a stopped worker is not in the
table any more and the next message does not wait for it; `NoStarvation` allows one
more pass for each fault, edit and declared job of a restart, which can put another job in
front, does not count polls that stuck rows fill, and speaks of a job that stays due at one
`next_run`: one that is rescheduled waits anew; `DueIsServed` excepts jobs behind a poll full
of stuck rows; `OneShotStaysDone` and `PauseHolds` end when a caller resumes the job, the configuration declares it again, or a
stale row is written back;
`GuardedTurnsSerial` and `OthersKeepRunning` speak of guarded turns, because a message sent as
the first frame takes no guard.

## 5. Where documents and code differ

1. `sop_doc_approval`: `docs/reference/sop/syntax.md:61` says that
   `requires_confirmation: true` enforces approval. `advance_step` does not look at the
   status, so a result reported for a waiting run moves it on.
2. `sop_doc_checkpoint`: `sop/types.rs:111` says that a checkpoint step pauses for
   approval. `advance_step`, which the tools call also for deterministic runs, hands
   it out as an ordinary step.
3. `sop_doc_resume`: `sop/types.rs:402` says that the state is persisted so that the run can
   resume after approval. Resume restarts at the step after the last completed one,
   which is the checkpoint, and pauses there again.
4. `chat_doc_one_turn`: `gateway/session_queue.rs:3` says that a session has at most one
   concurrent turn. The first-frame path of `handle_socket` does not acquire.
5. `approval_doc_rejected`: `operator-mcp/workflow/executor.py:300` says that nothing resumes
   from a run in a terminal status. A rejection sets the status in memory and pops the
   run, and leaves the checkpoint that says paused, from which the next
   `resume_workflow` goes on (`tool_handlers/workflows.py:660`).

## 6. Fairness

`SessionQueue`: weak fairness of each task's own steps (the runtime polls ready
tasks), of `drop_guard` (a turn ends, see `ws_turn_timeout_budget_secs`), of `age` and of
the sweep (a periodic task). Nothing is assumed of `timeout`, so `Answered` holds even
if no timeout ever strikes. `ChatSocket`: weak fairness of the gateway's own steps
of a connection; clients owe nothing. One assumption is stronger than the code: a
frame sent to a client that neither reads nor breaks its connection is taken to
end. The send is awaited inside the select loop, outside the overall timeout.
`ChannelDispatch`: weak fairness of the loop's `StopCancel`, `Spawn` and `Return` and of every timer
and worker; the model call is under a timeout (`channels/mod.rs:3651`), so each call ends.
Nothing is assumed of the arrival of messages or of `Close`. `CronScheduler`: weak fairness of
the scheduler's steps, of each run, and of `Restart` (the daemon supervises the
scheduler). That a job ends is guaranteed for shell commands, which have a timeout,
and assumed for agent jobs; one that hangs blocks all later polls. Clocks, edits and
faults owe nothing. `SopEngine` and `WorkflowApproval` have no fairness and no liveness
property: they act only when called, and a paused run may wait forever.

## 7. Proofs

All for every value of the constants, from the assumptions `ConstantsAssumption`,
`QueueAssumption`, `ChatAssumption`, `DebouncerAssumption`, `DispatchAssumption`, `CronAssumption` and
`WorkflowApprovalAssumption` (the constants have the right types; tasks, jobs and requests are finitely
many).

`SopEngineProofs`: `IInv` says of every single run, finished run and state file what the
invariants say of all of them. It is stronger than their conjunction where they
are not inductive: a state file must agree with the active run of the same id on
its results and its number of steps (`Matches`), or a resume could rebuild a run that
misses results; and every id in use must have been issued by this process or
earlier (`IssuedInv`), or a new run could take one. Each method is a lemma; the helpers
that insert, drop, finish and persist are lemmas over which the methods are
assembled. From it: `TypeCorrect`, `NoStepSkippedHolds`, `StateFilesSound`,
`SavingsHold`, `RunIdsFresh`. `ConcurrencyLimitHolds` and `FinishedOnceHolds` use a
classification of all steps by what they do to the set of active runs (`NextShape`), and so
does `HistoryKeepsNewestHolds`, where what is evicted is a prefix of the history and never all
of it. `CooldownHolds` needs that the history is in the order of completion (`Chronological`):
`can_start` looks at the last finished run of a SOP only, and that it has one is a greatest
element (`LastFinishedExists`). `TimeoutsSurface` needs that a waiting run has a time since
which it waits (`WaitInv`). `GatedStepsWaitHolds` goes through the places where the engine
hands a step out: only an approval hands out one that is gated, and it found the run waiting
at that step (`WaitedAt`).

`SessionQueueProofs`: `IInv` adds to the checked invariants that slots are not shared
(`Injective`), that references, permits and queues agree (`RefInv`, `PermitInv`, `QueueInv`),
and that an entry marked for removal is unused and stays so while the mutex is
held (`SweepInv`). From it: `TypeCorrect`, `SlotsCurrent`, `PendingCounts`, `PermitNotLost`,
`MutualExclusionHolds` and the refinement `LockImplemented`.

`ChatSocketProofs`: `IInv` adds what is true of the turns in progress (`TaskInv`): a turn's
rows carry its guard, hold no reply while it may still write, and no other guarded
row follows them. With distinct turn numbers (`Distinct`) and one guard per session
(`Exclusive`), appending a row keeps histories serial and in order (`AppendOwn`,
`AppendOther`), and a step of another guarded turn of the same session is impossible,
which gives `RunningIsKept`. From it: `TypeCorrect`, `RunningLive`, `GuardsScoped`,
`GuardedTurnsAreSerial`, `TurnsAreInOrder`, `RunningIsKept`.

`ChannelDispatchProofs`: `IInv` has two halves over the types. For the texts (`TextInv`), the newest
message of an entry is the one whose task still waits, with an empty result (`Awaited`), and the
text of every received message is in one place, an entry or one worker (`OnePlace`), in the order
of arrival (`Combined`); a step that touches neither entries nor texts is `Calm`. For the table (`TableInv`),
only workers that register are in it (`EntriesRegister`). Neither depends on what
`process_channel_message` does to the history, so its inner steps are one kind of step in the
proof. From it: `EveryMessageOnceHolds`, `InFlightExactHolds`.

`ChannelHistoryProofs`: first the operators on histories. That the recursive functions in
`normalize` and `strip` exist, that neither adds a turn, and that both keep a history `Sound` (each
turn may follow the one before it) are inductions over the number of turns done, with the
set of numbers for which the claim holds in the place of the predicate (`BoundedSetInduction`
of `NatSets`). Merging needs that a sound history has no two answers in a row and no user turn
after a tool turn, so that only user turns merge. Then `HInv`: the registered workers of a scope have
an order, unknown to the code, in which the newest is the entry of the scope and every one
with an older one below it waits for a worker that is not older than that (`Chained`).
Registration puts a worker on top, an end takes the bottom one out, and a wait ends only for a
worker that is done, which is in the queue no more; so at most one worker of a scope is past
its wait (`OneActive`), and at most one writes in a conversation of that scope (`OneWriter`). What
it finds there depends on its stage (`Talks`): its own user turn while it prepares and calls,
its tool turn while it answers. From it: `HistoryInvariance`, `TypesHold`,
`ReplyFollowsItsTurnHolds`.

`CronSchedulerProofs`: `IInv` has `TypeOK` and `NoOverlap` and what they and the two
properties of finished and paused jobs need: nothing is in hand before the first poll
(`IdleBeforePoll`), whatever is in hand or being edited was added once
(`InUseWasAdded`), an editor that is not stale holds the row as it is
(`CurrentUnlessStale`), and the finished and the paused jobs are off (`Off`). The last two
are the argument: a row only comes back through a stale copy, and the stale copies are
exactly the ones the properties exempt. From it: `TypeCorrect`, `NoOverlapHolds`,
`OneShotStaysDoneHolds`, `PauseHoldsTheorem`.

`NoStarvationHolds` adds `StarvationInv`. The jobs before a waiting one that a run moves (`Before`)
are of two sorts: those in hand, whose run will take them from there (`Fresh`), and those still
to be taken (`Ahead`). For every waiting job, the polls counted against it, its `Load` (the ones
ahead, and those in hand but one, which a crash may leave there), the edits that may yet
write an old row back and the declared jobs that the start-up may yet write, together never
exceed `Budget`: the other jobs, the faults, the edits and the restarted jobs there have been.
A poll that leaves the job either finds it blocked, and does not count, or takes at
least one job that its run moves (`SelectionBefore`), which passes from `Ahead` to `Fresh`
(`WaitingBatch`, `LoadStep`); and whatever puts another job in front is paid for (`WaitingKept`). The
passes start again with a new `next_run` (`CountsKept`): an edit of the waiting job's own
schedule moves it behind the others.

`WorkflowApprovalProofs`: `IInv` adds that executions hold the lock (`LockHeld`), that the object of
a request that has not looked the run up yet is used by nobody (`Private`), that a pending or pushed
approval is a step of the workflow (`PendingIsAStep`, `PushesAStep`), that claims are of
registered prompts and of none that is still in the registry (`ClaimsRegistered`,
`ClaimedOnce`), and that the steps passed are covered by requests that have used their
approval (`CountUsed`). From it: `TypeCorrect`, `ClaimedOnceHolds`, `OneExecutionHolds`,
`StepsNeedApprovalsHolds`.

Only model-checked: the liveness properties `Answered`, `Reclaimed`, `TurnEnds`,
`SettledUnlessWakeupLost` and `DueIsServed`: fairness and ENABLED are out of the prover's
reach. Every type invariant, safety invariant and action property of the passing runs, and
the refinement of `SessionLock`, is a theorem. No module uses RECURSIVE operators. The library's
induction theorems, which take a predicate as a parameter, cannot be instantiated by the
provers; `NatSets` derives induction with sets from the well-foundedness of the naturals
instead, and what a recursive function computes is proved with that where a property needs it.

## 8. Not modelled

Of the channels: the session files behind the histories, the other runtime commands,
media, drafts, and the supervision of the listeners; a panic, because the release
profile aborts on one. Of cron: the matching of expressions, the run log, `cron_run`, which executes a
job beside the scheduler, workflow triggers, jobs that leave the configuration, a change of
the configuration between two starts, and declarations that are invalid before anything is
written (the sync then does nothing). A poll whose query fails changes nothing and is a
stuttering step. Of
the workflows: `retry_workflow`, `for_each`, `human_input`, restarts and the
recovery of runs by a new operator process, and several operator processes at once
(`recovery.py` unlinks the lock file after it unlocks it); the endpoint's timeout of 30
seconds is only a lost answer, the operator goes on. The adapters of the single chat
services are protocol clients.

Trigger matching and conditions of SOPs (pure string and JSON predicates that
select names), formats, titles, attachments, broadcast events, and the approval
frames of a chat turn. The agent loop and providers: their control depends on
model output, and the socket model takes every outcome. Trust and cost are
floating-point sums. Security policy and pairing are checks over strings. Memory,
nodes, tunnels, plugins, skills, hardware and configuration are I/O or parsing.

## 9. Plan

1. Done: `SopEngine`, `SessionLock`, `SessionQueue`, `ChatSocket`, `Debouncer`, `ChannelDispatch`,
   `CronScheduler`, `WorkflowApproval` with their proofs.
2. Done: theorems for all safety and action properties.
3. `SopDispatch`: audit and metrics after the engine's lock; headless disposition.
4. `Estop`: memory and file under partial failure.
5. The session files behind the conversation histories, and their rollback.
