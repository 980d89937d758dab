--------------------------- MODULE WorkflowApproval ---------------------------
(***************************************************************************)
(* The human approvals of one workflow run: the operator, which executes   *)
(* the run and pauses it at each approval step (operator-mcp), the         *)
(* gateway, which registers the pending approval and resumes the run       *)
(* (approval_registry.rs, api.rs, api_workflows.rs), and the people, who   *)
(* reply in a channel or press a button of the dashboard.                  *)
(*                                                                         *)
(* The registry is keyed by run, so one run has at most one entry; of the  *)
(* other runs it matters only that a bare keyword may match nothing.  A    *)
(* message that matches nothing goes to the agent and changes nothing here.*)
(*                                                                         *)
(* The operator is one asyncio process: a step of it goes from one await   *)
(* to the next.  A workflow is N approval steps with other steps around    *)
(* them; it saves checkpoints.  Restarts are left out.                     *)
(***************************************************************************)
EXTENDS Naturals, FiniteSets

CONSTANTS
  Reply,          \* keyword messages in the channels, redelivered ones included
  Click,          \* calls of POST /approve by dashboards
  Launch,         \* the first execution of the run
  None,
  N,              \* the approval steps of the workflow
  on_reject_max   \* 0: no on_reject_goto; else the rejections that loop back

Request == Reply \cup Click
Actor == Request \cup {Launch}

ASSUME WorkflowApprovalAssumption ==
  /\ IsFiniteSet(Request)
  /\ Reply \cap Click = {}
  /\ {Launch, None} \cap Request = {} /\ Launch # None
  /\ {N, on_reject_max} \subseteq Nat

VARIABLES
  entry,       \* the registry's entry for the run: which prompt it is, the prompt
               \* whose scope is attached to it (0: none yet)
  registered,  \* prompts registered so far
  sending,     \* prompts whose channel message is being sent
  phase,       \* where each request, and the execution it starts, is
  decision,
  heap,        \* the run's state objects: the first one, and copies that
               \* load_checkpoint made for a request
  obj,         \* the object that a request works on
  active,      \* ACTIVE_WORKFLOWS
  saved,       \* the checkpoint file
  lock,        \* the holder of the run's file lock
  claims,      \* <<request, prompt>>: who claimed which registered approval
  rejected     \* a rejection has cancelled the run

gateway == <<entry, registered, sending, claims>>
operator == <<heap, obj, active, saved, lock, rejected>>
vars == <<gateway, phase, decision, operator>>

-----------------------------------------------------------------------------

Entry == [prompt : Nat, scope : Nat]

\* Of WorkflowState: how many approval steps are behind it, whether the next one
\* has a pending result, and how often that one was rejected.
WorkflowState ==
  [status : {"running", "paused", "completed", "failed", "cancelled"},
   at : 0 .. N, pending : BOOLEAN, rejects : 0 .. on_reject_max, cancel : BOOLEAN]

Fresh == [status |-> "running", at |-> 0, pending |-> FALSE, rejects |-> 0, cancel |-> FALSE]

\* The phases of an execution that has taken the run's lock.
Executing == {"loop", "pushing", "pushed", "finishing", "persisting"}
Phase == Executing \cup {"idle", "matched", "posting", "resuming", "resolving",
                         "scheduled", "cancelling", "done"}

TypeOK ==
  /\ entry \in Entry \cup {None}
  /\ registered \in Nat
  /\ sending \subseteq 1 .. registered
  /\ phase \in [Actor -> Phase]
  /\ decision \in [Request -> {"none", "approve", "reject"}]
  /\ heap \in [Actor -> WorkflowState]
  /\ obj \in [Actor -> Actor]
  /\ active \in Actor \cup {None}
  /\ saved \in WorkflowState \cup {None}
  /\ lock \in Actor \cup {None}
  /\ claims \subseteq Request \X Nat
  /\ rejected \in BOOLEAN

Init ==
  /\ entry = None
  /\ registered = 0
  /\ sending = {}
  /\ phase = [q \in Actor |-> IF q = Launch THEN "loop" ELSE "idle"]
  /\ decision = [q \in Request |-> "none"]
  /\ heap = [q \in Actor |-> Fresh]
  /\ obj = [q \in Actor |-> q]
  /\ active = Launch
  /\ saved = None
  /\ lock = Launch
  /\ claims = {}
  /\ rejected = FALSE

state(q) == heap[obj[q]]
to(q, ph) == phase' = [phase EXCEPT ![q] = ph]
writes(q, s) == heap' = [heap EXCEPT ![obj[q]] = s]

\* What _save_checkpoint writes: the cancel signal is excluded from the dump.
dump(s) == [s EXCEPT !.cancel = FALSE]

-----------------------------------------------------------------------------
(* The gateway and the channels *)

\* Mutant: the entry is read and not removed.
try_claim_Peeks(q) ==
  /\ claims' = IF entry = None THEN claims ELSE claims \cup {<<q, entry.prompt>>}
  /\ UNCHANGED entry

\* ApprovalRegistry::try_claim
try_claim(q) ==
  /\ entry' = None
  /\ claims' = IF entry = None THEN claims ELSE claims \cup {<<q, entry.prompt>>}

\* The match functions: a reply in the thread of the attached prompt, or a bare
\* keyword in its chat, under the registry's read lock.
MatchReply(q, d) ==
  /\ q \in Reply
  /\ phase[q] = "idle"
  /\ entry # None
  /\ entry.scope # 0
  /\ decision' = [decision EXCEPT ![q] = d]
  /\ to(q, "matched")
  /\ UNCHANGED gateway
  /\ UNCHANGED operator

\* The listener claims the run it matched, under the write lock; a message that
\* finds no entry any more goes to the agent.
ClaimReply(q) ==
  /\ phase[q] = "matched"
  /\ try_claim(q)
  /\ to(q, IF entry = None THEN "done" ELSE "posting")
  /\ UNCHANGED <<registered, sending, decision>>
  /\ UNCHANGED operator

\* handle_approve_workflow_run claims on its own account, and calls the operator
\* whether it got the entry or not.  Without an operator the decision is lost.
Post(q, d) ==
  /\ \/ q \in Click /\ phase[q] = "idle" /\ registered > 0
     \/ phase[q] = "posting" /\ d = decision[q]
  /\ decision' = [decision EXCEPT ![q] = d]
  /\ try_claim(q)
  /\ \/ to(q, "resuming")
     \/ to(q, "done")
  /\ UNCHANGED <<registered, sending>>
  /\ UNCHANGED operator

\* The task that handle_api_channel_events spawned has sent prompt p and attaches
\* its identifiers to the run's entry, whichever prompt that is by now.
Attach(p) ==
  /\ p \in sending
  /\ sending' = sending \ {p}
  /\ entry' = IF entry = None THEN None ELSE [entry EXCEPT !.scope = p]
  /\ UNCHANGED <<registered, claims, phase, decision>>
  /\ UNCHANGED operator

SendFails(p) ==
  /\ p \in sending
  /\ sending' = sending \ {p}
  /\ UNCHANGED <<entry, registered, claims, phase, decision>>
  /\ UNCHANGED operator

-----------------------------------------------------------------------------
(* tool_resume_workflow *)

ResumeFrame ==
  /\ UNCHANGED gateway
  /\ UNCHANGED decision

\* ACTIVE_WORKFLOWS.get(run_id) or load_checkpoint(run_id); only a paused run goes on
\* to resolve its workflow, which is an await.
LookUp(q) ==
  LET o == IF active = None THEN q ELSE active
      s == IF active = None THEN saved ELSE heap[active]
  IN /\ phase[q] = "resuming"
     /\ IF s # None /\ s.status = "paused"
          THEN /\ to(q, "resolving")
               /\ obj' = [obj EXCEPT ![q] = o]
               /\ heap' = [heap EXCEPT ![o] = s]
          ELSE /\ to(q, "done")
               /\ UNCHANGED <<obj, heap>>
     /\ UNCHANGED <<active, saved, lock, rejected>>
     /\ ResumeFrame

ResolveFails(q) ==
  /\ phase[q] = "resolving"
  /\ to(q, "done")
  /\ UNCHANGED operator
  /\ ResumeFrame

\* The pending step is completed and an execution of the object is scheduled.
Approve(q) ==
  LET s == state(q)
  IN /\ phase[q] = "resolving"
     /\ decision[q] = "approve"
     /\ writes(q, IF s.pending
                    THEN [s EXCEPT !.at = @ + 1, !.pending = FALSE, !.rejects = 0]
                    ELSE s)
     /\ to(q, "scheduled")
     /\ UNCHANGED <<obj, active, saved, lock, rejected>>
     /\ ResumeFrame

\* Mutant: one rejection more than on_reject_max loops.
may_loop_OneMore(s) == s.pending /\ on_reject_max > 0 /\ s.rejects <= on_reject_max

may_loop(s) == s.pending /\ s.rejects + 1 <= on_reject_max

\* Mutant: the rejected step keeps the completed result it was given.
RejectLoops_Completes(q) ==
  LET s == state(q)
  IN /\ phase[q] = "resolving"
     /\ decision[q] = "reject"
     /\ may_loop(s)
     /\ writes(q, [s EXCEPT !.status = "running", !.at = @ + 1, !.pending = FALSE])
     /\ to(q, "scheduled")
     /\ UNCHANGED <<obj, active, saved, lock, rejected>>
     /\ ResumeFrame

\* on_reject_goto: the steps from its target to the approval run again.  The target
\* comes after the approval before this one, so no other approval is repeated.
RejectLoops(q) ==
  LET s == state(q)
  IN /\ phase[q] = "resolving"
     /\ decision[q] = "reject"
     /\ may_loop(s)
     /\ writes(q, [s EXCEPT !.status = "running", !.pending = FALSE, !.rejects = @ + 1])
     /\ to(q, "scheduled")
     /\ UNCHANGED <<obj, active, saved, lock, rejected>>
     /\ ResumeFrame

\* The object is cancelled; the database is told, the checkpoint is not ...
RejectCancels(q) ==
  /\ phase[q] = "resolving"
  /\ decision[q] = "reject"
  /\ ~may_loop(state(q))
  /\ writes(q, [state(q) EXCEPT !.status = "cancelled"])
  /\ rejected' = TRUE
  /\ to(q, "cancelling")
  /\ UNCHANGED <<obj, active, saved, lock>>
  /\ ResumeFrame

\* ... and then the run leaves ACTIVE_WORKFLOWS.
RejectPops(q) ==
  /\ phase[q] = "cancelling"
  /\ active' = None
  /\ to(q, "done")
  /\ UNCHANGED <<heap, obj, saved, lock, rejected>>
  /\ ResumeFrame

-----------------------------------------------------------------------------
(* execute_workflow *)

\* Mutant: the run's lock is not consulted.
Enter_NoLock(q) ==
  /\ phase[q] = "scheduled"
  /\ lock' = q
  /\ active' = obj[q]
  /\ writes(q, [state(q) EXCEPT !.status = "running"])
  /\ to(q, "loop")
  /\ UNCHANGED <<obj, saved, rejected>>
  /\ ResumeFrame

\* The scheduled execution marks the object running and takes the run's file lock;
\* if that is taken it marks the object cancelled and returns.
Enter(q) ==
  /\ phase[q] = "scheduled"
  /\ IF lock = None
       THEN /\ lock' = q
            /\ active' = obj[q]
            /\ writes(q, [state(q) EXCEPT !.status = "running"])
            /\ to(q, "loop")
       ELSE /\ writes(q, [state(q) EXCEPT !.status = "cancelled"])
            /\ to(q, "done")
            /\ UNCHANGED <<lock, active>>
  /\ UNCHANGED <<obj, saved, rejected>>
  /\ ResumeFrame

\* A preflight check of the scheduled execution fails: the definition is not valid,
\* the target step or a tool is unknown, the cost is too high.  The object is marked
\* failed, and persisted under the run's lock if nobody holds that.
PreflightFails(q) ==
  /\ phase[q] = "scheduled"
  /\ writes(q, [state(q) EXCEPT !.status = "failed"])
  /\ IF lock = None
       THEN lock' = q /\ to(q, "persisting")
       ELSE to(q, "done") /\ UNCHANGED lock
  /\ UNCHANGED <<obj, active, saved, rejected>>
  /\ ResumeFrame

\* The failure is persisted in the database, or that fails: the lock is released.
\* Neither the checkpoint nor ACTIVE_WORKFLOWS has changed.
PreflightEnds(q) ==
  /\ phase[q] = "persisting"
  /\ lock' = None
  /\ to(q, "done")
  /\ UNCHANGED <<heap, obj, active, saved, rejected>>
  /\ ResumeFrame

stopped(s) == s.cancel \/ s.status = "cancelled"

\* The steps before the next approval have run, if there are any, and saved the
\* checkpoint; the approval's own result is "running" from here.
RunSteps(q) ==
  LET s == [state(q) EXCEPT !.pending = FALSE]
  IN /\ phase[q] = "loop"
     /\ ~stopped(s)
     /\ s.at < N
     /\ writes(q, s)
     /\ saved' \in {saved, dump(s)}
     /\ to(q, "pushing")
     /\ UNCHANGED <<obj, active, lock, rejected>>
     /\ ResumeFrame

\* The loop ends.  A cancellation ends it at its next check, or when a step fails; one
\* requested during the last step comes too late, the run completes.  The time guard,
\* the cost guard and a failing step fail the run whatever its status was; an
\* exception of the executor does so without a checkpoint.
Finalize(q, status) ==
  LET s == state(q)
  IN /\ phase[q] = "loop"
     /\ status = "cancelled" => stopped(s)
     /\ status = "completed" => s.status = "running" /\ s.at = N
     /\ writes(q, [s EXCEPT !.status = status])
     /\ \/ saved' = dump([s EXCEPT !.status = status])
        \/ status = "failed" /\ UNCHANGED saved
     /\ to(q, "finishing")
     /\ UNCHANGED <<obj, active, lock, rejected>>
     /\ ResumeFrame

\* The result is persisted; the run leaves ACTIVE_WORKFLOWS, unless a rejection has
\* meanwhile set it running, and the lock is released.
Finish(q) ==
  /\ phase[q] = "finishing"
  /\ active' = IF state(q).status \in {"running", "paused"} THEN obj[q] ELSE None
  /\ lock' = None
  /\ to(q, "done")
  /\ UNCHANGED <<heap, obj, saved, rejected>>
  /\ ResumeFrame

\* _exec_human_approval posts the request to the gateway, which registers it and
\* spawns the task that sends the prompt; a push that fails is only logged.
Push(q) ==
  /\ phase[q] = "pushing"
  /\ \/ /\ registered' = registered + 1
        /\ entry' = [prompt |-> registered', scope |-> 0]
        /\ sending' = sending \cup {registered'}
     \/ UNCHANGED <<registered, entry, sending>>
  /\ to(q, "pushed")
  /\ UNCHANGED <<claims, decision>>
  /\ UNCHANGED operator

\* The step is pending: the run is paused, checkpointed, and its lock released.
Pause(q) ==
  LET s == [state(q) EXCEPT !.status = "paused", !.pending = TRUE]
  IN /\ phase[q] = "pushed"
     /\ writes(q, s)
     /\ saved' = dump(s)
     /\ active' = obj[q]
     /\ lock' = None
     /\ to(q, "done")
     /\ UNCHANGED <<obj, rejected>>
     /\ ResumeFrame

\* tool_cancel_workflow
Cancel ==
  /\ active # None
  /\ heap[active].status \in {"running", "paused"}
  /\ ~heap[active].cancel
  /\ heap' = [heap EXCEPT ![active].cancel = TRUE]
  /\ UNCHANGED <<phase, obj, active, saved, lock, rejected>>
  /\ ResumeFrame

-----------------------------------------------------------------------------

Execution(q) ==
  \/ PreflightFails(q) \/ PreflightEnds(q)
  \/ Enter(q) \/ RunSteps(q) \/ Finish(q) \/ Push(q) \/ Pause(q)
  \/ \E status \in {"cancelled", "completed", "failed"} : Finalize(q, status)

Resume(q) ==
  \/ ClaimReply(q) \/ LookUp(q) \/ ResolveFails(q) \/ Approve(q)
  \/ RejectLoops(q) \/ RejectCancels(q) \/ RejectPops(q)
  \/ \E d \in {"approve", "reject"} : MatchReply(q, d) \/ Post(q, d)

Next ==
  \/ \E q \in Actor : Execution(q)
  \/ \E q \in Request : Resume(q)
  \/ \E p \in sending : Attach(p) \/ SendFails(p)
  \/ Cancel

Spec == Init /\ [][Next]_vars

-----------------------------------------------------------------------------
(* Properties *)

\* Of the replies, redelivered replies and clicks that race for a registered
\* approval, at most one claims it (approval_registry.rs:113), although the match and
\* the claim are two critical sections and the endpoint claims again.
ClaimedOnce ==
  \A a, b \in claims : a[2] = b[2] => a = b

\* However many requests resume the run at once, and whether they work on the live
\* object or on a copy of the checkpoint, one execution at most is inside it
\* (recovery.py:3).
OneExecution ==
  \A p, q \in Actor :
    phase[p] \in Executing /\ phase[q] \in Executing => p = q

\* No approval step is passed without a decision of its own: the objects of the run
\* are never past more approval steps than people have approved, in whatever order
\* late, doubled and contradicting decisions reach the operator.
StepsNeedApprovals ==
  \A o \in Actor :
    heap[o].at <= Cardinality({q \in Request : decision[q] = "approve"})

\* "nothing resumes or retries from" a cancelled run (executor.py:301): after a
\* rejection has cancelled the run, no request finds it paused.
RejectedStaysCancelled ==
  [][ \A q \in Request : rejected /\ phase[q] = "resuming" => phase'[q] # "resolving" ]_vars
=============================================================================
