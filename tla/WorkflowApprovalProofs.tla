------------------------- MODULE WorkflowApprovalProofs -------------------------
(***************************************************************************)
(* Proofs about WorkflowApproval, for any requests, any number of approval *)
(* steps and any on_reject_max.  The inductive invariant adds to the       *)
(* checked ones: which objects a request may still overwrite, what holds   *)
(* of the object of an execution between two awaits, that the lock names   *)
(* the execution, and which approvals have been used.                      *)
(***************************************************************************)
EXTENDS WorkflowApproval, FiniteSetTheorems, TLAPS

USE DEF Actor, Request

\* A state object only has a pending approval if it is not past the last one.
Sound(s) == s.pending => s.at < N

PendingIsAStep ==
  /\ \A o \in Actor : Sound(heap[o])
  /\ saved # None => Sound(saved)

\* An execution that is about to push or to pause stands before an approval step
\* that is not pending yet.
PushesAStep ==
  \A q \in Actor :
    phase[q] \in {"pushing", "pushed"} => ~state(q).pending /\ state(q).at < N

\* The object of a request that has not been looked up is used by nobody else.
Private ==
  \A q \in Actor :
    phase[q] \in {"idle", "matched", "posting", "resuming"} =>
      active # q /\ \A p \in Actor : p # q => obj[p] # q

\* Who executes holds the lock.
LockHeld == \A q \in Actor : phase[q] \in Executing => lock = q

\* Claims are of registered prompts, and the prompt of the entry is unclaimed.
ClaimsRegistered ==
  /\ \A c \in claims : c[2] <= registered
  /\ entry # None => /\ entry.prompt <= registered
                     /\ \A c \in claims : c[2] # entry.prompt

\* The approvals that may have completed a step.
Used ==
  {q \in Request : decision[q] = "approve" /\ phase[q] \in Executing \cup {"scheduled", "done"}}

CountUsed ==
  /\ \A o \in Actor : heap[o].at <= Cardinality(Used)
  /\ saved # None => saved.at <= Cardinality(Used)

IInv == /\ TypeOK /\ PendingIsAStep /\ PushesAStep /\ Private /\ LockHeld
        /\ ClaimsRegistered /\ ClaimedOnce /\ CountUsed

-----------------------------------------------------------------------------
(* Types *)

\* What the helpers of an action read and write is well typed.
LEMMA ObjectTypes ==
  ASSUME TypeOK, NEW q \in Actor
  PROVE  /\ obj[q] \in Actor
         /\ state(q) \in WorkflowState
         /\ \A s \in WorkflowState : writes(q, s) => heap' \in [Actor -> WorkflowState]
         /\ \A ph \in Phase : to(q, ph) => phase' \in [Actor -> Phase]
  BY DEF TypeOK, state, writes, to

LEMMA StateTypes ==
  ASSUME NEW s \in WorkflowState
  PROVE  /\ \A st \in {"running", "paused", "completed", "failed", "cancelled"} :
              [s EXCEPT !.status = st] \in WorkflowState
         /\ [s EXCEPT !.pending = FALSE] \in WorkflowState
         /\ [s EXCEPT !.status = "paused", !.pending = TRUE] \in WorkflowState
         /\ [s EXCEPT !.cancel = TRUE] \in WorkflowState
         /\ s.at \in 0 .. N
  BY DEF WorkflowState

\* The gateway's part of the type invariant.
GatewayTypes ==
  /\ entry \in Entry \cup {None}
  /\ registered \in Nat
  /\ sending \subseteq 1 .. registered
  /\ claims \subseteq Request \X Nat

LEMMA GatewayTypeStep ==
  ASSUME TypeOK, Next
  PROVE  GatewayTypes'
<1>0. GatewayTypes
  BY DEF TypeOK, GatewayTypes
<1> USE <1>0
<1>1. ASSUME UNCHANGED gateway PROVE GatewayTypes'
  BY <1>1 DEF gateway, GatewayTypes
<1>2. ASSUME NEW q \in Request, try_claim(q), UNCHANGED <<registered, sending>>
      PROVE  GatewayTypes'
  BY <1>2 DEF try_claim, GatewayTypes, Entry
<1>3. ASSUME NEW q \in Actor, Push(q) PROVE GatewayTypes'
  <2>1. CASE /\ registered' = registered + 1
             /\ entry' = [prompt |-> registered', scope |-> 0]
             /\ sending' = sending \cup {registered'}
    BY <1>3, <2>1 DEF Push, GatewayTypes, Entry
  <2>2. CASE UNCHANGED <<registered, entry, sending>>
    BY <1>3, <2>2 DEF Push, GatewayTypes
  <2> QED
    BY <1>3, <2>1, <2>2 DEF Push
<1>4. ASSUME NEW p \in sending, Attach(p) PROVE GatewayTypes'
  BY <1>4 DEF Attach, GatewayTypes, Entry
<1>5. ASSUME NEW p \in sending, SendFails(p) PROVE GatewayTypes'
  BY <1>5 DEF SendFails, GatewayTypes
<1>6. CASE \E q \in Actor : Execution(q)
  BY <1>6, <1>1, <1>3
     DEF Execution, PreflightFails, PreflightEnds, Enter, RunSteps, Finish, Pause,
         Finalize, ResumeFrame
<1>7. CASE \E q \in Request : Resume(q)
  BY <1>7, <1>1, <1>2
     DEF Resume, ClaimReply, LookUp, ResolveFails, Approve, RejectLoops, RejectCancels,
         RejectPops, MatchReply, Post, ResumeFrame
<1>8. CASE Cancel
  BY <1>8, <1>1 DEF Cancel, ResumeFrame
<1> QED
  BY <1>4, <1>5, <1>6, <1>7, <1>8 DEF Next

LEMMA DumpTypes ==
  ASSUME NEW s \in WorkflowState
  PROVE  /\ dump(s) \in WorkflowState
         /\ dump(s).at = s.at
         /\ Sound(s) => Sound(dump(s))
  BY DEF dump, Sound, WorkflowState

\* The operator's part, and what the requests are doing.
OperatorTypes ==
  /\ phase \in [Actor -> Phase]
  /\ decision \in [Request -> {"none", "approve", "reject"}]
  /\ heap \in [Actor -> WorkflowState]
  /\ obj \in [Actor -> Actor]
  /\ active \in Actor \cup {None}
  /\ saved \in WorkflowState \cup {None}
  /\ lock \in Actor \cup {None}
  /\ rejected \in BOOLEAN

LEMMA ExecutionTypeStep ==
  ASSUME TypeOK, NEW q \in Actor, Execution(q)
  PROVE  OperatorTypes'
<1>0. /\ OperatorTypes
      /\ obj[q] \in Actor
      /\ state(q) \in WorkflowState
  BY ObjectTypes DEF TypeOK, OperatorTypes
<1>1. CASE Enter(q)
  BY <1>0, <1>1, StateTypes
     DEF Enter, writes, to, ResumeFrame, OperatorTypes, Phase, Executing
<1>2. CASE RunSteps(q)
  BY <1>0, <1>2, StateTypes, DumpTypes
     DEF RunSteps, writes, to, ResumeFrame, OperatorTypes, Phase, Executing
<1>3. CASE Finish(q)
  BY <1>0, <1>3 DEF Finish, to, ResumeFrame, OperatorTypes, Phase
<1>4. CASE Push(q)
  BY <1>0, <1>4 DEF Push, operator, to, OperatorTypes, Phase, Executing
<1>5. CASE Pause(q)
  BY <1>0, <1>5, StateTypes, DumpTypes
     DEF Pause, writes, to, ResumeFrame, OperatorTypes, Phase
<1>6. ASSUME NEW status \in {"cancelled", "completed", "failed"}, Finalize(q, status)
      PROVE  OperatorTypes'
  <2> DEFINE s == [state(q) EXCEPT !.status = status]
  <2>1. s \in WorkflowState /\ dump(s) \in WorkflowState
    BY <1>0, StateTypes, DumpTypes
  <2>2. saved' \in WorkflowState \cup {None}
    BY <1>0, <1>6, <2>1 DEF Finalize, OperatorTypes
  <2> QED
    BY <1>0, <1>6, <2>1, <2>2
       DEF Finalize, writes, to, ResumeFrame, OperatorTypes, Phase, Executing
<1>7. CASE PreflightFails(q)
  BY <1>0, <1>7, StateTypes
     DEF PreflightFails, writes, to, ResumeFrame, OperatorTypes, Phase, Executing
<1>8. CASE PreflightEnds(q)
  BY <1>0, <1>8 DEF PreflightEnds, to, ResumeFrame, OperatorTypes, Phase
<1> QED
  BY <1>1, <1>2, <1>3, <1>4, <1>5, <1>6, <1>7, <1>8 DEF Execution

\* Only Approve moves `at`; it needs the approval to be pending, hence not the end.
LEMMA DecisionTypes ==
  ASSUME NEW s \in WorkflowState, s.pending, Sound(s)
  PROVE  /\ [s EXCEPT !.at = @ + 1, !.pending = FALSE, !.rejects = 0] \in WorkflowState
         /\ may_loop(s) =>
              [s EXCEPT !.status = "running", !.pending = FALSE, !.rejects = @ + 1]
                \in WorkflowState
<1>1. s.at + 1 \in 0 .. N /\ 0 \in 0 .. on_reject_max
  BY WorkflowApprovalAssumption DEF Sound, WorkflowState
<1>2. may_loop(s) => s.rejects + 1 \in 0 .. on_reject_max
  BY WorkflowApprovalAssumption DEF may_loop, WorkflowState
<1> QED
  BY <1>1, <1>2 DEF WorkflowState

LEMMA ResumeTypeStep ==
  ASSUME TypeOK, PendingIsAStep, NEW q \in Request, Resume(q)
  PROVE  OperatorTypes'
<1>0. /\ OperatorTypes
      /\ obj[q] \in Actor
      /\ state(q) \in WorkflowState
      /\ Sound(state(q))
  BY ObjectTypes DEF TypeOK, OperatorTypes, PendingIsAStep, state
<1>1. CASE ClaimReply(q)
  BY <1>0, <1>1 DEF ClaimReply, operator, to, OperatorTypes, Phase
<1>2. CASE LookUp(q)
  <2>1. CASE active = None
    BY <1>0, <1>2, <2>1 DEF LookUp, to, ResumeFrame, OperatorTypes, Phase
  <2>2. CASE active # None
    BY <1>0, <1>2, <2>2 DEF LookUp, to, ResumeFrame, OperatorTypes, Phase
  <2> QED
    BY <2>1, <2>2
<1>3. CASE ResolveFails(q)
  BY <1>0, <1>3 DEF ResolveFails, operator, to, ResumeFrame, OperatorTypes, Phase
<1>4. CASE Approve(q)
  <2>1. heap' \in [Actor -> WorkflowState]
    BY <1>0, <1>4, DecisionTypes DEF Approve, writes, OperatorTypes
  <2> QED
    BY <1>0, <1>4, <2>1 DEF Approve, to, ResumeFrame, OperatorTypes, Phase
<1>5. CASE RejectLoops(q)
  <2>1. heap' \in [Actor -> WorkflowState]
    BY <1>0, <1>5, DecisionTypes DEF RejectLoops, may_loop, writes, OperatorTypes
  <2> QED
    BY <1>0, <1>5, <2>1 DEF RejectLoops, to, ResumeFrame, OperatorTypes, Phase
<1>6. CASE RejectCancels(q)
  BY <1>0, <1>6, StateTypes
     DEF RejectCancels, writes, to, ResumeFrame, OperatorTypes, Phase
<1>7. CASE RejectPops(q)
  BY <1>0, <1>7 DEF RejectPops, to, ResumeFrame, OperatorTypes, Phase
<1>8. ASSUME NEW d \in {"approve", "reject"}, MatchReply(q, d) PROVE OperatorTypes'
  BY <1>0, <1>8 DEF MatchReply, operator, to, OperatorTypes, Phase
<1>9. ASSUME NEW d \in {"approve", "reject"}, Post(q, d) PROVE OperatorTypes'
  BY <1>0, <1>9 DEF Post, operator, to, OperatorTypes, Phase
<1> QED
  BY <1>1, <1>2, <1>3, <1>4, <1>5, <1>6, <1>7, <1>8, <1>9 DEF Resume

LEMMA TypeStep ==
  ASSUME TypeOK, PendingIsAStep, Next
  PROVE  TypeOK'
<1>1. GatewayTypes'
  BY GatewayTypeStep
<1>2. OperatorTypes'
  <2>0. OperatorTypes
    BY DEF TypeOK, OperatorTypes
  <2>1. CASE \E q \in Actor : Execution(q)
    BY <2>1, ExecutionTypeStep
  <2>2. CASE \E q \in Request : Resume(q)
    BY <2>2, ResumeTypeStep
  <2>3. CASE \E p \in sending : Attach(p) \/ SendFails(p)
    BY <2>0, <2>3 DEF Attach, SendFails, operator, OperatorTypes
  <2>4. CASE Cancel
    <3>1. heap' \in [Actor -> WorkflowState]
      BY <2>0, <2>4, StateTypes DEF Cancel, OperatorTypes
    <3> QED
      BY <2>0, <2>4, <3>1 DEF Cancel, ResumeFrame, OperatorTypes
  <2> QED
    BY <2>1, <2>2, <2>3, <2>4 DEF Next
<1> QED
  BY <1>1, <1>2 DEF GatewayTypes, OperatorTypes, TypeOK

-----------------------------------------------------------------------------
(* The lock *)

LEMMA LockStep ==
  ASSUME TypeOK, LockHeld, Next
  PROVE  LockHeld'
<1>0. /\ phase \in [Actor -> Phase]
      /\ None \notin Actor
  BY WorkflowApprovalAssumption DEF TypeOK
<1>1. ASSUME UNCHANGED <<phase, lock>> PROVE LockHeld'
  BY <1>1 DEF LockHeld
<1>2. ASSUME NEW q \in Actor, NEW ph \in Phase \ Executing, to(q, ph), UNCHANGED lock
      PROVE  LockHeld'
  BY <1>0, <1>2 DEF LockHeld, to
<1>3. ASSUME NEW q \in Actor, phase[q] \in Executing, NEW ph \in Executing, to(q, ph),
             UNCHANGED lock
      PROVE  LockHeld'
  BY <1>0, <1>3 DEF LockHeld, to
<1>4. ASSUME NEW q \in Actor, phase[q] \in Executing, to(q, "done"), lock' = None
      PROVE  LockHeld'
  BY <1>0, <1>4 DEF LockHeld, to, Executing
<1>5. ASSUME NEW q \in Actor, Enter(q) PROVE LockHeld'
  <2>1. CASE lock = None
    BY <1>0, <1>5, <2>1 DEF Enter, LockHeld, to
  <2>2. CASE lock # None
    BY <1>5, <2>2, <1>2 DEF Enter, ResumeFrame, Phase, Executing
  <2> QED
    BY <2>1, <2>2
<1>6. CASE \E q \in Actor : Execution(q)
  <2> PICK q \in Actor : Execution(q)
    BY <1>6
  <2>1. CASE RunSteps(q) \/ Push(q) \/ \E st \in {"cancelled", "completed", "failed"} : Finalize(q, st)
    BY <2>1, <1>3 DEF RunSteps, Push, Finalize, operator, Executing
  <2>2. CASE Finish(q) \/ Pause(q) \/ PreflightEnds(q)
    BY <2>2, <1>4 DEF Finish, Pause, PreflightEnds, Executing
  <2>3. CASE PreflightFails(q)
    <3>1. CASE lock = None
      BY <1>0, <2>3, <3>1 DEF PreflightFails, LockHeld, to
    <3>2. CASE lock # None
      BY <2>3, <3>2, <1>2 DEF PreflightFails, Phase, Executing
    <3> QED
      BY <3>1, <3>2
  <2> QED
    BY <2>1, <2>2, <2>3, <1>5 DEF Execution
<1>7. CASE \E q \in Request : Resume(q)
  BY <1>7, <1>2
     DEF Resume, ClaimReply, LookUp, ResolveFails, Approve, RejectLoops, RejectCancels,
         RejectPops, MatchReply, Post, operator, Phase, Executing
<1>8. CASE \E p \in sending : Attach(p) \/ SendFails(p)
  BY <1>8, <1>1 DEF Attach, SendFails, operator
<1>9. CASE Cancel
  BY <1>9, <1>1 DEF Cancel
<1> QED
  BY <1>6, <1>7, <1>8, <1>9 DEF Next

-----------------------------------------------------------------------------
(* The objects that requests and executions work on *)

LEMMA PrivateStep ==
  ASSUME TypeOK, Private, Next
  PROVE  Private'
<1>0. /\ phase \in [Actor -> Phase]
      /\ obj \in [Actor -> Actor]
      /\ None \notin Actor
  BY WorkflowApprovalAssumption DEF TypeOK
<1> DEFINE Before == {"idle", "matched", "posting", "resuming"}
<1>1. ASSUME UNCHANGED <<phase, obj, active>> PROVE Private'
  BY <1>1 DEF Private
\* A request that has not been looked up stays what it is or is looked up.
<1>2. ASSUME NEW q \in Actor, NEW ph \in Phase, ph \in Before => phase[q] \in Before,
             to(q, ph), UNCHANGED obj,
             active' \in {active, None} \/ (phase[q] \notin Before /\ active' = obj[q])
      PROVE  Private'
  <2> SUFFICES ASSUME NEW r \in Actor, phase'[r] \in Before
               PROVE  active' # r /\ \A p \in Actor : p # r => obj[p] # r
    BY <1>2 DEF Private
  <2>1. phase[r] \in Before
    BY <1>0, <1>2 DEF to
  <2>2. active # r /\ \A p \in Actor : p # r => obj[p] # r
    BY <2>1 DEF Private
  <2> QED
    BY <1>0, <1>2, <2>1, <2>2
<1>3. ASSUME NEW q \in Request, LookUp(q) PROVE Private'
  <2>1. CASE phase' = [phase EXCEPT ![q] = "done"] /\ UNCHANGED <<obj, active>>
    BY <1>0, <2>1 DEF Private
  <2>2. CASE /\ phase' = [phase EXCEPT ![q] = "resolving"]
             /\ obj' = [obj EXCEPT ![q] = IF active = None THEN q ELSE active]
             /\ UNCHANGED active
    BY <1>0, <2>2 DEF Private
  <2> QED
    BY <1>3, <2>1, <2>2 DEF LookUp, to
<1>4. CASE \E q \in Actor : Execution(q)
  <2> PICK q \in Actor : Execution(q)
    BY <1>4
  <2>1. CASE Enter(q) \/ PreflightFails(q)
    BY <2>1, <1>2 DEF Enter, PreflightFails, ResumeFrame, Phase, Executing
  <2>2. CASE RunSteps(q) \/ Push(q) \/ \E st \in {"cancelled", "completed", "failed"} : Finalize(q, st)
    BY <2>2, <1>2 DEF RunSteps, Push, Finalize, operator, Phase, Executing
  <2>3. CASE Finish(q) \/ Pause(q) \/ PreflightEnds(q)
    BY <2>3, <1>2 DEF Finish, Pause, PreflightEnds, Phase, Executing
  <2> QED
    BY <2>1, <2>2, <2>3 DEF Execution
<1>5. CASE \E q \in Request : Resume(q)
  BY <1>5, <1>2, <1>3
     DEF Resume, ClaimReply, ResolveFails, Approve, RejectLoops, RejectCancels,
         RejectPops, MatchReply, Post, operator, Phase
<1>6. CASE \E p \in sending : Attach(p) \/ SendFails(p)
  BY <1>6, <1>1 DEF Attach, SendFails, operator
<1>7. CASE Cancel
  BY <1>7, <1>1 DEF Cancel
<1> QED
  BY <1>4, <1>5, <1>6, <1>7 DEF Next

-----------------------------------------------------------------------------
(* The approval steps *)

\* Two executions do not run, and an execution's object is not overwritten by a
\* checkpoint: the parts of the invariant that the rest of the proof uses.
LEMMA Alone ==
  ASSUME TypeOK, LockHeld, Private
  PROVE  /\ \A p, q \in Actor :
              phase[p] \in Executing /\ phase[q] \in Executing => p = q
         /\ \A p \in Actor, q \in Request :
              phase[p] \in Executing /\ phase[q] = "resuming" => obj[p] # q
  BY DEF TypeOK, LockHeld, Private, Executing

LEMMA PendingStep ==
  ASSUME TypeOK, PendingIsAStep, PushesAStep, Next
  PROVE  PendingIsAStep'
<1>0. /\ heap \in [Actor -> WorkflowState]
      /\ obj \in [Actor -> Actor]
      /\ saved \in WorkflowState \cup {None}
  BY DEF TypeOK
<1>1. ASSUME UNCHANGED <<heap, saved>> PROVE PendingIsAStep'
  BY <1>1 DEF PendingIsAStep
<1>2. ASSUME NEW q \in Actor, NEW s \in WorkflowState, Sound(s), writes(q, s),
             saved' \in {saved, dump(s)}
      PROVE  PendingIsAStep'
  BY <1>0, <1>2, DumpTypes DEF PendingIsAStep, writes
<1>3. ASSUME NEW q \in Actor
      PROVE  /\ state(q) \in WorkflowState
             /\ Sound(state(q))
             /\ \A st \in {"running", "paused", "completed", "failed", "cancelled"} :
                  Sound([state(q) EXCEPT !.status = st])
  BY <1>0 DEF PendingIsAStep, state, Sound, WorkflowState
<1>4. ASSUME NEW q \in Actor, Execution(q) PROVE PendingIsAStep'
  <2>1. CASE Enter(q) \/ PreflightFails(q)
    BY <1>2, <1>3, <2>1, StateTypes DEF Enter, PreflightFails
  <2>2. CASE RunSteps(q)
    <3> DEFINE s == [state(q) EXCEPT !.pending = FALSE]
    <3>1. s \in WorkflowState /\ Sound(s)
      BY <1>3 DEF WorkflowState, Sound
    <3> QED
      BY <1>2, <2>2, <3>1 DEF RunSteps
  <2>3. CASE Finish(q) \/ Push(q) \/ PreflightEnds(q)
    BY <1>1, <2>3 DEF Finish, Push, PreflightEnds, operator
  <2>4. CASE Pause(q)
    <3> DEFINE s == [state(q) EXCEPT !.status = "paused", !.pending = TRUE]
    <3>1. s \in WorkflowState /\ Sound(s)
      BY <1>3, <2>4 DEF Pause, PushesAStep, WorkflowState, Sound
    <3> QED
      BY <1>2, <2>4, <3>1 DEF Pause
  <2>5. ASSUME NEW st \in {"cancelled", "completed", "failed"}, Finalize(q, st)
        PROVE  PendingIsAStep'
    BY <1>2, <1>3, <2>5, StateTypes DEF Finalize
  <2> QED
    BY <1>4, <2>1, <2>2, <2>3, <2>4, <2>5 DEF Execution
<1>5. ASSUME NEW q \in Request, Resume(q) PROVE PendingIsAStep'
  <2>1. CASE LookUp(q)
    BY <1>0, <2>1 DEF LookUp, PendingIsAStep
  <2>2. CASE Approve(q)
    <3>1. CASE state(q).pending
      <4> DEFINE s == [state(q) EXCEPT !.at = @ + 1, !.pending = FALSE, !.rejects = 0]
      <4>1. s \in WorkflowState
        BY <1>3, <3>1, DecisionTypes
      <4>2. Sound(s)
        BY <1>3 DEF Sound, WorkflowState
      <4> QED
        BY <1>2, <2>2, <3>1, <4>1, <4>2 DEF Approve
    <3>2. CASE ~state(q).pending
      BY <1>2, <1>3, <2>2, <3>2 DEF Approve
    <3> QED
      BY <3>1, <3>2
  <2>3. CASE RejectLoops(q)
    <3> DEFINE s == [state(q) EXCEPT !.status = "running", !.pending = FALSE, !.rejects = @ + 1]
    <3>1. s \in WorkflowState /\ Sound(s)
      BY <1>3, <2>3, DecisionTypes DEF RejectLoops, may_loop, Sound, WorkflowState
    <3> QED
      BY <1>2, <2>3, <3>1 DEF RejectLoops
  <2>4. CASE RejectCancels(q)
    BY <1>2, <1>3, <2>4, StateTypes DEF RejectCancels
  <2> QED
    BY <1>1, <1>5, <2>1, <2>2, <2>3, <2>4
       DEF Resume, ClaimReply, ResolveFails, RejectPops, MatchReply, Post, operator
<1>6. CASE \E p \in sending : Attach(p) \/ SendFails(p)
  BY <1>6, <1>1 DEF Attach, SendFails, operator
<1>7. CASE Cancel
  BY <1>0, <1>7 DEF Cancel, PendingIsAStep, Sound, WorkflowState
<1> QED
  BY <1>4, <1>5, <1>6, <1>7 DEF Next

\* What an action writes into its object leaves the approval step of an execution
\* that is about to push or to pause as it is.
LEMMA PushesStep ==
  ASSUME TypeOK, PushesAStep, LockHeld, Private, Next
  PROVE  PushesAStep'
<1>0. /\ heap \in [Actor -> WorkflowState]
      /\ obj \in [Actor -> Actor]
      /\ phase \in [Actor -> Phase]
  BY DEF TypeOK
<1>1. ASSUME UNCHANGED <<phase, heap, obj>> PROVE PushesAStep'
  BY <1>1 DEF PushesAStep, state
<1> DEFINE Steps == {"pushing", "pushed"}
           Keeps(s, t) == ~s.pending /\ s.at < N => ~t.pending /\ t.at < N
<1>2. ASSUME NEW q \in Actor, NEW ph \in Phase, ph \in Steps => phase[q] \in Steps,
             to(q, ph), UNCHANGED obj,
             \/ UNCHANGED heap
             \/ \E s \in WorkflowState : writes(q, s) /\ Keeps(state(q), s)
      PROVE  PushesAStep'
  BY <1>0, <1>2 DEF PushesAStep, to, writes, state
<1>3. ASSUME NEW q \in Actor, NEW s \in WorkflowState, writes(q, s), NEW ph \in Phase,
             to(q, ph), phase[q] \in Executing, UNCHANGED obj,
             ph \in Steps => ~s.pending /\ s.at < N
      PROVE  PushesAStep'
  <2>1. \A p \in Actor : phase'[p] \in Steps => p = q
    BY <1>0, <1>3, Alone DEF to, Executing
  <2>2. ph \in Steps => ~state(q)'.pending /\ state(q)'.at < N
    BY <1>0, <1>3 DEF writes, state
  <2> QED
    BY <1>0, <1>3, <2>1, <2>2 DEF PushesAStep, to
<1>4. ASSUME NEW q \in Actor, Execution(q) PROVE PushesAStep'
  <2>0. state(q) \in WorkflowState
    BY <1>0 DEF state
  <2>1. CASE Enter(q) \/ PreflightFails(q)
    <3>1. \A st \in {"running", "cancelled", "failed"} :
            Keeps(state(q), [state(q) EXCEPT !.status = st])
      BY <2>0 DEF WorkflowState
    <3> QED
      BY <1>2, <2>0, <2>1, <3>1, StateTypes DEF Enter, PreflightFails, Phase, Executing
  <2>2. CASE RunSteps(q)
    <3> DEFINE s == [state(q) EXCEPT !.pending = FALSE]
    <3>1. s \in WorkflowState /\ ~s.pending /\ s.at = state(q).at
      BY <2>0 DEF WorkflowState
    <3> QED
      BY <1>3, <2>2, <3>1 DEF RunSteps, Phase, Executing
  <2>3. CASE Finish(q) \/ Push(q) \/ PreflightEnds(q)
    BY <1>2, <2>3 DEF Finish, Push, PreflightEnds, operator, Phase, Executing
  <2>4. CASE Pause(q)
    <3> DEFINE s == [state(q) EXCEPT !.status = "paused", !.pending = TRUE]
    <3>1. s \in WorkflowState
      BY <2>0, StateTypes
    <3> QED
      BY <1>3, <2>4, <3>1 DEF Pause, Phase, Executing
  <2>5. ASSUME NEW st \in {"cancelled", "completed", "failed"}, Finalize(q, st)
        PROVE  PushesAStep'
    BY <1>3, <2>0, <2>5, StateTypes DEF Finalize, Phase, Executing
  <2> QED
    BY <1>4, <2>1, <2>2, <2>3, <2>4, <2>5 DEF Execution
<1>5. ASSUME NEW q \in Request, Resume(q) PROVE PushesAStep'
  <2>0. state(q) \in WorkflowState
    BY <1>0 DEF state
  <2>1. CASE LookUp(q)
    <3> SUFFICES ASSUME NEW p \in Actor, phase'[p] \in Steps
                 PROVE  ~state(p)'.pending /\ state(p)'.at < N
      BY DEF PushesAStep
    <3>1. p # q /\ phase[p] \in Steps /\ obj'[p] = obj[p]
      BY <1>0, <2>1 DEF LookUp, to
    <3>2. obj[p] # q
      BY <2>1, <3>1, Alone DEF LookUp, Executing
    <3>3. heap'[obj[p]] = heap[obj[p]]
      BY <1>0, <2>1, <3>2 DEF LookUp
    <3> QED
      BY <3>1, <3>3 DEF PushesAStep, state
  <2>2. CASE Approve(q)
    <3>1. ~state(q).pending => Keeps(state(q), state(q))
      OBVIOUS
    <3>2. CASE state(q).pending
      BY <1>0, <2>2, <3>2 DEF Approve, PushesAStep, writes, to, state
    <3>3. CASE ~state(q).pending
      BY <1>2, <2>0, <2>2, <3>1, <3>3 DEF Approve, Phase
    <3> QED
      BY <3>2, <3>3
  <2>3. CASE RejectLoops(q)
    BY <1>0, <2>3 DEF RejectLoops, may_loop, PushesAStep, writes, to, state
  <2>4. CASE RejectCancels(q)
    <3>1. Keeps(state(q), [state(q) EXCEPT !.status = "cancelled"])
      BY <2>0 DEF WorkflowState
    <3> QED
      BY <1>2, <2>0, <2>4, <3>1, StateTypes DEF RejectCancels, Phase
  <2> QED
    BY <1>2, <1>5, <2>1, <2>2, <2>3, <2>4
       DEF Resume, ClaimReply, ResolveFails, RejectPops, MatchReply, Post, operator, Phase
<1>6. CASE \E p \in sending : Attach(p) \/ SendFails(p)
  BY <1>6, <1>1 DEF Attach, SendFails, operator
<1>7. CASE Cancel
  BY <1>0, <1>7 DEF Cancel, PushesAStep, state, WorkflowState
<1> QED
  BY <1>4, <1>5, <1>6, <1>7 DEF Next

-----------------------------------------------------------------------------
(* The claims *)

LEMMA ClaimsStep ==
  ASSUME TypeOK, ClaimsRegistered, ClaimedOnce, Next
  PROVE  ClaimsRegistered' /\ ClaimedOnce'
<1>0. /\ entry \in Entry \cup {None}
      /\ registered \in Nat
      /\ claims \subseteq Request \X Nat
  BY DEF TypeOK
<1> DEFINE Goal == ClaimsRegistered' /\ ClaimedOnce'
<1>1. ASSUME UNCHANGED gateway PROVE Goal
  BY <1>1 DEF gateway, ClaimsRegistered, ClaimedOnce
<1>2. ASSUME NEW q \in Request, try_claim(q), UNCHANGED registered PROVE Goal
  <2>1. CASE entry = None
    BY <1>2, <2>1 DEF try_claim, ClaimsRegistered, ClaimedOnce
  <2>2. CASE entry # None
    <3> DEFINE c == <<q, entry.prompt>>
    <3>1. entry' = None /\ claims' = claims \cup {c}
      BY <1>2, <2>2 DEF try_claim
    <3>2. c[2] <= registered /\ \A d \in claims : d[2] # c[2]
      BY <2>2 DEF ClaimsRegistered
    <3> HIDE DEF c
    <3>3. ClaimsRegistered'
      BY <1>2, <3>1, <3>2 DEF ClaimsRegistered
    <3>4. ClaimedOnce'
      BY <3>1, <3>2 DEF ClaimedOnce
    <3> QED
      BY <3>3, <3>4
  <2> QED
    BY <2>1, <2>2
<1>3. ASSUME NEW q \in Actor, Push(q) PROVE Goal
  <2>1. CASE /\ registered' = registered + 1
             /\ entry' = [prompt |-> registered', scope |-> 0]
             /\ UNCHANGED claims
    <3>1. \A c \in claims : c[2] \in Nat /\ c[2] <= registered
      BY <1>0 DEF ClaimsRegistered
    <3> QED
      BY <1>0, <2>1, <3>1 DEF ClaimsRegistered, ClaimedOnce
  <2>2. CASE UNCHANGED <<registered, entry, claims>>
    BY <2>2 DEF ClaimsRegistered, ClaimedOnce
  <2> QED
    BY <1>3, <2>1, <2>2 DEF Push
<1>4. ASSUME NEW p \in sending, Attach(p) PROVE Goal
  BY <1>0, <1>4 DEF Attach, ClaimsRegistered, ClaimedOnce, Entry
<1>5. ASSUME NEW p \in sending, SendFails(p) PROVE Goal
  BY <1>5 DEF SendFails, ClaimsRegistered, ClaimedOnce
<1>6. CASE \E q \in Actor : Execution(q)
  BY <1>6, <1>1, <1>3
     DEF Execution, PreflightFails, PreflightEnds, Enter, RunSteps, Finish, Pause,
         Finalize, ResumeFrame
<1>7. CASE \E q \in Request : Resume(q)
  BY <1>7, <1>1, <1>2
     DEF Resume, ClaimReply, LookUp, ResolveFails, Approve, RejectLoops, RejectCancels,
         RejectPops, MatchReply, Post, ResumeFrame
<1>8. CASE Cancel
  BY <1>8, <1>1 DEF Cancel, ResumeFrame
<1> QED
  BY <1>4, <1>5, <1>6, <1>7, <1>8 DEF Next

-----------------------------------------------------------------------------
(* The approvals used *)

LEMMA UsedFinite ==
  /\ IsFiniteSet(Used) /\ Cardinality(Used) \in Nat
  /\ \A S \in SUBSET Request : IsFiniteSet(S) /\ Cardinality(S) \in Nat
  /\ \A S, T \in SUBSET Request : S \subseteq T => Cardinality(S) <= Cardinality(T)
<1>1. IsFiniteSet(Request)
  BY WorkflowApprovalAssumption
<1>2. \A S \in SUBSET Request : IsFiniteSet(S) /\ Cardinality(S) \in Nat
  BY <1>1, FS_Subset, FS_CardinalityType
<1>3. Used \in SUBSET Request
  BY DEF Used
<1>4. ASSUME NEW S \in SUBSET Request, NEW T \in SUBSET Request, S \subseteq T
      PROVE  Cardinality(S) <= Cardinality(T)
  BY <1>2, <1>4, FS_Subset
<1> QED
  BY <1>2, <1>3, <1>4

\* A decision that is used stays so: only a request that is not yet past its post
\* changes it, and the phases after the resolving one are not left.
LEMMA UsedGrows ==
  ASSUME TypeOK, Next
  PROVE  Used \subseteq Used' /\ Used' \in SUBSET Request
<1>0. /\ phase \in [Actor -> Phase]
      /\ decision \in [Request -> {"none", "approve", "reject"}]
  BY DEF TypeOK
<1> SUFFICES Used \subseteq Used'
  BY DEF Used
<1> DEFINE After == Executing \cup {"scheduled", "done"}
<1>1. ASSUME NEW q \in Actor, NEW ph \in After, to(q, ph), UNCHANGED decision
      PROVE  Used \subseteq Used'
  BY <1>0, <1>1 DEF Used, to
<1>2. ASSUME NEW q \in Request, phase[q] \notin After, NEW ph \in Phase, to(q, ph),
             NEW d \in {"none", "approve", "reject"},
             decision' \in {decision, [decision EXCEPT ![q] = d]}
      PROVE  Used \subseteq Used'
  BY <1>0, <1>2 DEF Used, to
<1>3. ASSUME UNCHANGED <<phase, decision>> PROVE Used \subseteq Used'
  BY <1>3 DEF Used
<1>4. CASE \E q \in Actor : Execution(q)
  BY <1>4, <1>1
     DEF Execution, PreflightFails, PreflightEnds, Enter, RunSteps, Finish, Push, Pause,
         Finalize, ResumeFrame, Executing
<1>5. ASSUME NEW q \in Request, Resume(q) PROVE Used \subseteq Used'
  <2>1. CASE ClaimReply(q) \/ LookUp(q) \/ ResolveFails(q) \/ Approve(q) \/ RejectLoops(q)
               \/ RejectCancels(q) \/ RejectPops(q)
    BY <2>1, <1>2
       DEF ClaimReply, LookUp, ResolveFails, Approve, RejectLoops, RejectCancels,
           RejectPops, ResumeFrame, Phase, Executing
  <2>2. ASSUME NEW d \in {"approve", "reject"}, MatchReply(q, d) \/ Post(q, d)
        PROVE  Used \subseteq Used'
    BY <2>2, <1>2 DEF MatchReply, Post, Phase, Executing
  <2> QED
    BY <1>5, <2>1, <2>2 DEF Resume
<1>6. CASE \E p \in sending : Attach(p) \/ SendFails(p)
  BY <1>6, <1>3 DEF Attach, SendFails
<1>7. CASE Cancel
  BY <1>7, <1>3 DEF Cancel, ResumeFrame
<1> QED
  BY <1>4, <1>5, <1>6, <1>7 DEF Next

LEMMA CountStep ==
  ASSUME TypeOK, CountUsed, Next
  PROVE  CountUsed'
<1>0. /\ heap \in [Actor -> WorkflowState]
      /\ obj \in [Actor -> Actor]
      /\ saved \in WorkflowState \cup {None}
      /\ phase \in [Actor -> Phase]
      /\ decision \in [Request -> {"none", "approve", "reject"}]
  BY DEF TypeOK
<1>1. /\ Cardinality(Used) \in Nat
      /\ Cardinality(Used') \in Nat
      /\ Cardinality(Used) <= Cardinality(Used')
  <2>1. Used \in SUBSET Request
    BY DEF Used
  <2> QED
    BY <2>1, UsedGrows, UsedFinite
<1> DEFINE n == Cardinality(Used)
           m == Cardinality(Used')
<1>2. /\ \A o \in Actor : heap[o].at \in Nat /\ heap[o].at <= n
      /\ saved # None => saved.at \in Nat /\ saved.at <= n
  BY <1>0 DEF CountUsed, WorkflowState
<1> SUFFICES /\ \A o \in Actor : heap'[o].at <= m
             /\ saved' # None => saved'.at <= m
  BY DEF CountUsed
<1> HIDE DEF n, m
<1> DEFINE Goal == /\ \A o \in Actor : heap'[o].at <= m
                   /\ saved' # None => saved'.at <= m
<1>3. n \in Nat /\ m \in Nat /\ n <= m
  BY <1>1 DEF n, m
<1>4. ASSUME UNCHANGED <<heap, saved>> PROVE Goal
  BY <1>2, <1>3, <1>4
<1>5. ASSUME NEW q \in Actor, NEW s \in WorkflowState, s.at <= m, writes(q, s),
             saved' \in {saved, dump(s)}
      PROVE  Goal
  BY <1>0, <1>2, <1>3, <1>5, DumpTypes DEF writes
<1>6. ASSUME NEW q \in Actor
      PROVE  state(q) \in WorkflowState /\ state(q).at \in Nat /\ state(q).at <= m
  BY <1>0, <1>2, <1>3 DEF state
<1>7. ASSUME NEW q \in Actor, NEW s \in WorkflowState, s.at = state(q).at, writes(q, s),
             saved' \in {saved, dump(s)}
      PROVE  Goal
  BY <1>5, <1>6, <1>7
<1>8. ASSUME NEW q \in Actor
      PROVE  /\ \A st \in {"running", "paused", "completed", "failed", "cancelled"} :
                  [state(q) EXCEPT !.status = st].at = state(q).at
             /\ [state(q) EXCEPT !.pending = FALSE].at = state(q).at
             /\ [state(q) EXCEPT !.status = "paused", !.pending = TRUE].at = state(q).at
  BY <1>6 DEF WorkflowState
<1>9. ASSUME NEW q \in Actor, Execution(q) PROVE Goal
  <2>1. CASE Enter(q) \/ PreflightFails(q)
    BY <1>6, <1>7, <1>8, <2>1, StateTypes DEF Enter, PreflightFails
  <2>2. CASE RunSteps(q)
    BY <1>6, <1>7, <1>8, <2>2, StateTypes DEF RunSteps
  <2>3. CASE Finish(q) \/ Push(q) \/ PreflightEnds(q)
    BY <1>4, <2>3 DEF Finish, Push, PreflightEnds, operator
  <2>4. CASE Pause(q)
    BY <1>6, <1>7, <1>8, <2>4, StateTypes DEF Pause
  <2>5. ASSUME NEW st \in {"cancelled", "completed", "failed"}, Finalize(q, st)
        PROVE  Goal
    BY <1>6, <1>7, <1>8, <2>5, StateTypes DEF Finalize
  <2> QED
    BY <1>9, <2>1, <2>2, <2>3, <2>4, <2>5 DEF Execution
<1>10. ASSUME NEW q \in Request, Resume(q) PROVE Goal
  <2>1. CASE LookUp(q)
    BY <1>0, <1>2, <1>3, <2>1 DEF LookUp
  <2>2. CASE Approve(q)
    <3>1. CASE state(q).pending
      <4> DEFINE s == [state(q) EXCEPT !.at = @ + 1, !.pending = FALSE, !.rejects = 0]
      <4>1. s.at = state(q).at + 1
        BY <1>6 DEF WorkflowState
      <4>2. q \notin Used /\ q \in Used'
        BY <1>0, <2>2 DEF Approve, to, Used, ResumeFrame, Executing
      <4>3. n + 1 <= m
        <5>1. /\ IsFiniteSet(Used) /\ IsFiniteSet(Used')
              /\ Used \cup {q} \in SUBSET Request /\ Used' \in SUBSET Request
              /\ Used \cup {q} \subseteq Used'
          BY <4>2, UsedFinite, UsedGrows DEF Used
        <5>2. Cardinality(Used \cup {q}) = n + 1
          BY <4>2, <5>1, FS_AddElement DEF n
        <5> QED
          BY <5>1, <5>2, UsedFinite DEF m
      <4>4. state(q).at <= n
        BY <1>0, <1>2 DEF state
      <4>5. heap' = [heap EXCEPT ![obj[q]] = s] /\ UNCHANGED saved
        BY <2>2, <3>1 DEF Approve, writes
      <4> QED
        BY <1>0, <1>2, <1>3, <1>6, <4>1, <4>3, <4>4, <4>5
    <3>2. CASE ~state(q).pending
      BY <1>6, <1>7, <2>2, <3>2 DEF Approve
    <3> QED
      BY <3>1, <3>2
  <2>3. CASE RejectLoops(q)
    <3> DEFINE s == [state(q) EXCEPT !.status = "running", !.pending = FALSE, !.rejects = @ + 1]
    <3>1. s.at = state(q).at
      BY <1>6 DEF WorkflowState
    <3>2. heap' = [heap EXCEPT ![obj[q]] = s] /\ UNCHANGED saved
      BY <2>3 DEF RejectLoops, writes
    <3> QED
      BY <1>0, <1>2, <1>3, <1>6, <3>1, <3>2
  <2>4. CASE RejectCancels(q)
    BY <1>6, <1>7, <1>8, <2>4, StateTypes DEF RejectCancels
  <2> QED
    BY <1>4, <1>10, <2>1, <2>2, <2>3, <2>4
       DEF Resume, ClaimReply, ResolveFails, RejectPops, MatchReply, Post, operator
<1>11. CASE \E p \in sending : Attach(p) \/ SendFails(p)
  BY <1>11, <1>4 DEF Attach, SendFails, operator
<1>12. CASE Cancel
  <2>1. [heap[active] EXCEPT !.cancel = TRUE].at = heap[active].at
    BY <1>0, <1>12 DEF Cancel, TypeOK, WorkflowState
  <2>2. heap' = [heap EXCEPT ![active] = [heap[active] EXCEPT !.cancel = TRUE]]
        /\ UNCHANGED saved
    BY <1>12 DEF Cancel
  <2> QED
    BY <1>0, <1>2, <1>3, <2>1, <2>2
<1> QED
  BY <1>9, <1>10, <1>11, <1>12 DEF Next

-----------------------------------------------------------------------------
(* The theorems *)

LEMMA InitInv == Init => IInv
<1> SUFFICES ASSUME Init PROVE IInv
  OBVIOUS
<1>0. /\ None \notin Actor /\ Launch \notin Request
      /\ N \in Nat /\ on_reject_max \in Nat
  BY WorkflowApprovalAssumption
<1>1. TypeOK
  <2>1. Fresh \in WorkflowState
    BY <1>0 DEF Fresh, WorkflowState
  <2> QED
    BY <1>0, <2>1 DEF Init, TypeOK, Phase, Executing
<1>2. PendingIsAStep /\ PushesAStep /\ Private /\ LockHeld
  BY <1>0 DEF Init, Fresh, PendingIsAStep, Sound, PushesAStep, Private, LockHeld, Executing
<1>3. ClaimsRegistered /\ ClaimedOnce
  BY DEF Init, ClaimsRegistered, ClaimedOnce
<1>4. CountUsed
  <2>1. Cardinality(Used) \in Nat
    BY UsedFinite
  <2> QED
    BY <2>1 DEF Init, Fresh, CountUsed
<1> QED
  BY <1>1, <1>2, <1>3, <1>4 DEF IInv

LEMMA NextInv == IInv /\ [Next]_vars => IInv'
<1> SUFFICES ASSUME IInv, [Next]_vars PROVE IInv'
  OBVIOUS
<1>1. CASE Next
  BY <1>1, TypeStep, PendingStep, PushesStep, PrivateStep, LockStep, ClaimsStep, CountStep
     DEF IInv
<1>2. CASE UNCHANGED vars
  <2>1. UNCHANGED <<entry, registered, sending, claims, phase, decision, heap, obj,
                    active, saved, lock, rejected>>
    BY <1>2 DEF vars, gateway, operator
  <2>2. TypeOK' /\ ClaimedOnce' /\ ClaimsRegistered'
    BY <2>1 DEF IInv, TypeOK, ClaimedOnce, ClaimsRegistered
  <2>3. PendingIsAStep' /\ PushesAStep' /\ Private' /\ LockHeld'
    BY <2>1 DEF IInv, PendingIsAStep, PushesAStep, Private, LockHeld, state
  <2>4. CountUsed'
    BY <2>1 DEF IInv, CountUsed, Used
  <2> QED
    BY <2>2, <2>3, <2>4 DEF IInv
<1> QED
  BY <1>1, <1>2

\* The inductive invariant holds in every reachable state.
THEOREM Invariance == Spec => []IInv
  BY InitInv, NextInv, PTL DEF Spec

\* Every state of gateway, operator and requests is well typed: no run passes its last
\* approval and no approval is rejected more often than on_reject_max.
THEOREM TypeCorrect == Spec => []TypeOK
<1>1. IInv => TypeOK
  BY DEF IInv
<1> QED
  BY <1>1, Invariance, PTL

\* ApprovalRegistry::try_claim serves one request per registered approval, for any
\* number of racing replies and clicks.
THEOREM ClaimedOnceHolds == Spec => []ClaimedOnce
<1>1. IInv => ClaimedOnce
  BY DEF IInv
<1> QED
  BY <1>1, Invariance, PTL

\* The run's file lock keeps the executions of one run apart, for any number of
\* resumes, rejections and cancellations.
THEOREM OneExecutionHolds == Spec => []OneExecution
<1>1. IInv => OneExecution
  BY DEF IInv, LockHeld, OneExecution
<1> QED
  BY <1>1, Invariance, PTL

\* No state object of the run, nor a copy made from its checkpoint, is past more
\* approval steps than there were approving requests.
THEOREM StepsNeedApprovalsHolds == Spec => []StepsNeedApprovals
<1>1. IInv => StepsNeedApprovals
  <2> SUFFICES ASSUME IInv, NEW o \in Actor
               PROVE  heap[o].at <= Cardinality({q \in Request : decision[q] = "approve"})
    BY DEF StepsNeedApprovals
  <2> DEFINE A == {q \in Request : decision[q] = "approve"}
  <2>1. /\ Used \in SUBSET Request /\ A \in SUBSET Request
        /\ Used \subseteq A
    BY DEF Used
  <2>2. Cardinality(Used) <= Cardinality(A) /\ Cardinality(A) \in Nat /\ Cardinality(Used) \in Nat
    BY <2>1, UsedFinite
  <2>3. heap[o].at \in Nat /\ heap[o].at <= Cardinality(Used)
    BY DEF IInv, CountUsed, TypeOK, WorkflowState
  <2> HIDE DEF A
  <2>4. heap[o].at <= Cardinality(A)
    BY <2>2, <2>3
  <2> QED
    BY <2>4 DEF A
<1> QED
  BY <1>1, Invariance, PTL
=============================================================================
