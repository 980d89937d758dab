---------------------------- MODULE SessionQueue ----------------------------
(***************************************************************************)
(* The per-session actor queue of src/gateway/session_queue.rs: `acquire`  *)
(* queues a task for its session's semaphore, the guard it returns holds   *)
(* the session for one turn, and a sweeper evicts idle slots.              *)
(*                                                                         *)
(* A task is one WebSocket connection; it acquires only for its own        *)
(* session and one turn at a time (gateway/ws.rs).  The steps of a task    *)
(* between two awaits, locks or atomic operations are one action, so the   *)
(* tasks and the sweeper interleave as on a multi-threaded runtime.        *)
(*                                                                         *)
(* Time is abstract: a queued task may time out whenever it waits, and a   *)
(* slot may become older than idle_ttl whenever it is not stamped.  The    *)
(* slots mutex is free except during a sweep, for only the sweeper awaits  *)
(* while holding it.                                                       *)
(***************************************************************************)
EXTENDS Integers, Sequences, FiniteSets

CONSTANTS
  Session,
  Task,
  SessionOf,      \* the session each task serves
  Slot,           \* identities of Arc<SessionSlot>
  NoSlot,
  NoSession,
  max_queue_depth

ASSUME QueueAssumption ==
  /\ SessionOf \in [Task -> Session]
  /\ NoSlot \notin Slot
  /\ NoSession \notin Session
  /\ IsFiniteSet(Task)
  /\ max_queue_depth \in Nat

VARIABLES
  slots,        \* the HashMap: session -> slot
  permits,      \* slot -> free permits of its semaphore
  queue,        \* slot -> tasks waiting for the permit, in FIFO order
  pending,      \* slot -> reserved requests
  idle,         \* slot -> its last_active is more than idle_ttl ago
  pc,           \* task -> where it is in acquire, in the turn or in drop
  slot,         \* task -> the slot it has a reference to
  sweep         \* evict_idle: whether it holds the slots mutex, the entries
                \* still to look at, the expired one it looks at, to_remove

vars == <<slots, permits, queue, pending, idle, pc, slot, sweep>>

-----------------------------------------------------------------------------
(* tokio's Semaphore, as acquire and SessionGuard use it: one permit, handed *)
(* over to the waiters in the order in which they came.                      *)

Without(q, i) == [j \in 1..(Len(q) - 1) |-> IF j < i THEN q[j] ELSE q[j + 1]]

\* The first poll of acquire_owned: takes the free permit or joins the queue.
acquire_owned(t, k) ==
  IF permits[k] > 0
    THEN /\ permits' = [permits EXCEPT ![k] = @ - 1]
         /\ pc' = [pc EXCEPT ![t] = "granted"]
         /\ UNCHANGED queue
    ELSE /\ queue' = [queue EXCEPT ![k] = Append(@, t)]
         /\ pc' = [pc EXCEPT ![t] = "queued"]
         /\ UNCHANGED permits

\* Dropping a permit hands it to the head of the queue.
drop_permit(t, k) ==
  IF queue[k] = <<>>
    THEN /\ permits' = [permits EXCEPT ![k] = @ + 1]
         /\ pc' = [pc EXCEPT ![t] = "none"]
         /\ UNCHANGED queue
    ELSE /\ pc' = [pc EXCEPT ![t] = "none", ![Head(queue[k])] = "granted"]
         /\ queue' = [queue EXCEPT ![k] = Without(@, 1)]
         /\ UNCHANGED permits

-----------------------------------------------------------------------------
(* acquire *)

\* The entry of session s, or a new slot that nothing refers to.
IsEntry(s, k) ==
  IF s \in DOMAIN slots
    THEN k = slots[s]
    ELSE k \in Slot /\ (\A u \in Task : slot[u] # k) /\ \A r \in DOMAIN slots : slots[r] # k

\* or_insert_with: a slot that is inserted starts afresh.
Insert(s, k) ==
  /\ slots' = [r \in DOMAIN slots \cup {s} |-> IF r = s THEN k ELSE slots[r]]
  /\ IF s \in DOMAIN slots
       THEN UNCHANGED <<permits, queue, idle>>
       ELSE /\ permits' = [permits EXCEPT ![k] = 1]
            /\ queue' = [queue EXCEPT ![k] = <<>>]
            /\ idle' = [idle EXCEPT ![k] = FALSE]

Depth(s, k) == IF s \in DOMAIN slots THEN pending[k] ELSE 0

\* Mutant: the slot is looked up and reserved without the slots mutex.
reserve_NoLock(t) ==
  /\ pc[t] = "none"
  /\ \E k \in Slot :
       /\ IsEntry(SessionOf[t], k)
       /\ Depth(SessionOf[t], k) < max_queue_depth
       /\ Insert(SessionOf[t], k)
       /\ pending' = [pending EXCEPT ![k] = Depth(SessionOf[t], k) + 1]
       /\ slot' = [slot EXCEPT ![t] = k]
  /\ pc' = [pc EXCEPT ![t] = "reserved"]
  /\ UNCHANGED sweep

\* Reserve under the slots mutex.
reserve(t) ==
  /\ ~sweep.locked
  /\ pc[t] = "none"
  /\ \E k \in Slot :
       /\ IsEntry(SessionOf[t], k)
       /\ Depth(SessionOf[t], k) < max_queue_depth
       /\ Insert(SessionOf[t], k)
       /\ pending' = [pending EXCEPT ![k] = Depth(SessionOf[t], k) + 1]
       /\ slot' = [slot EXCEPT ![t] = k]
  /\ pc' = [pc EXCEPT ![t] = "reserved"]
  /\ UNCHANGED sweep

\* QueueFull: pending is bumped and taken back under the slots mutex.
queue_full(t) ==
  /\ ~sweep.locked
  /\ pc[t] = "none"
  /\ \E k \in Slot :
       /\ IsEntry(SessionOf[t], k)
       /\ Depth(SessionOf[t], k) >= max_queue_depth
       /\ Insert(SessionOf[t], k)
       /\ pending' = [pending EXCEPT ![k] = Depth(SessionOf[t], k)]
  /\ UNCHANGED <<pc, slot, sweep>>

enqueue(t) ==
  /\ pc[t] = "reserved"
  /\ acquire_owned(t, slot[t])
  /\ UNCHANGED <<slots, pending, idle, slot, sweep>>

\* lock_timeout has passed: the wait is dropped, and leaves the queue.
timeout(t) ==
  /\ pc[t] = "queued"
  /\ \E i \in DOMAIN queue[slot[t]] :
       /\ queue[slot[t]][i] = t
       /\ queue' = [queue EXCEPT ![slot[t]] = Without(@, i)]
  /\ pc' = [pc EXCEPT ![t] = "timed_out"]
  /\ UNCHANGED <<slots, permits, pending, idle, slot, sweep>>

\* Mutant: a timed out request stays counted.
fail_Leak(t) ==
  /\ pc[t] = "timed_out"
  /\ pc' = [pc EXCEPT ![t] = "none"]
  /\ slot' = [slot EXCEPT ![t] = NoSlot]
  /\ UNCHANGED <<slots, permits, queue, pending, idle, sweep>>

\* Mutant: the Timeout arm puts a permit back as if it had got one.
fail_AddsPermit(t) ==
  /\ pc[t] = "timed_out"
  /\ permits' = [permits EXCEPT ![slot[t]] = @ + 1]
  /\ pending' = [pending EXCEPT ![slot[t]] = @ - 1]
  /\ pc' = [pc EXCEPT ![t] = "none"]
  /\ slot' = [slot EXCEPT ![t] = NoSlot]
  /\ UNCHANGED <<slots, queue, idle, sweep>>

\* The Timeout arm: pending is taken back, and acquire returns the error.
fail(t) ==
  /\ pc[t] = "timed_out"
  /\ pending' = [pending EXCEPT ![slot[t]] = @ - 1]
  /\ pc' = [pc EXCEPT ![t] = "none"]
  /\ slot' = [slot EXCEPT ![t] = NoSlot]
  /\ UNCHANGED <<slots, permits, queue, idle, sweep>>

\* The permit is there: last_active is stamped, and acquire returns the guard.
stamp(t) ==
  /\ pc[t] = "granted"
  /\ idle' = [idle EXCEPT ![slot[t]] = FALSE]
  /\ pc' = [pc EXCEPT ![t] = "holding"]
  /\ UNCHANGED <<slots, permits, queue, pending, slot, sweep>>

\* SessionGuard::drop first takes pending back ...
drop_guard(t) ==
  /\ pc[t] = "holding"
  /\ pending' = [pending EXCEPT ![slot[t]] = @ - 1]
  /\ pc' = [pc EXCEPT ![t] = "releasing"]
  /\ UNCHANGED <<slots, permits, queue, idle, slot, sweep>>

\* Mutant: the guard does not own the permit, which is forgotten.
release_Forget(t) ==
  /\ pc[t] = "releasing"
  /\ pc' = [pc EXCEPT ![t] = "none"]
  /\ slot' = [slot EXCEPT ![t] = NoSlot]
  /\ UNCHANGED <<slots, permits, queue, pending, idle, sweep>>

\* ... then the fields of the guard are dropped, the permit with them.
release(t) ==
  /\ pc[t] = "releasing"
  /\ drop_permit(t, slot[t])
  /\ slot' = [slot EXCEPT ![t] = NoSlot]
  /\ UNCHANGED <<slots, pending, idle, sweep>>

-----------------------------------------------------------------------------
(* evict_idle, called by the sweeper task of gateway/mod.rs *)

NoSweep == [locked |-> FALSE, left |-> {}, current |-> NoSession, to_remove |-> {}]

\* idle_ttl passes without a stamp.
age(k) ==
  /\ ~idle[k]
  /\ \E s \in DOMAIN slots : slots[s] = k
  /\ idle' = [idle EXCEPT ![k] = TRUE]
  /\ UNCHANGED <<slots, permits, queue, pending, pc, slot, sweep>>

sweep_lock ==
  /\ ~sweep.locked
  /\ sweep' = [NoSweep EXCEPT !.locked = TRUE, !.left = DOMAIN slots]
  /\ UNCHANGED <<slots, permits, queue, pending, idle, pc, slot>>

\* Read last_active of one entry; an expired one is looked at further.
sweep_last(s) ==
  /\ s \in sweep.left
  /\ sweep.current = NoSession
  /\ sweep' = [sweep EXCEPT !.left = @ \ {s},
                            !.current = IF idle[slots[s]] THEN s ELSE NoSession]
  /\ UNCHANGED <<slots, permits, queue, pending, idle, pc, slot>>

\* Mutant: an expired entry is removed whatever is pending.
sweep_pending_NoCheck ==
  /\ sweep.current # NoSession
  /\ sweep' = [sweep EXCEPT !.current = NoSession, !.to_remove = @ \cup {sweep.current}]
  /\ UNCHANGED <<slots, permits, queue, pending, idle, pc, slot>>

\* Then read pending of the expired entry.
sweep_pending ==
  /\ sweep.current # NoSession
  /\ sweep' = [sweep EXCEPT !.current = NoSession,
                 !.to_remove = IF pending[slots[sweep.current]] = 0
                                 THEN @ \cup {sweep.current} ELSE @]
  /\ UNCHANGED <<slots, permits, queue, pending, idle, pc, slot>>

\* Remove what was found and release the mutex.
sweep_remove ==
  /\ sweep.locked
  /\ sweep.left = {}
  /\ sweep.current = NoSession
  /\ slots' = [s \in DOMAIN slots \ sweep.to_remove |-> slots[s]]
  /\ sweep' = NoSweep
  /\ UNCHANGED <<permits, queue, pending, idle, pc, slot>>

-----------------------------------------------------------------------------
Init ==
  /\ slots = <<>>
  /\ permits = [k \in Slot |-> 1]
  /\ queue = [k \in Slot |-> <<>>]
  /\ pending = [k \in Slot |-> 0]
  /\ idle = [k \in Slot |-> FALSE]
  /\ pc = [t \in Task |-> "none"]
  /\ slot = [t \in Task |-> NoSlot]
  /\ sweep = NoSweep

\* The steps of acquire and drop that need no one else.
Proceed(t) == enqueue(t) \/ fail(t) \/ stamp(t) \/ release(t)

Sweeps ==
  \/ sweep_lock
  \/ \E s \in sweep.left : sweep_last(s)
  \/ sweep_pending
  \/ sweep_remove

Next ==
  \/ \E t \in Task : reserve(t)
  \/ \E t \in Task : queue_full(t)
  \/ \E t \in Task : Proceed(t)
  \/ \E t \in Task : timeout(t)
  \/ \E t \in Task : drop_guard(t)
  \/ \E k \in Slot : age(k)
  \/ Sweeps

\* The runtime polls ready tasks; a turn ends (ws_turn_timeout_budget_secs); the
\* sweeper runs every SESSION_QUEUE_SWEEP_INTERVAL_SECS and idle_ttl passes.
\* Nothing is assumed of timeout: it may never strike.
Fairness ==
  /\ \A t \in Task : WF_vars(Proceed(t)) /\ WF_vars(drop_guard(t))
  /\ \A k \in Slot : WF_vars(age(k))
  /\ WF_vars(Sweeps)

Spec == Init /\ [][Next]_vars /\ Fairness

-----------------------------------------------------------------------------
(* Properties *)

InFlightPC == {"reserved", "queued", "timed_out", "granted", "holding"}
InFlight(t) == pc[t] \in InFlightPC
HasPermit(t) == pc[t] \in {"granted", "holding", "releasing"}
PC == InFlightPC \cup {"none", "releasing"}

\* Types; a semaphore never has more than its one permit.
TypeOK ==
  /\ DOMAIN slots \subseteq Session
  /\ \A s \in DOMAIN slots : slots[s] \in Slot
  /\ permits \in [Slot -> {0, 1}]
  /\ DOMAIN queue = Slot /\ \A k \in Slot : queue[k] \in Seq(Task)
  /\ pending \in [Slot -> Nat]
  /\ idle \in [Slot -> BOOLEAN]
  /\ pc \in [Task -> PC]
  /\ slot \in [Task -> Slot \cup {NoSlot}]
  /\ sweep \in [locked: BOOLEAN, left: SUBSET Session, current: Session \cup {NoSession},
                to_remove: SUBSET Session]

\* "Closing the window where a concurrent eviction could drop a slot": a request
\* in flight refers to the slot its session has in the map, so that all of a
\* session share one semaphore (acquire, evict_idle).
SlotCurrent ==
  \A t \in Task : InFlight(t) =>
    SessionOf[t] \in DOMAIN slots /\ slot[t] = slots[SessionOf[t]]

\* pending counts exactly the requests in flight on the slot, through timeouts,
\* rejections and drops, and never exceeds max_queue_depth (acquire, Drop).
PendingExact ==
  \A k \in Slot :
    /\ pending[k] = Cardinality({t \in Task : InFlight(t) /\ slot[t] = k})
    /\ pending[k] <= max_queue_depth

\* No lost wakeup: while a task waits, some task has the permit and will pass it
\* on, also when timeouts and releases race (acquire, SessionGuard).
NoLostPermit ==
  \A k \in Slot : queue[k] # <<>> => \E t \in Task : HasPermit(t) /\ slot[t] = k

\* A session is never held by two tasks, whatever slot each of them refers to.
MutualExclusion ==
  \A t, u \in Task :
    pc[t] = "holding" /\ pc[u] = "holding" /\ SessionOf[t] = SessionOf[u] => t = u

Lock == INSTANCE SessionLock WITH
  holders <- [s \in Session |-> {t \in Task : pc[t] = "holding" /\ SessionOf[t] = s}]

\* The queue implements the per-session lock.
ImplementsLock == Lock!Spec

\* Whoever reserved gets the guard or an error, although timeouts may not strike.
Answered == \A t \in Task : pc[t] = "reserved" ~> pc[t] \in {"holding", "none"}

Busy(s) == \E t \in Task : SessionOf[t] = s /\ InFlight(t)

\* gateway/mod.rs, "the map grows unbounded": the slot of a session that stays
\* unused is reclaimed.
Reclaimed == \A s \in Session : ~Busy(s) ~> Busy(s) \/ s \notin DOMAIN slots
=============================================================================
