------------------------- MODULE SessionQueueProofs -------------------------
(***************************************************************************)
(* Theorems about SessionQueue for any finite set of tasks, any sessions   *)
(* and any queue depth.                                                    *)
(*                                                                         *)
(* The heart of the inductive invariant: a request in flight refers to the *)
(* slot in the map (SlotCurrent), pending counts the requests in flight    *)
(* (PendingExact), so an entry that the sweeper finds with pending = 0     *)
(* has none and, as the slots mutex is held, gets none before it is        *)
(* removed (SweepInv).  With one permit per slot (PermitInv), one task per *)
(* session is left.                                                        *)
(***************************************************************************)
EXTENDS SessionQueue, FiniteSetTheorems, TLAPS

Injective == \A r, s \in DOMAIN slots : slots[r] = slots[s] => r = s

RefInv == \A t \in Task : slot[t] = NoSlot <=> pc[t] = "none"

PermitInv ==
  \A k \in Slot :
    /\ \A t, u \in Task :
         HasPermit(t) /\ HasPermit(u) /\ slot[t] = k /\ slot[u] = k => t = u
    /\ permits[k] = 1 => queue[k] = <<>> /\ \A t \in Task : HasPermit(t) => slot[t] # k
    /\ permits[k] = 0 => \E t \in Task : HasPermit(t) /\ slot[t] = k

QueueInv ==
  \A k \in Slot :
    /\ \A i \in DOMAIN queue[k] : pc[queue[k][i]] = "queued" /\ slot[queue[k][i]] = k
    /\ \A i, j \in DOMAIN queue[k] : queue[k][i] = queue[k][j] => i = j

SweepInv ==
  /\ ~sweep.locked => sweep = NoSweep
  /\ sweep.left \subseteq DOMAIN slots
  /\ sweep.current \in DOMAIN slots \cup {NoSession}
  /\ \A s \in sweep.to_remove : s \in DOMAIN slots /\ ~Busy(s)

IInv ==
  /\ TypeOK
  /\ SlotCurrent
  /\ Injective
  /\ RefInv
  /\ PendingExact
  /\ PermitInv
  /\ QueueInv
  /\ SweepInv

-----------------------------------------------------------------------------
(* Lemmas about queues and counts *)

\* Without drops one element and keeps the others, in their order.
LEMMA WithoutFacts ==
  ASSUME NEW S, NEW q \in Seq(S), NEW i \in DOMAIN q
  PROVE  /\ Without(q, i) \in Seq(S)
         /\ Len(Without(q, i)) = Len(q) - 1
         /\ DOMAIN Without(q, i) = 1..(Len(q) - 1)
         /\ \A j \in DOMAIN Without(q, i) :
              Without(q, i)[j] = IF j < i THEN q[j] ELSE q[j + 1]
<1> DEFINE n == Len(q) - 1
           w == [j \in 1..n |-> IF j < i THEN q[j] ELSE q[j + 1]]
<1>1. i \in 1..Len(q) /\ Len(q) \in Nat /\ n \in Nat
  OBVIOUS
<1>2. \A j \in 1..n : w[j] \in S
  BY <1>1
<1>3. w \in Seq(S) /\ Len(w) = n /\ DOMAIN w = 1..n
  BY <1>1, <1>2
<1>4. Without(q, i) = w
  BY DEF Without
<1> HIDE DEF w
<1>5. \A j \in 1..n : w[j] = IF j < i THEN q[j] ELSE q[j + 1]
  BY DEF w
<1> QED
  BY <1>3, <1>4, <1>5

\* Each element left is an element of before, under an index of its own that is
\* not the one taken out.
LEMMA WithoutElements ==
  ASSUME NEW S, NEW q \in Seq(S), NEW i \in DOMAIN q,
         \A a, b \in DOMAIN q : q[a] = q[b] => a = b
  PROVE  /\ \A j \in DOMAIN Without(q, i) :
              \E m \in DOMAIN q : m # i /\ Without(q, i)[j] = q[m]
         /\ \A a, b \in DOMAIN Without(q, i) : Without(q, i)[a] = Without(q, i)[b] => a = b
<1> DEFINE w == Without(q, i)
           at(j) == IF j < i THEN j ELSE j + 1
<1>1. i \in 1..Len(q) /\ Len(q) \in Nat /\ DOMAIN w = 1..(Len(q) - 1) /\ DOMAIN q = 1..Len(q)
  BY WithoutFacts
<1>2. \A j \in DOMAIN w : at(j) \in DOMAIN q /\ at(j) # i /\ w[j] = q[at(j)]
  <2> SUFFICES ASSUME NEW j \in DOMAIN w
               PROVE  at(j) \in DOMAIN q /\ at(j) # i /\ w[j] = q[at(j)]
    OBVIOUS
  <2>1. w[j] = IF j < i THEN q[j] ELSE q[j + 1]
    BY WithoutFacts
  <2> HIDE DEF w
  <2> QED
    BY <1>1, <2>1
<1>3. \A a, b \in DOMAIN w : at(a) = at(b) => a = b
  BY <1>1
<1> HIDE DEF w, at
<1>4. \A a, b \in DOMAIN w : w[a] = w[b] => a = b
  <2> SUFFICES ASSUME NEW a \in DOMAIN w, NEW b \in DOMAIN w, w[a] = w[b] PROVE a = b
    OBVIOUS
  <2>1. q[at(a)] = q[at(b)] /\ at(a) \in DOMAIN q /\ at(b) \in DOMAIN q
    BY <1>2
  <2>2. at(a) = at(b)
    BY <2>1
  <2> QED
    BY <1>3, <2>2
<1>5. \A j \in DOMAIN w : \E m \in DOMAIN q : m # i /\ w[j] = q[m]
  BY <1>2
<1> QED
  BY <1>4, <1>5 DEF w

\* The requests counted by pending.
Counted(k) == {t \in Task : InFlight(t) /\ slot[t] = k}

\* pending stays exact when neither it nor the sets of requests change.
LEMMA CountSame ==
  ASSUME IInv, pending' = pending,
         \A t \in Task : \A k \in Slot :
           (InFlight(t) /\ slot[t] = k)' <=> (InFlight(t) /\ slot[t] = k)
  PROVE  PendingExact'
<1>1. \A k \in Slot : {t \in Task : InFlight(t)' /\ slot'[t] = k}
                        = {t \in Task : InFlight(t) /\ slot[t] = k}
  OBVIOUS
<1> QED
  BY <1>1 DEF IInv, PendingExact

\* pending stays exact when a request is given up and counted out.
LEMMA CountOut ==
  ASSUME IInv, NEW t \in Task, InFlight(t), slot[t] \in Slot,
         pending' = [pending EXCEPT ![slot[t]] = @ - 1],
         ~InFlight(t)',
         \A u \in Task \ {t} : pc'[u] = pc[u] /\ slot'[u] = slot[u]
  PROVE  PendingExact' /\ pending' \in [Slot -> Nat]
<1> DEFINE new(k) == {u \in Task : InFlight(u)' /\ slot'[u] = k}
<1>1. \A k \in Slot : new(k) = IF k = slot[t] THEN Counted(k) \ {t} ELSE Counted(k)
  BY DEF Counted, InFlight
<1>2. \A k \in Slot : IsFiniteSet(Counted(k))
  BY QueueAssumption, FS_Subset DEF Counted
<1>3. t \in Counted(slot[t])
  BY DEF Counted
<1>4. Cardinality(Counted(slot[t]) \ {t}) = Cardinality(Counted(slot[t])) - 1
  BY <1>2, <1>3, FS_RemoveElement
<1>5. /\ \A k \in Slot : pending[k] = Cardinality(Counted(k)) /\ pending[k] <= max_queue_depth
      /\ pending \in [Slot -> Nat] /\ max_queue_depth \in Nat
  BY QueueAssumption DEF IInv, PendingExact, Counted, TypeOK
<1>6. IsFiniteSet(Counted(slot[t]) \ {t})
  BY <1>2, FS_RemoveElement
<1>7. Cardinality(Counted(slot[t]) \ {t}) \in Nat
  BY <1>6, FS_CardinalityType
<1> HIDE DEF new
<1>8. \A k \in Slot : pending'[k] = Cardinality(new(k)) /\ pending'[k] <= max_queue_depth
  BY <1>1, <1>4, <1>5
<1>9. pending' \in [Slot -> Nat]
  BY <1>4, <1>5, <1>7
<1> QED
  BY <1>8, <1>9 DEF PendingExact, new

-----------------------------------------------------------------------------
(* The invariant is inductive *)

LEMMA InitIInv == Init => IInv
<1> SUFFICES ASSUME Init PROVE IInv
  OBVIOUS
<1>1. TypeOK
  BY DEF Init, TypeOK, NoSweep, PC
<1>2. \A t \in Task : ~InFlight(t) /\ ~HasPermit(t)
  BY DEF Init, InFlight, InFlightPC, HasPermit
<1>3. PendingExact
  <2>1. \A k \in Slot : Counted(k) = {}
    BY <1>2 DEF Counted
  <2>2. \A k \in Slot : Cardinality(Counted(k)) = 0
    BY <2>1, FS_EmptySet
  <2>3. \A k \in Slot : pending[k] = 0
    BY DEF Init
  <2> QED
    BY <2>2, <2>3, QueueAssumption DEF PendingExact, Counted
<1>4. SlotCurrent /\ RefInv
  BY <1>2 DEF SlotCurrent, RefInv, Init
<1>5. DOMAIN slots = {}
  BY DEF Init
<1>6. Injective
  BY <1>5 DEF Injective
<1>7. PermitInv
  BY <1>2 DEF PermitInv, Init
<1>8. QueueInv
  BY DEF QueueInv, Init
<1>9. SweepInv
  BY DEF SweepInv, Init, NoSweep
<1> QED
  BY <1>1, <1>3, <1>4, <1>6, <1>7, <1>8, <1>9 DEF IInv

\* Inserting an entry adds a slot that no one refers to, or changes nothing.
LEMMA Inserted ==
  ASSUME IInv, NEW s \in Session, NEW k \in Slot, IsEntry(s, k), Insert(s, k)
  PROVE  /\ DOMAIN slots' = DOMAIN slots \cup {s} /\ slots'[s] = k
         /\ \A r \in DOMAIN slots : slots'[r] = slots[r]
         /\ DOMAIN slots' \subseteq Session /\ \A r \in DOMAIN slots' : slots'[r] \in Slot
         /\ permits' \in [Slot -> {0, 1}]
         /\ DOMAIN queue' = Slot /\ \A l \in Slot : queue'[l] \in Seq(Task)
         /\ idle' \in [Slot -> BOOLEAN]
         /\ \A l \in Slot :
              \/ permits'[l] = permits[l] /\ queue'[l] = queue[l]
              \/ permits'[l] = 1 /\ queue'[l] = <<>> /\ \A u \in Task : slot[u] # l
<1>1. TypeOK
  BY DEF IInv
<1>2. /\ DOMAIN slots' = DOMAIN slots \cup {s} /\ slots'[s] = k
      /\ \A r \in DOMAIN slots : slots'[r] = slots[r]
  BY DEF Insert, IsEntry
<1>3. DOMAIN slots' \subseteq Session /\ \A r \in DOMAIN slots' : slots'[r] \in Slot
  BY <1>1, <1>2 DEF TypeOK
<1>4. CASE s \in DOMAIN slots
  <2>1. permits' = permits /\ queue' = queue /\ idle' = idle
    BY <1>4 DEF Insert
  <2> QED
    BY <1>1, <1>2, <1>3, <2>1 DEF TypeOK
<1>5. CASE s \notin DOMAIN slots
  <2>1. /\ permits' = [permits EXCEPT ![k] = 1] /\ queue' = [queue EXCEPT ![k] = <<>>]
        /\ idle' = [idle EXCEPT ![k] = FALSE] /\ \A u \in Task : slot[u] # k
    BY <1>5 DEF Insert, IsEntry
  <2>2. permits' \in [Slot -> {0, 1}] /\ idle' \in [Slot -> BOOLEAN] /\ DOMAIN queue' = Slot
    BY <1>1, <2>1 DEF TypeOK
  <2>3. \A l \in Slot : queue'[l] = IF l = k THEN <<>> ELSE queue[l]
    BY <1>1, <2>1 DEF TypeOK
  <2>4. \A l \in Slot : permits'[l] = IF l = k THEN 1 ELSE permits[l]
    BY <1>1, <2>1 DEF TypeOK
  <2>5. <<>> \in Seq(Task)
    OBVIOUS
  <2>6. \A l \in Slot : queue'[l] \in Seq(Task)
    BY <1>1, <2>3, <2>5 DEF TypeOK
  <2> QED
    BY <1>2, <1>3, <2>1, <2>2, <2>3, <2>4, <2>6
<1> QED
  BY <1>4, <1>5

LEMMA ReserveIInv == ASSUME IInv, NEW t \in Task, reserve(t) PROVE IInv'
<1> DEFINE s == SessionOf[t]
<1>1. PICK k \in Slot :
        /\ IsEntry(s, k)
        /\ Depth(s, k) < max_queue_depth
        /\ Insert(s, k)
        /\ pending' = [pending EXCEPT ![k] = Depth(s, k) + 1]
        /\ slot' = [slot EXCEPT ![t] = k]
  BY DEF reserve
<1>2. /\ ~sweep.locked /\ pc[t] = "none" /\ pc' = [pc EXCEPT ![t] = "reserved"]
      /\ sweep' = sweep
  BY DEF reserve
<1>3. TypeOK /\ s \in Session /\ sweep = NoSweep /\ slot[t] = NoSlot
      /\ pc' \in [Task -> PC] /\ k # NoSlot
  BY <1>2, QueueAssumption DEF IInv, RefInv, SweepInv, TypeOK, PC, InFlightPC
<1>4. /\ DOMAIN slots' = DOMAIN slots \cup {s} /\ slots'[s] = k
      /\ \A r \in DOMAIN slots : slots'[r] = slots[r]
  BY <1>1, <1>3, Inserted
<1>5. /\ \A u \in Task \ {t} : pc'[u] = pc[u] /\ slot'[u] = slot[u]
      /\ pc'[t] = "reserved" /\ slot'[t] = k
  BY <1>1, <1>2, <1>3 DEF TypeOK
<1>6. Counted(k) = {} \/ s \in DOMAIN slots
  BY <1>1 DEF IsEntry, Counted
<1>7. Depth(s, k) = Cardinality(Counted(k)) /\ Depth(s, k) \in Nat
  <2>1. CASE s \in DOMAIN slots
    BY <2>1, <1>3 DEF IInv, PendingExact, Depth, Counted, TypeOK
  <2>2. CASE s \notin DOMAIN slots
    BY <1>6, <2>2, FS_EmptySet DEF Depth
  <2> QED
    BY <2>1, <2>2
<1>8. TypeOK'
  <2>1. pending' \in [Slot -> Nat]
    BY <1>1, <1>3, <1>7 DEF TypeOK
  <2>2. slot' \in [Task -> Slot \cup {NoSlot}]
    BY <1>1, <1>3 DEF TypeOK
  <2>3. /\ permits' \in [Slot -> {0, 1}]
        /\ DOMAIN queue' = Slot /\ \A l \in Slot : queue'[l] \in Seq(Task)
        /\ idle' \in [Slot -> BOOLEAN]
        /\ DOMAIN slots' \subseteq Session /\ \A r \in DOMAIN slots' : slots'[r] \in Slot
    BY <1>1, <1>3, Inserted
  <2> QED
    BY <1>2, <1>3, <2>1, <2>2, <2>3 DEF TypeOK
<1>9. SlotCurrent'
  BY <1>1, <1>4, <1>5 DEF IInv, SlotCurrent, InFlight, IsEntry
<1>10. Injective'
  BY <1>1, <1>4 DEF IInv, Injective, IsEntry
<1>11. RefInv'
  BY <1>3, <1>5 DEF IInv, RefInv
<1>12. PendingExact'
  <2> DEFINE new(l) == {u \in Task : InFlight(u)' /\ slot'[u] = l}
  <2>1. \A l \in Slot : new(l) = IF l = k THEN Counted(k) \cup {t} ELSE Counted(l)
    BY <1>2, <1>3, <1>5 DEF Counted, InFlight, InFlightPC
  <2>2. IsFiniteSet(Counted(k))
    BY QueueAssumption, FS_Subset DEF Counted
  <2>3. t \notin Counted(k)
    BY <1>2 DEF Counted, InFlight, InFlightPC
  <2>4. Cardinality(Counted(k) \cup {t}) = Cardinality(Counted(k)) + 1
    BY <2>2, <2>3, FS_AddElement
  <2>5. \A l \in Slot : pending[l] = Cardinality(Counted(l)) /\ pending[l] <= max_queue_depth
    BY DEF IInv, PendingExact, Counted
  <2>6. pending \in [Slot -> Nat]
    BY <1>3 DEF TypeOK
  <2> HIDE DEF new
  <2>7. \A l \in Slot : pending'[l] = IF l = k THEN Depth(s, k) + 1 ELSE pending[l]
    BY <1>1, <2>6
  <2>8. \A l \in Slot : pending'[l] <= max_queue_depth
    BY <1>1, <1>7, <2>5, <2>7, QueueAssumption
  <2>9. \A l \in Slot : pending'[l] = Cardinality(new(l))
    BY <1>7, <2>1, <2>4, <2>5, <2>7
  <2> QED
    BY <2>8, <2>9 DEF PendingExact, new
<1>13. /\ \A u \in Task : HasPermit(u)' <=> HasPermit(u)
       /\ \A u \in Task : HasPermit(u) => slot'[u] = slot[u]
  BY <1>2, <1>5 DEF HasPermit
<1>14. \A l \in Slot :
         \/ permits'[l] = permits[l] /\ queue'[l] = queue[l]
         \/ permits'[l] = 1 /\ queue'[l] = <<>> /\ \A u \in Task : slot[u] # l
  BY <1>1, <1>3, Inserted
<1>15. PermitInv' /\ QueueInv'
  <2>1. PermitInv'
    BY <1>13, <1>14 DEF IInv, PermitInv
  <2>2. \A l \in Slot : \A i \in DOMAIN queue[l] : queue[l][i] \in Task \ {t}
    BY <1>2, <1>3 DEF IInv, QueueInv, TypeOK
  <2>3. QueueInv'
    BY <1>5, <1>14, <2>2 DEF IInv, QueueInv
  <2> QED
    BY <2>1, <2>3
<1>16. SweepInv'
  BY <1>2, <1>3 DEF SweepInv, NoSweep
<1> QED
  BY <1>8, <1>9, <1>10, <1>11, <1>12, <1>15, <1>16 DEF IInv

LEMMA QueueFullIInv == ASSUME IInv, NEW t \in Task, queue_full(t) PROVE IInv'
<1> DEFINE s == SessionOf[t]
<1>1. PICK k \in Slot : IsEntry(s, k) /\ Insert(s, k)
                        /\ pending' = [pending EXCEPT ![k] = Depth(s, k)]
  BY DEF queue_full
<1>2. ~sweep.locked /\ UNCHANGED <<pc, slot, sweep>>
  BY DEF queue_full
<1>3. TypeOK /\ s \in Session /\ sweep = NoSweep
  BY <1>2, QueueAssumption DEF IInv, SweepInv, TypeOK
<1>4. /\ DOMAIN slots' = DOMAIN slots \cup {s} /\ slots'[s] = k
      /\ \A r \in DOMAIN slots : slots'[r] = slots[r]
  BY <1>1, <1>3, Inserted
<1>5. pending' = pending
  <2>1. CASE s \in DOMAIN slots
    BY <1>1, <1>3, <2>1 DEF Depth, TypeOK
  <2>2. CASE s \notin DOMAIN slots
    <3>1. Counted(k) = {}
      BY <1>1, <2>2 DEF IsEntry, Counted
    <3>2. pending[k] = Cardinality(Counted(k))
      BY DEF IInv, PendingExact, Counted
    <3>3. pending[k] = 0
      BY <3>1, <3>2, FS_EmptySet
    <3> QED
      BY <1>1, <1>3, <2>2, <3>3 DEF Depth, TypeOK
  <2> QED
    BY <2>1, <2>2
<1>6. TypeOK'
  <2>1. /\ permits' \in [Slot -> {0, 1}]
        /\ DOMAIN queue' = Slot /\ \A l \in Slot : queue'[l] \in Seq(Task)
        /\ idle' \in [Slot -> BOOLEAN]
        /\ DOMAIN slots' \subseteq Session /\ \A r \in DOMAIN slots' : slots'[r] \in Slot
    BY <1>1, <1>3, Inserted
  <2> QED
    BY <1>2, <1>3, <1>5, <2>1 DEF TypeOK
<1>7. SlotCurrent'
  BY <1>2, <1>4 DEF IInv, SlotCurrent, InFlight
<1>8. Injective'
  BY <1>1, <1>4 DEF IInv, Injective, IsEntry
<1>9. RefInv' /\ SweepInv'
  BY <1>2, <1>3 DEF IInv, RefInv, SweepInv, NoSweep
<1>10. PendingExact'
  BY <1>2, <1>5, CountSame DEF InFlight
<1>11. \A l \in Slot :
         \/ permits'[l] = permits[l] /\ queue'[l] = queue[l]
         \/ permits'[l] = 1 /\ queue'[l] = <<>> /\ \A u \in Task : slot[u] # l
  BY <1>1, <1>3, Inserted
<1>12. PermitInv' /\ QueueInv'
  BY <1>2, <1>11 DEF IInv, PermitInv, HasPermit, QueueInv
<1> QED
  BY <1>6, <1>7, <1>8, <1>9, <1>10, <1>12 DEF IInv

\* What a step of one task leaves as it is, when it touches neither the map nor
\* the sweeper, nor brings a request into flight.
LEMMA TaskStep ==
  ASSUME IInv, UNCHANGED <<slots, sweep>>,
         \A u \in Task : InFlight(u)' => InFlight(u) /\ slot'[u] = slot[u]
  PROVE  SlotCurrent' /\ Injective' /\ SweepInv'
<1>1. SlotCurrent' /\ Injective'
  BY DEF IInv, SlotCurrent, Injective
<1>2. SweepInv'
  BY DEF IInv, SweepInv, Busy
<1> QED
  BY <1>1, <1>2

LEMMA EnqueueIInv == ASSUME IInv, NEW t \in Task, enqueue(t) PROVE IInv'
<1> DEFINE k == slot[t]
<1>1. pc[t] = "reserved" /\ acquire_owned(t, k)
      /\ UNCHANGED <<slots, pending, idle, slot, sweep>>
  BY DEF enqueue
<1>2. TypeOK /\ k \in Slot
  BY <1>1 DEF IInv, RefInv, TypeOK
<1>3. permits[k] \in {0, 1}
  BY <1>2 DEF TypeOK
<1>4. \A u \in Task : (InFlight(u)' <=> InFlight(u)) /\ slot'[u] = slot[u]
  BY <1>1, <1>2 DEF acquire_owned, InFlight, InFlightPC, TypeOK
<1>5. SlotCurrent' /\ Injective' /\ SweepInv'
  BY <1>1, <1>4, TaskStep
<1>6. PendingExact'
  BY <1>1, <1>4, CountSame
<1>7. CASE permits[k] > 0
  <2>1. /\ permits[k] = 1 /\ permits' = [permits EXCEPT ![k] = 0] /\ queue' = queue
        /\ pc' = [pc EXCEPT ![t] = "granted"]
    BY <1>1, <1>3, <1>7 DEF acquire_owned
  <2>2. TypeOK'
    BY <1>1, <1>2, <2>1 DEF TypeOK, PC, InFlightPC
  <2>3. RefInv'
    BY <1>1, <1>2, <2>1 DEF IInv, RefInv, TypeOK
  <2>4. PermitInv'
    <3>1. \A u \in Task : HasPermit(u)' <=> HasPermit(u) \/ u = t
      BY <1>1, <1>2, <2>1 DEF HasPermit, TypeOK
    <3>2. queue[k] = <<>> /\ \A u \in Task : HasPermit(u) => slot[u] # k
      BY <1>2, <2>1 DEF IInv, PermitInv
    <3> QED
      BY <1>1, <1>2, <2>1, <3>1, <3>2 DEF IInv, PermitInv, TypeOK
  <2>5. QueueInv'
    BY <1>1, <1>2, <2>1 DEF IInv, QueueInv, TypeOK
  <2> QED
    BY <1>5, <1>6, <2>2, <2>3, <2>4, <2>5 DEF IInv
<1>8. CASE ~(permits[k] > 0)
  <2>1. /\ permits[k] = 0 /\ permits' = permits
        /\ queue' = [queue EXCEPT ![k] = Append(queue[k], t)]
        /\ pc' = [pc EXCEPT ![t] = "queued"]
    BY <1>1, <1>3, <1>8 DEF acquire_owned
  <2>2. queue[k] \in Seq(Task) /\ Append(queue[k], t) \in Seq(Task)
    BY <1>2 DEF TypeOK
  <2>3. \A l \in Slot : queue'[l] = IF l = k THEN Append(queue[k], t) ELSE queue[l]
    BY <1>2, <2>1 DEF TypeOK
  <2>4. TypeOK'
    <3>1. DOMAIN queue' = Slot /\ \A l \in Slot : queue'[l] \in Seq(Task)
      BY <1>2, <2>1, <2>2, <2>3 DEF TypeOK
    <3>2. pc' \in [Task -> PC]
      BY <1>2, <2>1 DEF TypeOK, PC, InFlightPC
    <3> QED
      BY <1>1, <1>2, <2>1, <3>1, <3>2 DEF TypeOK
  <2>5. RefInv'
    BY <1>1, <1>2, <2>1 DEF IInv, RefInv, TypeOK
  <2>6. PermitInv'
    <3>1. \A u \in Task : HasPermit(u)' <=> HasPermit(u)
      BY <1>1, <1>2, <2>1 DEF HasPermit, TypeOK
    <3> QED
      BY <1>1, <1>2, <2>1, <2>3, <3>1 DEF IInv, PermitInv
  <2>7. QueueInv'
    <3>1. \A u \in Task \ {t} : pc'[u] = pc[u]
      BY <1>2, <2>1 DEF TypeOK
    <3>2. \A l \in Slot : \A i \in DOMAIN queue[l] : queue[l][i] \in Task \ {t}
      BY <1>1, <1>2 DEF IInv, QueueInv, TypeOK
    <3>3. pc'[t] = "queued"
      BY <1>2, <2>1 DEF TypeOK
    <3>4. \A l \in Slot : l # k =>
            /\ \A i \in DOMAIN queue'[l] : pc'[queue'[l][i]] = "queued" /\ slot'[queue'[l][i]] = l
            /\ \A i, j \in DOMAIN queue'[l] : queue'[l][i] = queue'[l][j] => i = j
      BY <1>1, <2>3, <3>1, <3>2 DEF IInv, QueueInv
    <3>5. /\ \A i \in DOMAIN queue[k] :
               Append(queue[k], t)[i] = queue[k][i] /\ pc'[queue[k][i]] = "queued"
               /\ slot[queue[k][i]] = k /\ queue[k][i] # t
          /\ \A i, j \in DOMAIN queue[k] : queue[k][i] = queue[k][j] => i = j
      BY <1>2, <2>2, <3>1, <3>2 DEF IInv, QueueInv
    <3>6. /\ DOMAIN Append(queue[k], t) = DOMAIN queue[k] \cup {Len(queue[k]) + 1}
          /\ Append(queue[k], t)[Len(queue[k]) + 1] = t
      BY <2>2
    <3>7. /\ \A i \in DOMAIN queue'[k] : pc'[queue'[k][i]] = "queued" /\ slot'[queue'[k][i]] = k
          /\ \A i, j \in DOMAIN queue'[k] : queue'[k][i] = queue'[k][j] => i = j
      <4> DEFINE q == Append(queue[k], t)
      <4>1. /\ \A i \in DOMAIN q : i \in DOMAIN queue[k] \/ i = Len(queue[k]) + 1
            /\ \A i \in DOMAIN queue[k] : q[i] = queue[k][i]
            /\ q[Len(queue[k]) + 1] = t
        BY <3>5, <3>6
      <4> HIDE DEF q
      <4>2. \A i \in DOMAIN q : pc'[q[i]] = "queued" /\ slot[q[i]] = k
        BY <3>3, <3>5, <4>1
      <4>3. \A i, j \in DOMAIN q : q[i] = q[j] => i = j
        BY <3>5, <4>1
      <4>4. queue'[k] = q
        BY <1>2, <2>3 DEF q
      <4> QED
        BY <1>1, <4>2, <4>3, <4>4
    <3> QED
      BY <3>4, <3>7 DEF QueueInv
  <2> QED
    BY <1>5, <1>6, <2>4, <2>5, <2>6, <2>7 DEF IInv
<1> QED
  BY <1>7, <1>8

LEMMA TimeoutIInv == ASSUME IInv, NEW t \in Task, timeout(t) PROVE IInv'
<1> DEFINE k == slot[t]
<1>1. /\ pc[t] = "queued" /\ pc' = [pc EXCEPT ![t] = "timed_out"]
      /\ UNCHANGED <<slots, permits, pending, idle, slot, sweep>>
  BY DEF timeout
<1>2. PICK n \in DOMAIN queue[k] :
        queue[k][n] = t /\ queue' = [queue EXCEPT ![k] = Without(queue[k], n)]
  BY DEF timeout
<1>3. TypeOK /\ k \in Slot /\ queue[k] \in Seq(Task)
  BY <1>1 DEF IInv, RefInv, TypeOK
<1> DEFINE w == Without(queue[k], n)
<1>4. /\ \A j \in DOMAIN w : \E m \in DOMAIN queue[k] : m # n /\ w[j] = queue[k][m]
      /\ \A a, b \in DOMAIN w : w[a] = w[b] => a = b
      /\ w \in Seq(Task)
  <2>1. \A a, b \in DOMAIN queue[k] : queue[k][a] = queue[k][b] => a = b
    BY <1>3 DEF IInv, QueueInv
  <2> QED
    BY <1>3, <2>1, WithoutElements, WithoutFacts
<1>5. \A l \in Slot : queue'[l] = IF l = k THEN w ELSE queue[l]
  BY <1>2, <1>3 DEF TypeOK
<1>6. \A u \in Task \ {t} : pc'[u] = pc[u]
  BY <1>1, <1>3 DEF TypeOK
<1>7. pc'[t] = "timed_out"
  BY <1>1, <1>3 DEF TypeOK
<1>8. TypeOK'
  <2>1. DOMAIN queue' = Slot
    BY <1>2, <1>3 DEF TypeOK
  <2>2. \A l \in Slot : queue'[l] \in Seq(Task)
    BY <1>3, <1>4, <1>5 DEF TypeOK
  <2>3. pc' \in [Task -> PC]
    BY <1>1, <1>3 DEF TypeOK, PC, InFlightPC
  <2> QED
    BY <1>1, <1>3, <2>1, <2>2, <2>3 DEF TypeOK
<1>9. \A u \in Task : (InFlight(u)' <=> InFlight(u)) /\ slot'[u] = slot[u]
  BY <1>1, <1>6, <1>7 DEF InFlight, InFlightPC
<1>10. SlotCurrent' /\ Injective' /\ SweepInv'
  BY <1>1, <1>9, TaskStep
<1>11. PendingExact'
  BY <1>1, <1>9, CountSame
<1>12. RefInv'
  BY <1>1, <1>6, <1>7 DEF IInv, RefInv
<1>13. PermitInv'
  <2>1. \A u \in Task : HasPermit(u)' <=> HasPermit(u)
    BY <1>1, <1>6, <1>7 DEF HasPermit
  <2>2. permits[k] # 1
    <3>1. queue[k] # <<>>
      BY <1>2, <1>3
    <3> QED
      BY <1>3, <3>1 DEF IInv, PermitInv
  <2> HIDE DEF w
  <2> QED
    BY <1>1, <1>5, <2>1, <2>2 DEF IInv, PermitInv
<1>14. QueueInv'
  <2> HIDE DEF w
  <2>1. \A l \in Slot : \A i \in DOMAIN queue[l] :
          pc[queue[l][i]] = "queued" /\ slot[queue[l][i]] = l /\ queue[l][i] \in Task
    BY <1>3 DEF IInv, QueueInv, TypeOK
  <2>2. \A m \in DOMAIN queue[k] : m # n => queue[k][m] # t
    BY <1>2, <1>3 DEF IInv, QueueInv
  <2>3. \A i \in DOMAIN w : pc'[w[i]] = "queued" /\ slot[w[i]] = k
    BY <1>3, <1>4, <1>6, <2>1, <2>2
  <2>4. \A l \in Slot : l # k => \A i \in DOMAIN queue[l] : pc'[queue[l][i]] = "queued"
    BY <1>6, <2>1
  <2>5. \A l \in Slot : \A i \in DOMAIN queue'[l] :
          pc'[queue'[l][i]] = "queued" /\ slot'[queue'[l][i]] = l
    BY <1>1, <1>5, <2>1, <2>3, <2>4
  <2>6. \A l \in Slot : \A i, j \in DOMAIN queue'[l] : queue'[l][i] = queue'[l][j] => i = j
    BY <1>4, <1>5 DEF IInv, QueueInv
  <2> QED
    BY <2>5, <2>6 DEF QueueInv
<1> QED
  BY <1>8, <1>10, <1>11, <1>12, <1>13, <1>14 DEF IInv

LEMMA FailIInv == ASSUME IInv, NEW t \in Task, fail(t) PROVE IInv'
<1>1. /\ pc[t] = "timed_out" /\ pc' = [pc EXCEPT ![t] = "none"]
      /\ pending' = [pending EXCEPT ![slot[t]] = @ - 1]
      /\ slot' = [slot EXCEPT ![t] = NoSlot]
      /\ UNCHANGED <<slots, permits, queue, idle, sweep>>
  BY DEF fail
<1>2. TypeOK /\ slot[t] \in Slot
  BY <1>1 DEF IInv, RefInv, TypeOK
<1>3. /\ \A u \in Task \ {t} : pc'[u] = pc[u] /\ slot'[u] = slot[u]
      /\ pc'[t] = "none" /\ slot'[t] = NoSlot
  BY <1>1, <1>2 DEF TypeOK
<1>4. PendingExact' /\ pending' \in [Slot -> Nat]
  BY <1>1, <1>2, <1>3, CountOut DEF InFlight, InFlightPC
<1>5. TypeOK'
  BY <1>1, <1>2, <1>4 DEF TypeOK, PC
<1>6. SlotCurrent' /\ Injective' /\ SweepInv'
  BY <1>1, <1>3, TaskStep DEF InFlight, InFlightPC
<1>7. RefInv'
  BY <1>3 DEF IInv, RefInv
<1>8. PermitInv'
  <2>1. \A u \in Task : (HasPermit(u)' <=> HasPermit(u)) /\ (HasPermit(u) => slot'[u] = slot[u])
    BY <1>1, <1>3 DEF HasPermit
  <2> QED
    BY <1>1, <2>1 DEF IInv, PermitInv
<1>9. QueueInv'
  <2>1. \A l \in Slot : \A i \in DOMAIN queue[l] : queue[l][i] \in Task \ {t}
    BY <1>1, <1>2 DEF IInv, QueueInv, TypeOK
  <2> QED
    BY <1>1, <1>3, <2>1 DEF IInv, QueueInv
<1> QED
  BY <1>4, <1>5, <1>6, <1>7, <1>8, <1>9 DEF IInv

LEMMA StampIInv == ASSUME IInv, NEW t \in Task, stamp(t) PROVE IInv'
<1>1. /\ pc[t] = "granted" /\ pc' = [pc EXCEPT ![t] = "holding"]
      /\ idle' = [idle EXCEPT ![slot[t]] = FALSE]
      /\ UNCHANGED <<slots, permits, queue, pending, slot, sweep>>
  BY DEF stamp
<1>2. TypeOK
  BY DEF IInv
<1>3. (\A u \in Task \ {t} : pc'[u] = pc[u]) /\ pc'[t] = "holding"
  BY <1>1, <1>2 DEF TypeOK
<1>4. \A u \in Task : (InFlight(u)' <=> InFlight(u)) /\ slot'[u] = slot[u]
                      /\ (HasPermit(u)' <=> HasPermit(u))
  BY <1>1, <1>3 DEF InFlight, InFlightPC, HasPermit
<1>5. TypeOK'
  BY <1>1, <1>2 DEF TypeOK, PC, InFlightPC
<1>6. SlotCurrent' /\ Injective' /\ SweepInv' /\ PendingExact'
  BY <1>1, <1>4, TaskStep, CountSame
<1>7. RefInv'
  BY <1>1, <1>3 DEF IInv, RefInv
<1>8. PermitInv'
  BY <1>1, <1>4 DEF IInv, PermitInv
<1>9. QueueInv'
  <2>1. \A l \in Slot : \A i \in DOMAIN queue[l] : queue[l][i] \in Task \ {t}
    BY <1>1, <1>2 DEF IInv, QueueInv, TypeOK
  <2> QED
    BY <1>1, <1>3, <2>1 DEF IInv, QueueInv
<1> QED
  BY <1>5, <1>6, <1>7, <1>8, <1>9 DEF IInv

LEMMA DropGuardIInv == ASSUME IInv, NEW t \in Task, drop_guard(t) PROVE IInv'
<1>1. /\ pc[t] = "holding" /\ pc' = [pc EXCEPT ![t] = "releasing"]
      /\ pending' = [pending EXCEPT ![slot[t]] = @ - 1]
      /\ UNCHANGED <<slots, permits, queue, idle, slot, sweep>>
  BY DEF drop_guard
<1>2. TypeOK /\ slot[t] \in Slot
  BY <1>1 DEF IInv, RefInv, TypeOK
<1>3. (\A u \in Task \ {t} : pc'[u] = pc[u]) /\ pc'[t] = "releasing"
  BY <1>1, <1>2 DEF TypeOK
<1>4. PendingExact' /\ pending' \in [Slot -> Nat]
  BY <1>1, <1>2, <1>3, CountOut DEF InFlight, InFlightPC
<1>5. TypeOK'
  BY <1>1, <1>2, <1>4 DEF TypeOK, PC
<1>6. SlotCurrent' /\ Injective' /\ SweepInv'
  BY <1>1, <1>3, TaskStep DEF InFlight, InFlightPC
<1>7. RefInv'
  BY <1>1, <1>3 DEF IInv, RefInv
<1>8. PermitInv'
  <2>1. \A u \in Task : HasPermit(u)' <=> HasPermit(u)
    BY <1>1, <1>3 DEF HasPermit
  <2> QED
    BY <1>1, <2>1 DEF IInv, PermitInv
<1>9. QueueInv'
  <2>1. \A l \in Slot : \A i \in DOMAIN queue[l] : queue[l][i] \in Task \ {t}
    BY <1>1, <1>2 DEF IInv, QueueInv, TypeOK
  <2> QED
    BY <1>1, <1>3, <2>1 DEF IInv, QueueInv
<1> QED
  BY <1>4, <1>5, <1>6, <1>7, <1>8, <1>9 DEF IInv

LEMMA ReleaseIInv == ASSUME IInv, NEW t \in Task, release(t) PROVE IInv'
<1> DEFINE k == slot[t]
<1>1. /\ pc[t] = "releasing" /\ drop_permit(t, k)
      /\ slot' = [slot EXCEPT ![t] = NoSlot]
      /\ UNCHANGED <<slots, pending, idle, sweep>>
  BY DEF release
<1>2. TypeOK /\ k \in Slot /\ queue[k] \in Seq(Task)
  BY <1>1 DEF IInv, RefInv, TypeOK
<1>3. permits[k] = 0
  BY <1>1, <1>2 DEF IInv, PermitInv, HasPermit, TypeOK
<1>4. (\A u \in Task \ {t} : slot'[u] = slot[u]) /\ slot'[t] = NoSlot
  BY <1>1, <1>2 DEF TypeOK
<1>5. \A u \in Task : HasPermit(u) /\ slot[u] = k => u = t
  BY <1>1, <1>2 DEF IInv, PermitInv, HasPermit
<1>6. CASE queue[k] = <<>>
  <2>1. /\ permits' = [permits EXCEPT ![k] = 1] /\ pc' = [pc EXCEPT ![t] = "none"]
        /\ queue' = queue
    BY <1>1, <1>3, <1>6 DEF drop_permit
  <2>2. (\A u \in Task \ {t} : pc'[u] = pc[u]) /\ pc'[t] = "none"
    BY <1>2, <2>1 DEF TypeOK
  <2>3. TypeOK'
    BY <1>1, <1>2, <2>1 DEF TypeOK, PC
  <2>4. \A u \in Task : (InFlight(u)' <=> InFlight(u)) /\ (InFlight(u) => slot'[u] = slot[u])
    BY <1>1, <1>4, <2>2 DEF InFlight, InFlightPC
  <2>5. SlotCurrent' /\ Injective' /\ SweepInv'
    BY <1>1, <2>4, TaskStep
  <2>6. PendingExact'
    BY <1>1, <2>4, CountSame
  <2>7. RefInv'
    BY <1>4, <2>2 DEF IInv, RefInv
  <2>8. PermitInv'
    <3>1. \A u \in Task : HasPermit(u)' <=> HasPermit(u) /\ u # t
      BY <1>1, <2>2 DEF HasPermit
    <3>2. \A l \in Slot : permits'[l] = IF l = k THEN 1 ELSE permits[l]
      BY <1>2, <2>1 DEF TypeOK
    <3> QED
      BY <1>4, <1>5, <1>6, <2>1, <3>1, <3>2 DEF IInv, PermitInv
  <2>9. QueueInv'
    <3>1. \A l \in Slot : \A i \in DOMAIN queue[l] : queue[l][i] \in Task \ {t}
      BY <1>1, <1>2 DEF IInv, QueueInv, TypeOK
    <3> QED
      BY <1>4, <2>1, <2>2, <3>1 DEF IInv, QueueInv
  <2> QED
    BY <2>3, <2>5, <2>6, <2>7, <2>8, <2>9 DEF IInv
<1>7. CASE queue[k] # <<>>
  <2> DEFINE h == queue[k][1]
             w == Without(queue[k], 1)
  <2>1. 1 \in DOMAIN queue[k] /\ h \in Task /\ Head(queue[k]) = h
    BY <1>2, <1>7
  <2>2. pc[h] = "queued" /\ slot[h] = k /\ h # t
    BY <1>1, <1>2, <2>1 DEF IInv, QueueInv
  <2>3. /\ permits' = permits
        /\ pc' = [pc EXCEPT ![t] = "none", ![h] = "granted"]
        /\ queue' = [queue EXCEPT ![k] = w]
    BY <1>1, <1>7, <2>1 DEF drop_permit
  <2>4. /\ \A u \in Task \ {t, h} : pc'[u] = pc[u]
        /\ pc'[t] = "none" /\ pc'[h] = "granted" /\ pc' \in [Task -> PC]
    BY <1>2, <2>1, <2>2, <2>3 DEF TypeOK, PC, InFlightPC
  <2>5. /\ \A j \in DOMAIN w : \E m \in DOMAIN queue[k] : m # 1 /\ w[j] = queue[k][m]
        /\ \A a, b \in DOMAIN w : w[a] = w[b] => a = b
        /\ w \in Seq(Task)
    <3>1. \A a, b \in DOMAIN queue[k] : queue[k][a] = queue[k][b] => a = b
      BY <1>2 DEF IInv, QueueInv
    <3> QED
      BY <1>2, <2>1, <3>1, WithoutElements, WithoutFacts
  <2> HIDE DEF w
  <2>6. \A l \in Slot : queue'[l] = IF l = k THEN w ELSE queue[l]
    BY <1>2, <2>3 DEF TypeOK
  <2>7. TypeOK'
    <3>1. DOMAIN queue' = Slot
      BY <1>2, <2>3 DEF TypeOK
    <3>2. \A l \in Slot : queue'[l] \in Seq(Task)
      BY <1>2, <2>5, <2>6 DEF TypeOK
    <3>3. slot' \in [Task -> Slot \cup {NoSlot}]
      BY <1>1, <1>2 DEF TypeOK
    <3> QED
      BY <1>1, <1>2, <2>3, <2>4, <3>1, <3>2, <3>3 DEF TypeOK
  <2>8. \A u \in Task : (InFlight(u)' <=> InFlight(u)) /\ (InFlight(u) => slot'[u] = slot[u])
    BY <1>1, <1>4, <2>2, <2>4 DEF InFlight, InFlightPC
  <2>9. SlotCurrent' /\ Injective' /\ SweepInv'
    BY <1>1, <2>8, TaskStep
  <2>10. PendingExact'
    BY <1>1, <2>8, CountSame
  <2>11. RefInv'
    BY <1>4, <2>2, <2>4 DEF IInv, RefInv
  <2>12. PermitInv'
    <3>1. \A u \in Task : HasPermit(u)' <=> (HasPermit(u) /\ u # t) \/ u = h
      BY <1>1, <2>2, <2>4 DEF HasPermit
    <3>2. slot'[h] = k /\ permits'[k] = 0
      BY <1>3, <1>4, <2>1, <2>2, <2>3
    <3> QED
      BY <1>2, <1>4, <1>5, <2>1, <2>3, <2>6, <3>1, <3>2 DEF IInv, PermitInv
  <2>13. QueueInv'
    <3>1. \A l \in Slot : \A i \in DOMAIN queue[l] :
            /\ pc[queue[l][i]] = "queued" /\ slot[queue[l][i]] = l
            /\ queue[l][i] \in Task \ {t}
      BY <1>1, <1>2 DEF IInv, QueueInv, TypeOK
    <3>2. \A m \in DOMAIN queue[k] : m # 1 => queue[k][m] # h
      BY <1>2, <2>1 DEF IInv, QueueInv
    <3>3. \A j \in DOMAIN w : pc'[w[j]] = "queued" /\ slot'[w[j]] = k
      BY <1>2, <1>4, <2>4, <2>5, <3>1, <3>2
    <3>4. \A l \in Slot : l # k => \A i \in DOMAIN queue[l] :
            pc'[queue[l][i]] = "queued" /\ slot'[queue[l][i]] = l
      BY <1>4, <2>2, <2>4, <3>1
    <3>5. \A l \in Slot : \A i \in DOMAIN queue'[l] :
            pc'[queue'[l][i]] = "queued" /\ slot'[queue'[l][i]] = l
      BY <2>6, <3>3, <3>4
    <3>6. \A l \in Slot : \A i, j \in DOMAIN queue'[l] : queue'[l][i] = queue'[l][j] => i = j
      BY <2>5, <2>6 DEF IInv, QueueInv
    <3> QED
      BY <3>5, <3>6 DEF QueueInv
  <2> QED
    BY <2>7, <2>9, <2>10, <2>11, <2>12, <2>13 DEF IInv
<1> QED
  BY <1>6, <1>7

\* Steps that leave the tasks, the semaphores and pending alone.
LEMMA Untouched ==
  ASSUME IInv, UNCHANGED <<permits, queue, pending, pc, slot>>
  PROVE  RefInv' /\ PendingExact' /\ PermitInv' /\ QueueInv'
<1>1. PendingExact'
  BY CountSame DEF InFlight
<1>2. RefInv' /\ PermitInv' /\ QueueInv'
  BY DEF IInv, RefInv, PermitInv, QueueInv, HasPermit
<1> QED
  BY <1>1, <1>2

LEMMA AgeIInv == ASSUME IInv, NEW k \in Slot, age(k) PROVE IInv'
<1>1. idle' = [idle EXCEPT ![k] = TRUE]
      /\ UNCHANGED <<slots, permits, queue, pending, pc, slot, sweep>>
  BY DEF age
<1>2. TypeOK'
  BY <1>1 DEF IInv, TypeOK
<1>3. SlotCurrent' /\ Injective' /\ SweepInv'
  BY <1>1, TaskStep DEF InFlight
<1> QED
  BY <1>1, <1>2, <1>3, Untouched DEF IInv

LEMMA SweepsIInv == ASSUME IInv, Sweeps PROVE IInv'
<1>1. UNCHANGED <<permits, queue, pending, idle, pc, slot>>
  BY DEF Sweeps, sweep_lock, sweep_last, sweep_pending, sweep_remove
<1>2. RefInv' /\ PendingExact' /\ PermitInv' /\ QueueInv'
  BY <1>1, Untouched
<1>3. TypeOK
  BY DEF IInv
<1>4. \A s \in Session : Busy(s)' <=> Busy(s)
  BY <1>1 DEF Busy, InFlight
<1>5. CASE sweep_lock
  <2>1. sweep' = [locked |-> TRUE, left |-> DOMAIN slots, current |-> NoSession,
                  to_remove |-> {}] /\ slots' = slots
    BY <1>5 DEF sweep_lock, NoSweep
  <2>2. TypeOK'
    BY <1>1, <1>3, <2>1 DEF TypeOK
  <2>3. SlotCurrent' /\ Injective' /\ SweepInv'
    BY <1>1, <2>1 DEF IInv, SlotCurrent, Injective, SweepInv, InFlight
  <2> QED
    BY <1>2, <2>2, <2>3 DEF IInv
<1>6. CASE \E s \in sweep.left : sweep_last(s)
  <2>1. PICK s \in sweep.left : sweep_last(s)
    BY <1>6
  <2>2. PICK c \in {s, NoSession} :
          sweep' = [sweep EXCEPT !.left = sweep.left \ {s}, !.current = c]
    BY <2>1 DEF sweep_last
  <2>3. slots' = slots /\ s \in Session /\ s \in DOMAIN slots /\ sweep.locked
    BY <1>3, <2>1 DEF sweep_last, IInv, SweepInv, TypeOK, NoSweep
  <2>4. sweep' \in [locked: BOOLEAN, left: SUBSET Session, current: Session \cup {NoSession},
                    to_remove: SUBSET Session]
    BY <1>3, <2>2, <2>3 DEF TypeOK
  <2>5. /\ sweep'.left = sweep.left \ {s} /\ sweep'.current = c
        /\ sweep'.locked /\ sweep'.to_remove = sweep.to_remove
    BY <1>3, <2>2, <2>3 DEF TypeOK
  <2>6. TypeOK'
    BY <1>1, <1>3, <2>3, <2>4 DEF TypeOK
  <2>7. SlotCurrent' /\ Injective'
    BY <1>1, <2>3 DEF IInv, SlotCurrent, Injective, InFlight
  <2>8. SweepInv'
    <3>1. \A r \in sweep.to_remove : r \in DOMAIN slots /\ ~Busy(r) /\ r \in Session
      BY <1>3 DEF IInv, SweepInv, TypeOK
    <3> QED
      BY <1>4, <2>3, <2>5, <3>1 DEF IInv, SweepInv
  <2> QED
    BY <1>2, <2>6, <2>7, <2>8 DEF IInv
<1>7. CASE sweep_pending
  <2> DEFINE c == sweep.current
  <2>1. /\ c # NoSession /\ slots' = slots
        /\ sweep' = [sweep EXCEPT !.current = NoSession,
                       !.to_remove = IF pending[slots[c]] = 0 THEN sweep.to_remove \cup {c}
                                     ELSE sweep.to_remove]
    BY <1>7 DEF sweep_pending
  <2>2. c \in DOMAIN slots /\ sweep.locked /\ c \in Session /\ slots[c] \in Slot
    BY <1>3, <2>1 DEF IInv, SweepInv, NoSweep, TypeOK
  <2>3. pending[slots[c]] = 0 => ~Busy(c)
    <3> SUFFICES ASSUME pending[slots[c]] = 0, Busy(c) PROVE FALSE
      OBVIOUS
    <3>1. PICK t \in Task : SessionOf[t] = c /\ InFlight(t)
      BY DEF Busy
    <3>2. t \in Counted(slots[c])
      BY <3>1 DEF Counted, IInv, SlotCurrent
    <3>3. Cardinality(Counted(slots[c])) = 0
      BY <2>2 DEF IInv, PendingExact, Counted
    <3>4. IsFiniteSet(Counted(slots[c]))
      BY QueueAssumption, FS_Subset DEF Counted
    <3>5. Counted(slots[c]) = {}
      BY <3>3, <3>4, FS_EmptySet
    <3> QED
      BY <3>2, <3>5
  <2>4. PICK m \in {sweep.to_remove, sweep.to_remove \cup {c}} :
          /\ sweep' = [sweep EXCEPT !.current = NoSession, !.to_remove = m]
          /\ c \in m => c \in sweep.to_remove \/ ~Busy(c)
    BY <2>1, <2>3
  <2>5. /\ sweep'.left = sweep.left /\ sweep'.current = NoSession
        /\ sweep'.locked /\ sweep'.to_remove = m
    BY <1>3, <2>2, <2>4 DEF TypeOK
  <2>6. TypeOK'
    <3>1. m \in SUBSET Session
      BY <1>3, <2>2 DEF TypeOK
    <3>2. sweep' \in [locked: BOOLEAN, left: SUBSET Session, current: Session \cup {NoSession},
                      to_remove: SUBSET Session]
      BY <1>3, <2>4, <3>1 DEF TypeOK
    <3> QED
      BY <1>1, <1>3, <2>1, <3>2 DEF TypeOK
  <2>7. SlotCurrent' /\ Injective'
    BY <1>1, <2>1 DEF IInv, SlotCurrent, Injective, InFlight
  <2>8. SweepInv'
    <3>1. \A r \in sweep.to_remove : r \in DOMAIN slots /\ ~Busy(r) /\ r \in Session
      BY <1>3 DEF IInv, SweepInv, TypeOK
    <3>2. \A r \in m : r \in DOMAIN slots /\ ~Busy(r) /\ r \in Session
      BY <2>2, <2>4, <3>1
    <3> QED
      BY <1>4, <2>1, <2>5, <3>2 DEF IInv, SweepInv
  <2> QED
    BY <1>2, <2>6, <2>7, <2>8 DEF IInv
<1>8. CASE sweep_remove
  <2>1. /\ DOMAIN slots' = DOMAIN slots \ sweep.to_remove
        /\ \A s \in DOMAIN slots' : slots'[s] = slots[s]
        /\ sweep' = NoSweep
    BY <1>8 DEF sweep_remove
  <2>2. TypeOK'
    BY <1>1, <1>3, <2>1 DEF TypeOK, NoSweep
  <2>3. SlotCurrent'
    <3>1. \A t \in Task : InFlight(t) => SessionOf[t] \notin sweep.to_remove
      BY DEF IInv, SweepInv, Busy
    <3> QED
      BY <1>1, <2>1, <3>1 DEF IInv, SlotCurrent, InFlight
  <2>4. Injective'
    BY <2>1 DEF IInv, Injective
  <2>5. SweepInv'
    BY <2>1 DEF SweepInv, NoSweep
  <2> QED
    BY <1>2, <2>2, <2>3, <2>4, <2>5 DEF IInv
<1> QED
  BY <1>5, <1>6, <1>7, <1>8 DEF Sweeps

LEMMA NextIInv == IInv /\ [Next]_vars => IInv'
<1> SUFFICES ASSUME IInv, [Next]_vars PROVE IInv'
  OBVIOUS
<1>1. ASSUME NEW t \in Task, reserve(t) PROVE IInv'
  BY <1>1, ReserveIInv
<1>2. ASSUME NEW t \in Task, queue_full(t) PROVE IInv'
  BY <1>2, QueueFullIInv
<1>3. ASSUME NEW t \in Task, Proceed(t) PROVE IInv'
  BY <1>3, EnqueueIInv, FailIInv, StampIInv, ReleaseIInv DEF Proceed
<1>4. ASSUME NEW t \in Task, timeout(t) PROVE IInv'
  BY <1>4, TimeoutIInv
<1>5. ASSUME NEW t \in Task, drop_guard(t) PROVE IInv'
  BY <1>5, DropGuardIInv
<1>6. ASSUME NEW k \in Slot, age(k) PROVE IInv'
  BY <1>6, AgeIInv
<1>7. CASE Sweeps
  BY <1>7, SweepsIInv
<1>8. CASE UNCHANGED vars
  <2>1. UNCHANGED <<slots, permits, queue, pending, idle, pc, slot, sweep>>
    BY <1>8 DEF vars
  <2>2. TypeOK'
    BY <2>1 DEF IInv, TypeOK
  <2>3. SlotCurrent' /\ Injective' /\ SweepInv'
    BY <2>1, TaskStep DEF InFlight
  <2> QED
    BY <2>1, <2>2, <2>3, Untouched DEF IInv
<1> QED
  BY <1>1, <1>2, <1>3, <1>4, <1>5, <1>6, <1>7, <1>8 DEF Next

-----------------------------------------------------------------------------
(* Theorems *)

\* The inductive invariant holds of every reachable state; of the fairness
\* nothing is needed.
THEOREM Invariance == Spec => []IInv
  BY InitIInv, NextIInv, PTL DEF Spec

\* Every variable keeps its type; a semaphore has at most one permit.
THEOREM TypeCorrect == Spec => []TypeOK
<1>1. IInv => TypeOK
  BY DEF IInv
<1> QED
  BY <1>1, Invariance, PTL

\* A request in flight refers to the slot in the map: eviction never takes it away.
THEOREM SlotsCurrent == Spec => []SlotCurrent
<1>1. IInv => SlotCurrent
  BY DEF IInv
<1> QED
  BY <1>1, Invariance, PTL

\* pending counts the requests in flight, and is at most max_queue_depth.
THEOREM PendingCounts == Spec => []PendingExact
<1>1. IInv => PendingExact
  BY DEF IInv
<1> QED
  BY <1>1, Invariance, PTL

\* While a task waits, another one has the permit and will pass it on.
THEOREM PermitNotLost == Spec => []NoLostPermit
<1>1. IInv => NoLostPermit
  <2> SUFFICES ASSUME IInv, NEW k \in Slot, queue[k] # <<>>
               PROVE  \E t \in Task : HasPermit(t) /\ slot[t] = k
    BY DEF NoLostPermit
  <2>1. permits[k] \in {0, 1}
    BY DEF IInv, TypeOK
  <2> QED
    BY <2>1 DEF IInv, PermitInv
<1> QED
  BY <1>1, Invariance, PTL

LEMMA Exclusion == IInv => MutualExclusion
<1> SUFFICES ASSUME IInv, NEW t \in Task, NEW u \in Task, pc[t] = "holding", pc[u] = "holding",
                    SessionOf[t] = SessionOf[u]
             PROVE  t = u
  BY DEF MutualExclusion
<1>1. InFlight(t) /\ InFlight(u) /\ HasPermit(t) /\ HasPermit(u)
  BY DEF InFlight, InFlightPC, HasPermit
<1>2. slot[t] = slot[u] /\ slot[t] \in Slot
  BY <1>1 DEF IInv, SlotCurrent, TypeOK
<1> QED
  BY <1>1, <1>2 DEF IInv, PermitInv

\* No two tasks hold one session.
THEOREM MutualExclusionHolds == Spec => []MutualExclusion
  BY Exclusion, Invariance, PTL

\* The queue implements the per-session lock: stamping takes it, dropping the
\* guard gives it back, and every other step stutters.
THEOREM LockImplemented == Spec => ImplementsLock
<1> DEFINE holders == [s \in Session |-> {t \in Task : pc[t] = "holding" /\ SessionOf[t] = s}]
<1>1. Init => Lock!Init
  <2> SUFFICES ASSUME Init PROVE Lock!Init
    OBVIOUS
  <2>1. \A t \in Task : pc[t] # "holding"
    BY DEF Init
  <2> QED
    BY <2>1 DEF Lock!Init
<1>2. ASSUME IInv, IInv', [Next]_vars PROVE [Lock!Next]_holders
  <2>1. TypeOK /\ SessionOf \in [Task -> Session]
    BY <1>2, QueueAssumption DEF IInv
  <2>0. MutualExclusion'
    BY <1>2, Exclusion, PTL
  <2>2. CASE \A t \in Task : pc'[t] = "holding" <=> pc[t] = "holding"
    <3>1. holders' = holders
      BY <2>2
    <3> QED
      BY <3>1
  <2>3. ASSUME NEW t \in Task, stamp(t) PROVE Lock!Next
    <3> DEFINE s == SessionOf[t]
    <3>1. /\ \A u \in Task \ {t} : pc'[u] = pc[u]
          /\ pc[t] = "granted" /\ pc'[t] = "holding" /\ s \in Session
      BY <2>1, <2>3 DEF stamp, TypeOK
    <3>2. \A u \in Task : pc'[u] = "holding" /\ SessionOf[u] = s => u = t
      BY <2>0, <3>1 DEF MutualExclusion
    <3>3. holders[s] = {}
      BY <3>1, <3>2
    <3>4. holders' = [holders EXCEPT ![s] = {t}]
      BY <3>1, <3>2
    <3> QED
      BY <3>1, <3>3, <3>4 DEF Lock!Next, Lock!Take
  <2>4. ASSUME NEW t \in Task, drop_guard(t) PROVE Lock!Next
    <3> DEFINE s == SessionOf[t]
    <3>1. /\ \A u \in Task \ {t} : pc'[u] = pc[u]
          /\ pc[t] = "holding" /\ pc'[t] = "releasing" /\ s \in Session
      BY <2>1, <2>4 DEF drop_guard, TypeOK
    <3>2. t \in holders[s]
      BY <3>1
    <3>3. holders' = [holders EXCEPT ![s] = holders[s] \ {t}]
      BY <3>1
    <3> QED
      BY <3>1, <3>2, <3>3 DEF Lock!Next, Lock!Give
  <2>5. ASSUME NEW t \in Task,
               reserve(t) \/ queue_full(t) \/ enqueue(t) \/ timeout(t) \/ fail(t) \/ release(t)
        PROVE  \A u \in Task : pc'[u] = "holding" <=> pc[u] = "holding"
    <3>1. \A l \in Slot : queue[l] # <<>> => Head(queue[l]) \in Task /\ pc[Head(queue[l])] = "queued"
      <4> SUFFICES ASSUME NEW l \in Slot, queue[l] # <<>>
                   PROVE  Head(queue[l]) \in Task /\ pc[Head(queue[l])] = "queued"
        OBVIOUS
      <4>1. queue[l] \in Seq(Task)
        BY <2>1 DEF TypeOK
      <4>2. 1 \in DOMAIN queue[l] /\ Head(queue[l]) = queue[l][1] /\ queue[l][1] \in Task
        BY <4>1
      <4> QED
        BY <1>2, <4>2 DEF IInv, QueueInv
    <3>2. CASE release(t)
      <4>1. slot[t] \in Slot /\ pc[t] = "releasing" /\ drop_permit(t, slot[t])
        BY <1>2, <2>1, <3>2 DEF release, IInv, RefInv, TypeOK
      <4> QED
        BY <2>1, <3>1, <4>1 DEF drop_permit, TypeOK
    <3>3. CASE reserve(t) \/ queue_full(t) \/ enqueue(t) \/ timeout(t) \/ fail(t)
      BY <2>1, <3>3 DEF reserve, queue_full, enqueue, acquire_owned, timeout, fail, TypeOK
    <3> QED
      BY <2>5, <3>2, <3>3
  <2>6. ASSUME (\E k \in Slot : age(k)) \/ Sweeps \/ UNCHANGED vars
        PROVE  \A u \in Task : pc'[u] = "holding" <=> pc[u] = "holding"
    BY <2>6 DEF age, Sweeps, sweep_lock, sweep_last, sweep_pending, sweep_remove, vars
  <2> HIDE DEF holders
  <2> QED
    BY <1>2, <2>2, <2>3, <2>4, <2>5, <2>6 DEF Next, Proceed
<1> QED
  BY <1>1, <1>2, Invariance, PTL DEF Spec, ImplementsLock, Lock!Spec
=============================================================================
