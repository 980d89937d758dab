-------------------------- MODULE ChatSocketProofs --------------------------
(***************************************************************************)
(* Theorems about ChatSocket for any connections, sessions and bounds.     *)
(*                                                                         *)
(* What the checked invariants need to be inductive is about the turns in  *)
(* progress (TaskInv): the rows a turn has written so far are marked with  *)
(* its guard, hold no reply while it may still write, and if it is guarded *)
(* no other guarded row follows them.  Turns in progress are told apart by *)
(* their numbers (Distinct), and a session has one guard (Exclusive).      *)
(***************************************************************************)
EXTENDS ChatSocket, SequenceTheorems, TLAPS

Serial(h) ==
  \A i, j, k \in DOMAIN h :
    i < j /\ j < k /\ h[i].turn = h[k].turn /\ h[i].guarded /\ h[j].guarded
      => h[j].turn = h[i].turn

InOrder(h) ==
  \A i, j \in DOMAIN h :
    i < j /\ h[i].turn = h[j].turn => h[i].role # "assistant" /\ h[j].role # "user"

\* h as a turn n in progress leaves it, guarded or not; while it is open the turn
\* has not replied.
OwnRows(h, n, guarded, open) ==
  /\ \A i \in DOMAIN h : h[i].turn = n => (h[i].guarded <=> guarded)
  /\ open => \A i \in DOMAIN h : h[i].turn = n => h[i].role # "assistant"
  /\ guarded => \A i, j \in DOMAIN h :
       i < j /\ h[i].turn = n /\ h[j].guarded => h[j].turn = n

Open(t) == at[t] \in {"agent", "turn"}

TaskInv ==
  \A t \in Task : InTurn(t) =>
    /\ turn[t] \in 1..turns
    /\ OwnRows(history[SessionOf[t]], turn[t], Guarded(t), Open(t))

Distinct ==
  \A t, u \in Task : InTurn(t) /\ InTurn(u) /\ turn[t] = turn[u] => t = u

Exclusive == \A s \in Session : \A t, u \in holders[s] : t = u

HistoryInv ==
  \A s \in Session :
    /\ Serial(history[s]) /\ InOrder(history[s])
    /\ \A i \in DOMAIN history[s] : history[s][i].turn <= turns

TurnsInv == GuardScoped /\ TaskInv /\ Distinct /\ Exclusive /\ HistoryInv

IInv == TypeOK /\ RunningIsLive /\ TurnsInv

-----------------------------------------------------------------------------
(* Lemmas about histories *)

LEMMA Appended ==
  ASSUME NEW h \in Seq(Row), NEW r \in Row
  PROVE  /\ Append(h, r) \in Seq(Row)
         /\ Len(h) \in Nat
         /\ DOMAIN h = 1..Len(h)
         /\ DOMAIN Append(h, r) = 1..(Len(h) + 1)
         /\ \A i \in DOMAIN h : Append(h, r)[i] = h[i]
         /\ Append(h, r)[Len(h) + 1] = r
  BY AppendProperties, LenProperties

\* A turn that is open and has the rows it should have writes the next one.
LEMMA AppendOwn ==
  ASSUME NEW h \in Seq(Row), NEW r \in Row,
         Serial(h), InOrder(h), OwnRows(h, r.turn, r.guarded, TRUE),
         r.role = "user" => \A i \in DOMAIN h : h[i].turn # r.turn
  PROVE  /\ Serial(Append(h, r)) /\ InOrder(Append(h, r))
         /\ OwnRows(Append(h, r), r.turn, r.guarded, r.role # "assistant")
<1> DEFINE g == Append(h, r)
           n == Len(h) + 1
<1>1. /\ Len(h) \in Nat /\ DOMAIN h = 1..Len(h) /\ DOMAIN g = 1..n /\ g[n] = r
      /\ \A i \in DOMAIN h : g[i] = h[i]
  BY Appended
<1>2. \A i \in DOMAIN g : i = n \/ i \in DOMAIN h
  BY <1>1
<1>3. \A i, j \in DOMAIN g : i < j => i \in DOMAIN h
  BY <1>1
<1> HIDE DEF g, n
<1>4. Serial(g)
  <2> SUFFICES ASSUME NEW i \in DOMAIN g, NEW j \in DOMAIN g, NEW k \in DOMAIN g,
                      i < j, j < k, g[i].turn = g[k].turn, g[i].guarded, g[j].guarded
               PROVE  g[j].turn = g[i].turn
    BY DEF Serial
  <2>1. i \in DOMAIN h /\ j \in DOMAIN h /\ g[i] = h[i] /\ g[j] = h[j]
    BY <1>1, <1>3
  <2>2. CASE k \in DOMAIN h
    BY <1>1, <2>1, <2>2 DEF Serial
  <2>3. CASE k = n
    BY <1>1, <2>1, <2>3 DEF OwnRows
  <2> QED
    BY <1>2, <2>2, <2>3
<1>5. InOrder(g)
  <2> SUFFICES ASSUME NEW i \in DOMAIN g, NEW j \in DOMAIN g, i < j, g[i].turn = g[j].turn
               PROVE  g[i].role # "assistant" /\ g[j].role # "user"
    BY DEF InOrder
  <2>1. i \in DOMAIN h /\ g[i] = h[i]
    BY <1>1, <1>3
  <2>2. CASE j \in DOMAIN h
    BY <1>1, <2>1, <2>2 DEF InOrder
  <2>3. CASE j = n
    BY <1>1, <2>1, <2>3 DEF OwnRows
  <2> QED
    BY <1>2, <2>2, <2>3
<1>6. OwnRows(g, r.turn, r.guarded, r.role # "assistant")
  <2>1. \A i \in DOMAIN g : g[i].turn = r.turn => (g[i].guarded <=> r.guarded)
    BY <1>1, <1>2 DEF OwnRows
  <2>2. r.role # "assistant" => \A i \in DOMAIN g : g[i].turn = r.turn => g[i].role # "assistant"
    BY <1>1, <1>2 DEF OwnRows
  <2>3. ASSUME r.guarded, NEW i \in DOMAIN g, NEW j \in DOMAIN g,
               i < j, g[i].turn = r.turn, g[j].guarded
        PROVE  g[j].turn = r.turn
    BY <1>1, <1>2, <1>3, <2>3 DEF OwnRows
  <2> QED
    BY <2>1, <2>2, <2>3 DEF OwnRows
<1> QED
  BY <1>4, <1>5, <1>6 DEF g

\* The rows of another turn, of which at most one is guarded, stay as they are.
LEMMA AppendOther ==
  ASSUME NEW h \in Seq(Row), NEW r \in Row, NEW n, NEW guarded \in BOOLEAN, NEW open \in BOOLEAN,
         OwnRows(h, n, guarded, open), r.turn # n, ~(guarded /\ r.guarded)
  PROVE  OwnRows(Append(h, r), n, guarded, open)
<1> DEFINE g == Append(h, r)
           l == Len(h) + 1
<1>1. /\ Len(h) \in Nat /\ DOMAIN h = 1..Len(h) /\ DOMAIN g = 1..l /\ g[l] = r
      /\ \A i \in DOMAIN h : g[i] = h[i]
  BY Appended
<1>2. \A i \in DOMAIN g : i = l \/ i \in DOMAIN h
  BY <1>1
<1> HIDE DEF g, l
<1>3. OwnRows(g, n, guarded, open)
  BY <1>1, <1>2 DEF OwnRows
<1> QED
  BY <1>3 DEF g

-----------------------------------------------------------------------------
(* Lemmas about steps *)

\* A step that begins no turn and writes no row: turns keep their numbers, guards
\* are only given back, and only by turns that end.
LEMMA Quiet ==
  ASSUME IInv, UNCHANGED <<history, turns>>,
         \A u \in Task : InTurn(u)' =>
           /\ InTurn(u) /\ turn'[u] = turn[u]
           /\ Guarded(u)' <=> Guarded(u)
           /\ Open(u)' => Open(u),
         \A s \in Session : holders'[s] \subseteq holders[s] /\ \A u \in holders'[s] : InTurn(u)'
  PROVE  TurnsInv'
<1>1. TypeOK /\ TurnsInv
  BY DEF IInv
<1>2. GuardScoped'
  BY <1>1 DEF GuardScoped, TurnsInv
<1>3. TaskInv'
  <2> SUFFICES ASSUME NEW u \in Task, InTurn(u)'
               PROVE  turn'[u] \in 1..turns' /\ OwnRows(history[SessionOf[u]], turn[u], Guarded(u)', Open(u)')
    BY DEF TaskInv
  <2>1. /\ turn[u] \in 1..turns
        /\ OwnRows(history[SessionOf[u]], turn[u], Guarded(u), Open(u))
    BY <1>1 DEF TurnsInv, TaskInv
  <2> QED
    BY <2>1 DEF OwnRows
<1>4. Distinct'
  BY <1>1 DEF Distinct, TurnsInv
<1>5. Exclusive'
  BY <1>1 DEF Exclusive, TurnsInv
<1>6. HistoryInv'
  BY <1>1 DEF HistoryInv, TurnsInv
<1> QED
  BY <1>2, <1>3, <1>4, <1>5, <1>6 DEF TurnsInv

\* What a change of at[t] alone does to the other connections.
LEMMA AtChange ==
  ASSUME TypeOK, NEW t \in Task, NEW q \in Places, at' = [at EXCEPT ![t] = q]
  PROVE  /\ at' \in [Task -> Places] /\ at'[t] = q
         /\ \A u \in Task \ {t} : at'[u] = at[u]
  BY DEF TypeOK

\* A connection moves on, in its turn or outside one, and writes at most the
\* session's metadata.
LEMMA Moves ==
  ASSUME IInv, NEW t \in Task, NEW q \in Places, at' = [at EXCEPT ![t] = q],
         UNCHANGED <<turn, holders, history, turns>>,
         InTurn(t) <=> q \in {"agent", "turn", "reply", "done"},
         q \in {"agent", "turn"} => Open(t)
  PROVE  TurnsInv'
<1>1. /\ at'[t] = q
      /\ \A u \in Task \ {t} : at'[u] = at[u]
  BY AtChange DEF IInv
<1>2. \A u \in Task : InTurn(u)' <=> InTurn(u)
  BY <1>1 DEF InTurn
<1>3. \A u \in Task : Open(u)' => Open(u)
  BY <1>1 DEF Open
<1>4. \A u \in Task : Guarded(u)' <=> Guarded(u)
  BY DEF Guarded
<1>5. \A s \in Session : \A u \in holders'[s] : InTurn(u)'
  BY <1>2 DEF IInv, TurnsInv, GuardScoped, TypeOK
<1> QED
  BY <1>2, <1>3, <1>4, <1>5, Quiet

\* The states that a step leaves "running" still name turns that run.
LEMMA StillLive ==
  ASSUME IInv, NEW t \in Task,
         \A s \in Session \ {SessionOf[t]} : meta'[s] = meta[s],
         meta'[SessionOf[t]].state # "running",
         \A u \in Task \ {t} : at'[u] = at[u] /\ turn'[u] = turn[u],
         killed' = killed
  PROVE  RunningIsLive'
  BY ChatAssumption DEF IInv, RunningIsLive, Running

\* As long as t does not run, its metadata changes nothing about what does.
LEMMA NotRunning ==
  ASSUME IInv, NEW t \in Task, ~Running(t),
         \A s \in Session : meta'[s].state = meta[s].state /\ meta'[s].turn_id = meta[s].turn_id,
         \A u \in Task \ {t} : at'[u] = at[u] /\ turn'[u] = turn[u],
         killed' = killed
  PROVE  RunningIsLive'
  BY DEF IInv, RunningIsLive, Running

LEMMA MetaState ==
  ASSUME TypeOK, NEW s \in Session, NEW state \in {"idle", "running", "error"},
         NEW n \in 0..MaxTurns, set_session_state(s, state, n)
  PROVE  /\ meta' \in [Session -> [state: {"idle", "running", "error"}, turn_id: 0..MaxTurns,
                                   archived: BOOLEAN]]
         /\ meta'[s].state = state /\ meta'[s].turn_id = n
         /\ \A r \in Session \ {s} : meta'[r] = meta[r]
  BY DEF TypeOK, set_session_state

LEMMA MetaUnarchived ==
  ASSUME TypeOK, NEW s \in Session, unarchive_session(s)
  PROVE  /\ meta' \in [Session -> [state: {"idle", "running", "error"}, turn_id: 0..MaxTurns,
                                   archived: BOOLEAN]]
         /\ \A r \in Session : meta'[r].state = meta[r].state /\ meta'[r].turn_id = meta[r].turn_id
  BY DEF TypeOK, unarchive_session

-----------------------------------------------------------------------------
(* Every step preserves the invariant *)

LEMMA InitIInv == Init => IInv
<1> SUFFICES ASSUME Init PROVE IInv
  OBVIOUS
<1>1. /\ at = [t \in Task |-> "closed"] /\ agent = [t \in Task |-> FALSE]
      /\ turn = [t \in Task |-> NoTurn] /\ holders = [s \in Session |-> {}]
      /\ history = [s \in Session |-> <<>>]
      /\ meta = [s \in Session |-> [state |-> "idle", turn_id |-> NoTurn, archived |-> FALSE]]
      /\ turns = 0 /\ killed = {} /\ crashes = 0
  BY DEF Init, Lock!Init
<1>2. \A s \in Session : history[s] \in Seq(Row) /\ DOMAIN history[s] = {}
  BY <1>1
<1>3. TypeOK
  BY <1>1, <1>2, ChatAssumption DEF TypeOK, Places, NoTurn
<1>4. RunningIsLive
  BY <1>1 DEF RunningIsLive
<1>5. GuardScoped /\ TaskInv /\ Distinct /\ Exclusive
  BY <1>1 DEF GuardScoped, TaskInv, Distinct, Exclusive, InTurn
<1>6. HistoryInv
  BY <1>2 DEF HistoryInv, Serial, InOrder
<1> QED
  BY <1>3, <1>4, <1>5, <1>6 DEF IInv, TurnsInv

\* Connecting and waiting for the session.
LEMMA WaitIInv ==
  ASSUME IInv, NEW t \in Task,
         connect(t) \/ handshake(t) \/ disconnect(t) \/ acquire(t) \/ session_busy(t)
  PROVE  IInv'
<1> DEFINE q == at'[t]
<1>1. /\ at' = [at EXCEPT ![t] = q] /\ q \in {"handshake", "loop", "closed", "acquiring"}
      /\ at[t] \in {"closed", "handshake", "loop", "acquiring"}
      /\ agent' \in [Task -> BOOLEAN]
      /\ UNCHANGED <<turn, holders, history, meta, turns, killed, crashes>>
  BY DEF IInv, TypeOK, connect, handshake, disconnect, acquire, session_busy
<1>2. q \in Places
  BY <1>1 DEF Places
<1> HIDE DEF q
<1>3. /\ at' \in [Task -> Places]
      /\ \A u \in Task \ {t} : at'[u] = at[u]
  BY <1>1, <1>2, AtChange DEF IInv
<1>4. TypeOK'
  BY <1>1, <1>3 DEF IInv, TypeOK
<1>5. TurnsInv'
  BY <1>1, <1>2, Moves DEF InTurn, Open
<1>6. RunningIsLive'
  BY <1>1, <1>3, NotRunning DEF Running
<1> QED
  BY <1>4, <1>5, <1>6 DEF IInv

\* The turn in progress has a number and a session of the right types.
LEMMA TurnType ==
  ASSUME IInv, NEW t \in Task, InTurn(t)
  PROVE  /\ turn[t] \in 1..turns /\ turn[t] \in 1..MaxTurns /\ turn[t] \in 0..MaxTurns
         /\ SessionOf[t] \in Session
<1>1. turn[t] \in 1..turns /\ turns \in 0..MaxTurns
  BY DEF IInv, TypeOK, TurnsInv, TaskInv
<1> QED
  BY <1>1, ChatAssumption

LEMMA StartTurnIInv == ASSUME IInv, NEW t \in Task, start_turn(t) PROVE IInv'
<1> DEFINE s == SessionOf[t]
<1>1. /\ at[t] = "agent" /\ at' = [at EXCEPT ![t] = "turn"]
      /\ agent' = [agent EXCEPT ![t] = TRUE]
      /\ set_session_state(s, "running", turn[t])
      /\ UNCHANGED <<turn, holders, history, turns, killed, crashes>>
  BY DEF start_turn
<1>2. InTurn(t) /\ Open(t) /\ "turn" \in Places
  BY <1>1 DEF InTurn, Open, Places
<1>3. turn[t] \in 0..MaxTurns /\ s \in Session
  BY <1>2, TurnType
<1>4. /\ meta' \in [Session -> [state: {"idle", "running", "error"}, turn_id: 0..MaxTurns,
                                archived: BOOLEAN]]
      /\ meta'[s].turn_id = turn[t] /\ \A r \in Session \ {s} : meta'[r] = meta[r]
  BY <1>1, <1>3, MetaState DEF IInv
<1>5. /\ at' \in [Task -> Places] /\ at'[t] = "turn"
      /\ \A u \in Task \ {t} : at'[u] = at[u]
  BY <1>1, <1>2, AtChange DEF IInv
<1>6. TypeOK'
  BY <1>1, <1>4, <1>5 DEF IInv, TypeOK
<1>7. TurnsInv'
  BY <1>1, <1>2, Moves
<1>8. RunningIsLive'
  <2> SUFFICES ASSUME NEW r \in Session, meta'[r].state = "running"
               PROVE  \/ meta'[r].turn_id \in killed
                      \/ \E u \in Task : SessionOf[u] = r /\ Running(u)' /\ turn[u] = meta'[r].turn_id
    BY <1>1 DEF RunningIsLive
  <2>1. CASE r = s
    BY <1>4, <1>5, <2>1 DEF Running
  <2>2. CASE r # s
    BY <1>1, <1>4, <1>5, <2>2 DEF IInv, RunningIsLive, Running
  <2> QED
    BY <2>1, <2>2
<1> QED
  BY <1>6, <1>7, <1>8 DEF IInv

\* The ways out of a turn that write the session's state.
LEMMA EndIInv ==
  ASSUME IInv, NEW t \in Task, stopped(t) \/ set_idle(t) \/ turn_failed(t)
  PROVE  IInv'
<1> DEFINE s == SessionOf[t]
<1>1. PICK state \in {"idle", "error"}, n \in {NoTurn, turn[t]} :
        /\ at[t] \in {"turn", "reply"} /\ at' = [at EXCEPT ![t] = "done"]
        /\ set_session_state(s, state, n)
        /\ UNCHANGED <<agent, turn, holders, history, turns, killed, crashes>>
  BY DEF stopped, set_idle, turn_failed
<1>2. InTurn(t) /\ "done" \in Places
  BY <1>1 DEF InTurn, Places
<1>3. n \in 0..MaxTurns /\ s \in Session
  BY <1>2, TurnType, ChatAssumption DEF NoTurn
<1>4. /\ meta' \in [Session -> [state: {"idle", "running", "error"}, turn_id: 0..MaxTurns,
                                archived: BOOLEAN]]
      /\ meta'[s].state = state /\ \A r \in Session \ {s} : meta'[r] = meta[r]
  BY <1>1, <1>3, MetaState DEF IInv
<1>5. /\ at' \in [Task -> Places]
      /\ \A u \in Task \ {t} : at'[u] = at[u]
  BY <1>1, <1>2, AtChange DEF IInv
<1>6. TypeOK'
  BY <1>1, <1>4, <1>5 DEF IInv, TypeOK
<1>7. TurnsInv'
  BY <1>1, <1>2, Moves DEF InTurn
<1>8. RunningIsLive'
  BY <1>1, <1>4, <1>5, StillLive
<1> QED
  BY <1>6, <1>7, <1>8 DEF IInv

\* Dropping the guard takes t, and nobody else, out of the holders.
LEMMA Dropped ==
  ASSUME IInv, NEW t \in Task, drop_guard(t)
  PROVE  /\ holders' \in [Session -> SUBSET Task]
         /\ \A s \in Session : holders'[s] = holders[s] \ {t}
<1>1. SessionOf[t] \in Session /\ holders \in [Session -> SUBSET Task]
  BY ChatAssumption DEF IInv, TypeOK
<1>2. \A s \in Session : t \in holders[s] => s = SessionOf[t]
  BY DEF IInv, TurnsInv, GuardScoped
<1> QED
  BY <1>1, <1>2 DEF drop_guard, Guarded, Lock!Give

\* The arm of the loop ends, with or without an agent.
LEMMA LeaveIInv == ASSUME IInv, NEW t \in Task, leave(t) \/ agent_failed(t) PROVE IInv'
<1> DEFINE q == at'[t]
<1>1. /\ at' = [at EXCEPT ![t] = q] /\ q \in {"loop", "closed"}
      /\ at[t] \in {"agent", "done"} /\ drop_guard(t)
      /\ turn' = [turn EXCEPT ![t] = NoTurn]
      /\ UNCHANGED <<agent, history, meta, turns, killed, crashes>>
  BY DEF IInv, TypeOK, leave, agent_failed
<1>2. q \in Places
  BY <1>1 DEF Places
<1> HIDE DEF q
<1>3. /\ at' \in [Task -> Places] /\ at'[t] = q
      /\ \A u \in Task \ {t} : at'[u] = at[u]
  BY <1>1, <1>2, AtChange DEF IInv
<1>4. /\ turn' \in [Task -> 0..MaxTurns]
      /\ \A u \in Task \ {t} : turn'[u] = turn[u]
  BY <1>1, ChatAssumption DEF IInv, TypeOK, NoTurn
<1>5. /\ holders' \in [Session -> SUBSET Task]
      /\ \A s \in Session : holders'[s] = holders[s] \ {t}
  BY <1>1, Dropped
<1>6. TypeOK'
  BY <1>1, <1>3, <1>4, <1>5 DEF IInv, TypeOK
<1>7. TurnsInv'
  <2>1. \A u \in Task : InTurn(u)' => u # t
    BY <1>1, <1>3 DEF InTurn
  <2>2. \A u \in Task \ {t} :
          /\ InTurn(u)' <=> InTurn(u)
          /\ turn'[u] = turn[u]
          /\ Guarded(u)' <=> Guarded(u)
          /\ Open(u)' => Open(u)
    BY <1>3, <1>4, <1>5, ChatAssumption DEF InTurn, Open, Guarded
  <2>3. \A s \in Session : holders'[s] \subseteq holders[s] /\ \A u \in holders'[s] : InTurn(u)'
    BY <1>5, <2>2 DEF IInv, TypeOK, TurnsInv, GuardScoped
  <2> QED
    BY <1>1, <2>1, <2>2, <2>3, Quiet
<1>8. RunningIsLive'
  BY <1>1, <1>3, <1>4, NotRunning DEF Running
<1> QED
  BY <1>6, <1>7, <1>8 DEF IInv

LEMMA RowType ==
  ASSUME NEW role \in {"user", "note", "assistant"}, NEW n \in 1..MaxTurns,
         NEW g \in BOOLEAN
  PROVE  [role |-> role, turn |-> n, guarded |-> g] \in Row
  BY DEF Row

\* One row is written to one history.
LEMMA HistoryChange ==
  ASSUME TypeOK, NEW s \in Session, NEW role \in {"user", "note", "assistant"},
         NEW n \in 1..MaxTurns, NEW g \in BOOLEAN, append(s, role, n, g)
  PROVE  /\ DOMAIN history' = Session /\ \A r \in Session : history'[r] \in Seq(Row)
         /\ history'[s] = Append(history[s], [role |-> role, turn |-> n, guarded |-> g])
         /\ \A r \in Session \ {s} : history'[r] = history[r]
<1> DEFINE row == [role |-> role, turn |-> n, guarded |-> g]
<1>1. row \in Row
  BY RowType
<1>2. history[s] \in Seq(Row) /\ DOMAIN history = Session
  BY DEF TypeOK
<1>3. history' = [history EXCEPT ![s] = Append(history[s], row)]
  BY DEF append
<1> HIDE DEF row
<1>4. Append(history[s], row) \in Seq(Row)
  BY <1>1, <1>2, AppendProperties
<1>5. history'[s] = Append(history[s], row) /\ \A r \in Session \ {s} : history'[r] = history[r]
  BY <1>2, <1>3
<1>6. DOMAIN history' = Session /\ \A r \in Session : history'[r] \in Seq(Row)
  BY <1>2, <1>3, <1>4, <1>5 DEF TypeOK
<1> QED
  BY <1>5, <1>6 DEF row

\* The turn of t writes a row: a note that keeps it open, or the reply that closes it.
LEMMA WriteIInv == ASSUME IInv, NEW t \in Task, steer(t) \/ reply(t) PROVE IInv'
<1> DEFINE s == SessionOf[t]
           g == Guarded(t)
           row(role) == [role |-> role, turn |-> turn[t], guarded |-> g]
<1>1. PICK role \in {"note", "assistant"} :
        /\ append(s, role, turn[t], g)
        /\ at[t] = "turn"
        /\ at' = [at EXCEPT ![t] = IF role = "note" THEN "turn" ELSE "reply"]
        /\ UNCHANGED <<agent, turn, holders, meta, turns, killed, crashes>>
  BY DEF IInv, TypeOK, steer, reply
<1>2. /\ InTurn(t) /\ Open(t)
      /\ (IF role = "note" THEN "turn" ELSE "reply") \in Places
  BY <1>1 DEF InTurn, Open, Places
<1>3. turn[t] \in 1..turns /\ turn[t] \in 1..MaxTurns /\ s \in Session /\ g \in BOOLEAN
  BY <1>2, TurnType DEF Guarded
<1>4. /\ DOMAIN history' = Session /\ \A r \in Session : history'[r] \in Seq(Row)
      /\ history'[s] = Append(history[s], row(role))
      /\ \A r \in Session \ {s} : history'[r] = history[r]
  BY <1>1, <1>3, HistoryChange DEF IInv
<1>5. /\ at' \in [Task -> Places]
      /\ at'[t] = IF role = "note" THEN "turn" ELSE "reply"
      /\ \A u \in Task \ {t} : at'[u] = at[u]
  BY <1>1, <1>2, AtChange DEF IInv
<1>6. row(role) \in Row /\ history[s] \in Seq(Row)
  BY <1>3, RowType DEF IInv, TypeOK
<1>7. /\ row(role).turn = turn[t] /\ row(role).guarded = g /\ row(role).role = role
  OBVIOUS
<1> HIDE DEF row, g
<1>8. TypeOK'
  BY <1>1, <1>4, <1>5 DEF IInv, TypeOK
<1>9. RunningIsLive'
  BY <1>1, <1>5 DEF IInv, RunningIsLive, Running
<1>10. Serial(history[s]) /\ InOrder(history[s]) /\ OwnRows(history[s], turn[t], g, TRUE)
  BY <1>2, <1>3 DEF IInv, TurnsInv, TaskInv, HistoryInv, OwnRows, g
<1>11. /\ Serial(history'[s]) /\ InOrder(history'[s])
       /\ OwnRows(history'[s], turn[t], g, role # "assistant")
  BY <1>1, <1>4, <1>6, <1>7, <1>10, AppendOwn
<1>12. \A u \in Task : InTurn(u)' <=> InTurn(u)
  BY <1>1, <1>5 DEF InTurn
<1>13. \A u \in Task : Guarded(u)' <=> Guarded(u)
  BY <1>1 DEF Guarded
<1>14. GuardScoped' /\ Distinct' /\ Exclusive'
  BY <1>1, <1>12 DEF IInv, TypeOK, TurnsInv, GuardScoped, Distinct, Exclusive
<1>15. HistoryInv'
  <2>1. \A i \in DOMAIN history'[s] : history'[s][i].turn <= turns
    BY <1>3, <1>4, <1>6, <1>7, Appended DEF IInv, TurnsInv, HistoryInv
  <2> QED
    BY <1>1, <1>4, <1>11, <2>1 DEF IInv, TurnsInv, HistoryInv
<1>16. ASSUME NEW u \in Task, InTurn(u)
       PROVE  /\ turn[u] \in 1..turns
              /\ OwnRows(history'[SessionOf[u]], turn[u], Guarded(u), Open(u)')
  <2>1. turn[u] \in 1..turns /\ OwnRows(history[SessionOf[u]], turn[u], Guarded(u), Open(u))
    BY <1>16 DEF IInv, TurnsInv, TaskInv
  <2>2. CASE u = t
    <3>1. Open(t)' <=> role # "assistant"
      BY <1>1, <1>5 DEF Open
    <3> QED
      BY <1>3, <1>11, <2>2, <3>1 DEF OwnRows, g
  <2>3. CASE u # t /\ SessionOf[u] # s
    BY <1>4, <1>5, <2>1, <2>3, ChatAssumption DEF Open
  <2>4. CASE u # t /\ SessionOf[u] = s
    <3>1. turn[u] # turn[t]
      BY <1>2, <1>16, <2>4 DEF IInv, TurnsInv, Distinct
    <3>2. ~(Guarded(u) /\ g)
      BY <1>3, <2>4 DEF IInv, TurnsInv, Exclusive, Guarded, g
    <3>3. Guarded(u) \in BOOLEAN /\ Open(u) \in BOOLEAN
      BY DEF Guarded, Open
    <3>4. OwnRows(history'[s], turn[u], Guarded(u), Open(u))
      BY <1>4, <1>6, <1>7, <2>1, <2>4, <3>1, <3>2, <3>3, AppendOther
    <3> QED
      BY <1>5, <2>1, <2>4, <3>4 DEF Open
  <2> QED
    BY <2>2, <2>3, <2>4
<1>17. TaskInv'
  BY <1>1, <1>12, <1>13, <1>16 DEF TaskInv, OwnRows
<1> QED
  BY <1>8, <1>9, <1>14, <1>15, <1>17 DEF IInv, TurnsInv

\* A turn begins: t gets the next number, and the guard or no guard.
LEMMA BeginIInv ==
  ASSUME IInv, NEW t \in Task, first_message(t) \/ acquired(t)
  PROVE  IInv'
<1> DEFINE s == SessionOf[t]
           n == turns + 1
           row(g) == [role |-> "user", turn |-> n, guarded |-> g]
<1>1. PICK g \in BOOLEAN :
        /\ at[t] \in {"handshake", "acquiring"} /\ user_message(t, g)
        /\ holders' = IF g THEN [holders EXCEPT ![s] = {t}] ELSE holders
        /\ g => holders[s] = {}
  <2>1. CASE first_message(t)
    BY <2>1 DEF first_message
  <2>2. CASE acquired(t)
    BY <2>2 DEF acquired, Lock!Take
  <2> QED
    BY <2>1, <2>2
<1>2. /\ turns < MaxTurns /\ turns' = n /\ turn' = [turn EXCEPT ![t] = n]
      /\ unarchive_session(s) /\ append(s, "user", n, g)
      /\ at' = [at EXCEPT ![t] = "agent"]
      /\ UNCHANGED <<agent, killed, crashes>>
  BY <1>1 DEF user_message
<1>3. /\ turns \in Nat /\ n \in 1..MaxTurns /\ n \in 0..MaxTurns /\ s \in Session
      /\ holders \in [Session -> SUBSET Task]
      /\ "agent" \in Places
  <2>1. turns \in 0..MaxTurns /\ holders \in [Session -> SUBSET Task] /\ MaxTurns \in Nat
    BY ChatAssumption DEF IInv, TypeOK
  <2>2. s \in Session /\ "agent" \in Places
    BY ChatAssumption DEF Places
  <2> QED
    BY <1>2, <2>1, <2>2
<1>4. /\ DOMAIN history' = Session /\ \A r \in Session : history'[r] \in Seq(Row)
      /\ history'[s] = Append(history[s], row(g))
      /\ \A r \in Session \ {s} : history'[r] = history[r]
  BY <1>2, <1>3, HistoryChange DEF IInv
<1>5. /\ at' \in [Task -> Places] /\ at'[t] = "agent"
      /\ \A u \in Task \ {t} : at'[u] = at[u]
  BY <1>2, <1>3, AtChange DEF IInv
<1>6. /\ turn' \in [Task -> 0..MaxTurns] /\ turn'[t] = n
      /\ \A u \in Task \ {t} : turn'[u] = turn[u]
  BY <1>2, <1>3 DEF IInv, TypeOK
<1>7. /\ meta' \in [Session -> [state: {"idle", "running", "error"}, turn_id: 0..MaxTurns,
                                archived: BOOLEAN]]
      /\ \A r \in Session : meta'[r].state = meta[r].state /\ meta'[r].turn_id = meta[r].turn_id
  BY <1>2, <1>3, MetaUnarchived DEF IInv
<1>8. row(g) \in Row /\ history[s] \in Seq(Row)
  BY <1>3, RowType DEF IInv, TypeOK
<1>9. row(g).turn = n /\ row(g).guarded = g /\ row(g).role = "user"
  OBVIOUS
<1>10. ~InTurn(t) /\ ~Running(t) /\ t \notin holders[s] /\ \A r \in Session : t \notin holders[r]
  BY <1>1, <1>3 DEF InTurn, Running, IInv, TurnsInv, GuardScoped
<1>11. /\ holders' \in [Session -> SUBSET Task]
       /\ holders'[s] = IF g THEN {t} ELSE holders[s]
       /\ \A r \in Session \ {s} : holders'[r] = holders[r]
  BY <1>1, <1>3
<1>12. TypeOK'
  BY <1>2, <1>3, <1>4, <1>5, <1>6, <1>7, <1>11 DEF IInv, TypeOK
<1>13. RunningIsLive'
  BY <1>2, <1>5, <1>6, <1>7, <1>10, NotRunning
<1> HIDE DEF row, n
<1>14. \A i \in DOMAIN history[s] : history[s][i].turn # n
  <2>1. \A i \in DOMAIN history[s] : history[s][i].turn <= turns /\ history[s][i] \in Row
    BY <1>3, <1>8, LenProperties, ElementOfSeq DEF IInv, TurnsInv, HistoryInv
  <2> QED
    BY <1>3, <2>1 DEF Row, n
<1>15. Serial(history[s]) /\ InOrder(history[s]) /\ OwnRows(history[s], n, g, TRUE)
  BY <1>3, <1>14 DEF IInv, TurnsInv, HistoryInv, OwnRows
<1>16. /\ Serial(history'[s]) /\ InOrder(history'[s])
       /\ OwnRows(history'[s], n, g, TRUE)
  BY <1>4, <1>8, <1>9, <1>14, <1>15, AppendOwn
<1>17. HistoryInv'
  <2>1. \A i \in DOMAIN history'[s] : history'[s][i].turn <= turns'
    <3>1. /\ Len(history[s]) \in Nat
          /\ DOMAIN history[s] = 1..Len(history[s])
          /\ DOMAIN history'[s] = 1..(Len(history[s]) + 1)
          /\ \A i \in DOMAIN history[s] : history'[s][i] = history[s][i]
          /\ history'[s][Len(history[s]) + 1] = row(g)
      BY <1>4, <1>8, Appended
    <3>2. \A i \in DOMAIN history[s] : history'[s][i].turn <= n
      <4>1. \A i \in DOMAIN history[s] : history[s][i].turn <= turns /\ history[s][i] \in Row
        BY <1>3, <1>8, LenProperties, ElementOfSeq DEF IInv, TurnsInv, HistoryInv
      <4> QED
        BY <1>3, <3>1, <4>1 DEF Row, n
    <3> QED
      BY <1>2, <1>3, <1>9, <3>1, <3>2
  <2>2. ASSUME NEW r \in Session \ {s}, NEW i \in DOMAIN history[r]
        PROVE  history[r][i].turn <= n
    <3>1. history[r][i].turn <= turns /\ history[r][i] \in Row
      BY <2>2, LenProperties, ElementOfSeq DEF IInv, TypeOK, TurnsInv, HistoryInv
    <3> QED
      BY <1>3, <3>1 DEF Row, n
  <2> QED
    BY <1>2, <1>4, <1>16, <2>1, <2>2 DEF IInv, TurnsInv, HistoryInv
<1>18. /\ InTurn(t)' /\ \A u \in Task \ {t} : InTurn(u)' <=> InTurn(u)
  BY <1>5 DEF InTurn
<1>19. GuardScoped'
  <2>1. \A r \in Session : \A u \in holders[r] : u \in Task /\ SessionOf[u] = r /\ InTurn(u)
    BY <1>3 DEF IInv, TurnsInv, GuardScoped
  <2>2. \A r \in Session : \A u \in holders'[r] : u \in holders[r] \/ (u = t /\ r = s)
    BY <1>11
  <2> QED
    BY <1>18, <2>1, <2>2 DEF GuardScoped
<1>20. Exclusive'
  <2>1. \A r \in Session : \A u, v \in holders[r] : u = v
    BY DEF IInv, TurnsInv, Exclusive
  <2> QED
    BY <1>3, <1>11, <2>1 DEF Exclusive
<1>21. \A u \in Task \ {t} : InTurn(u) => turn[u] \in 1..turns /\ turn[u] # n
  BY <1>3 DEF IInv, TurnsInv, TaskInv, n
<1>22. Distinct'
  BY <1>6, <1>18, <1>21 DEF IInv, TurnsInv, Distinct
<1>23. Guarded(t)' <=> g
  BY <1>10, <1>11 DEF Guarded
<1>24. TaskInv'
  <2> SUFFICES ASSUME NEW u \in Task, InTurn(u)'
               PROVE  /\ turn'[u] \in 1..turns'
                      /\ OwnRows(history'[SessionOf[u]], turn'[u], Guarded(u)', Open(u)')
    BY DEF TaskInv
  <2>1. CASE u = t
    BY <1>2, <1>3, <1>6, <1>16, <1>23, <2>1 DEF OwnRows, n
  <2>2. CASE u # t
    <3>1. /\ InTurn(u) /\ turn'[u] = turn[u] /\ turn[u] \in 1..turns /\ turn[u] # n
          /\ OwnRows(history[SessionOf[u]], turn[u], Guarded(u), Open(u))
          /\ Open(u)' <=> Open(u)
          /\ SessionOf[u] \in Session
      BY <1>5, <1>6, <1>18, <1>21, <2>2, ChatAssumption DEF IInv, TurnsInv, TaskInv, Open
    <3>2. turn'[u] \in 1..turns'
      BY <1>2, <1>3, <3>1 DEF n
    <3>3. CASE SessionOf[u] # s
      <4>1. Guarded(u)' <=> Guarded(u)
        BY <1>11, <3>1, <3>3 DEF Guarded
      <4> QED
        BY <1>4, <3>1, <3>2, <3>3, <4>1 DEF OwnRows
    <3>4. CASE SessionOf[u] = s
      <4>1. (Guarded(u)' => Guarded(u)) /\ (g => ~Guarded(u)) /\ (~g => (Guarded(u)' <=> Guarded(u)))
        BY <1>1, <1>11, <2>2, <3>4 DEF Guarded
      <4>2. Guarded(u) \in BOOLEAN /\ Open(u) \in BOOLEAN
        BY DEF Guarded, Open
      <4>3. OwnRows(history'[s], turn[u], Guarded(u), Open(u))
        BY <1>4, <1>8, <1>9, <3>1, <3>4, <4>1, <4>2, AppendOther
      <4>4. Guarded(u)' <=> Guarded(u)
        BY <1>11, <2>2, <3>4, <4>1 DEF Guarded
      <4> QED
        BY <3>1, <3>2, <3>4, <4>3, <4>4 DEF OwnRows
    <3> QED
      BY <3>3, <3>4
  <2> QED
    BY <2>1, <2>2
<1> QED
  BY <1>12, <1>13, <1>17, <1>19, <1>20, <1>22, <1>24 DEF IInv, TurnsInv

LEMMA ArchiveIInv == ASSUME IInv, NEW s \in Session, archive_session(s) PROVE IInv'
<1>1. /\ meta' = [meta EXCEPT ![s] = [state |-> "idle", turn_id |-> NoTurn, archived |-> TRUE]]
      /\ UNCHANGED <<at, agent, turn, holders, history, turns, killed, crashes>>
  BY DEF archive_session
<1>2. TypeOK'
  BY <1>1, ChatAssumption DEF IInv, TypeOK, NoTurn
<1>3. RunningIsLive'
  BY <1>1 DEF IInv, TypeOK, RunningIsLive, Running
<1>4. TurnsInv'
  BY <1>1, Quiet DEF InTurn, Guarded, Open, IInv, TypeOK, TurnsInv, GuardScoped
<1> QED
  BY <1>2, <1>3, <1>4 DEF IInv

LEMMA CrashIInv == ASSUME IInv, crash PROVE IInv'
<1>1. /\ crashes < MaxCrashes /\ crashes' = crashes + 1
      /\ killed' = killed \cup {turn[t] : t \in {u \in Task : Running(u)}}
      /\ at' = [t \in Task |-> "closed"] /\ agent' = [t \in Task |-> FALSE]
      /\ turn' = [t \in Task |-> NoTurn] /\ holders' = [s \in Session |-> {}]
      /\ UNCHANGED <<history, meta, turns>>
  BY DEF crash
<1>2. \A t \in Task : Running(t) => turn[t] \in 1..MaxTurns
  BY TurnType DEF Running, InTurn
<1>3. TypeOK'
  <2>1. killed' \subseteq 1..MaxTurns
    BY <1>1, <1>2 DEF IInv, TypeOK
  <2>2. at' \in [Task -> Places] /\ turn' \in [Task -> 0..MaxTurns] /\ crashes' \in 0..MaxCrashes
    BY <1>1, ChatAssumption DEF IInv, TypeOK, Places, NoTurn
  <2> QED
    BY <1>1, <2>1, <2>2 DEF IInv, TypeOK
<1>4. RunningIsLive'
  BY <1>1 DEF IInv, RunningIsLive
<1>5. TurnsInv'
  BY <1>1, Quiet DEF InTurn
<1> QED
  BY <1>3, <1>4, <1>5 DEF IInv

LEMMA NextIInv == IInv /\ [Next]_vars => IInv'
<1> SUFFICES ASSUME IInv, [Next]_vars PROVE IInv'
  OBVIOUS
<1>1. ASSUME NEW t \in Task, Client(t) PROVE IInv'
  BY <1>1, WaitIInv, BeginIInv, WriteIInv DEF Client
<1>2. ASSUME NEW t \in Task, Server(t) PROVE IInv'
  BY <1>2, WaitIInv, BeginIInv, LeaveIInv, StartTurnIInv, EndIInv, WriteIInv DEF Server
<1>3. ASSUME NEW s \in Session, archive_session(s) PROVE IInv'
  BY <1>3, ArchiveIInv
<1>4. CASE crash
  BY <1>4, CrashIInv
<1>5. CASE UNCHANGED vars
  <2>1. UNCHANGED <<at, agent, turn, holders, history, meta, turns, killed, crashes>>
    BY <1>5 DEF vars
  <2>2. TypeOK' /\ RunningIsLive'
    BY <2>1 DEF IInv, TypeOK, RunningIsLive, Running
  <2>3. TurnsInv'
    BY <2>1, Quiet DEF InTurn, Guarded, Open, IInv, TypeOK, TurnsInv, GuardScoped
  <2> QED
    BY <2>2, <2>3 DEF IInv
<1> QED
  BY <1>1, <1>2, <1>3, <1>4, <1>5 DEF Next

-----------------------------------------------------------------------------
(* Theorems *)

\* The inductive invariant holds of every reachable state; of the fairness
\* nothing is needed.
THEOREM Invariance == Spec => []IInv
  BY InitIInv, NextIInv, PTL DEF Spec

\* Every variable keeps its type.
THEOREM TypeCorrect == Spec => []TypeOK
<1>1. IInv => TypeOK
  BY DEF IInv
<1> QED
  BY <1>1, Invariance, PTL

\* A session is "running" only while the turn it names runs, or if a crash cut it off.
THEOREM RunningLive == Spec => []RunningIsLive
<1>1. IInv => RunningIsLive
  BY DEF IInv
<1> QED
  BY <1>1, Invariance, PTL

\* No guard outlives the turn it was taken for.
THEOREM GuardsScoped == Spec => []GuardScoped
<1>1. IInv => GuardScoped
  BY DEF IInv, TurnsInv
<1> QED
  BY <1>1, Invariance, PTL

\* The messages of guarded turns never mix in a session's history.
THEOREM GuardedTurnsAreSerial == Spec => []GuardedTurnsSerial
<1>1. IInv => GuardedTurnsSerial
  BY DEF IInv, TurnsInv, HistoryInv, Serial, GuardedTurnsSerial
<1> QED
  BY <1>1, Invariance, PTL

\* A turn writes its user message first and its reply last.
THEOREM TurnsAreInOrder == Spec => []TurnsInOrder
<1>1. IInv => TurnsInOrder
  BY DEF IInv, TurnsInv, HistoryInv, InOrder, TurnsInOrder
<1> QED
  BY <1>1, Invariance, PTL

-----------------------------------------------------------------------------
(* The "running" of a guarded turn is not disturbed *)

\* A turn that began with a guard still has it.
LEMMA BegunStillGuarded ==
  ASSUME IInv, NEW t \in Task, InTurn(t), BegunGuarded(t)
  PROVE  Guarded(t)
  BY DEF IInv, TurnsInv, TaskInv, OwnRows, BegunGuarded

LEMMA OnlyUnguardedInterfere ==
  ASSUME IInv, NEW t \in Task, NEW u \in Task \ {t}, InTurn(t), BegunGuarded(t),
         SessionOf[u] = SessionOf[t], InTurn(u)
  PROVE  ~BegunGuarded(u)
  BY BegunStillGuarded, ChatAssumption DEF IInv, TurnsInv, Exclusive, Guarded

\* t is where it was, and its session's state says what it said.
LEMMA ShownKept ==
  ASSUME NEW t \in Task, ShownRunning(t), at'[t] \in {"turn", "reply"}, turn'[t] = turn[t],
         meta'[SessionOf[t]].state = meta[SessionOf[t]].state,
         meta'[SessionOf[t]].turn_id = meta[SessionOf[t]].turn_id
  PROVE  ShownRunning(t)'
  BY DEF ShownRunning, Running

LEMMA RunningKeptStep == IInv /\ [Next]_vars => RunningKept
<1> SUFFICES ASSUME IInv, [Next]_vars, NEW t \in Task, ShownRunning(t), BegunGuarded(t)
             PROVE  \/ ShownRunning(t)'
                    \/ ~Running(t)'
                    \/ meta'[SessionOf[t]].archived
                    \/ \E u \in Task :
                         SessionOf[u] = SessionOf[t] /\ InTurn(u) /\ ~BegunGuarded(u)
  BY DEF RunningKept
<1> DEFINE s == SessionOf[t]
<1>1. s \in Session /\ TypeOK /\ InTurn(t) /\ at[t] \in {"turn", "reply"}
  BY ChatAssumption DEF IInv, ShownRunning, Running, InTurn
\* Steps that leave every session's state and turn_id alone.
<1>2. ASSUME NEW u \in Task,
             \/ connect(u) \/ handshake(u) \/ disconnect(u) \/ acquire(u) \/ session_busy(u)
             \/ agent_failed(u) \/ leave(u)
      PROVE  ShownRunning(t)'
  <2>1. /\ at[u] \notin {"turn", "reply"} /\ at' = [at EXCEPT ![u] = at'[u]]
        /\ turn' = turn \/ turn' = [turn EXCEPT ![u] = NoTurn]
        /\ meta' = meta
    BY <1>1, <1>2 DEF connect, handshake, disconnect, acquire, session_busy, agent_failed,
                      leave, TypeOK
  <2>2. u # t
    BY <1>1, <2>1
  <2>3. at'[t] = at[t] /\ turn'[t] = turn[t]
    BY <1>1, <2>1, <2>2 DEF TypeOK
  <2> QED
    BY <1>1, <2>1, <2>3, ShownKept
<1>3. ASSUME NEW u \in Task, first_message(u) \/ acquired(u)
      PROVE  ShownRunning(t)'
  <2>1. /\ at[u] \in {"handshake", "acquiring"} /\ at' = [at EXCEPT ![u] = "agent"]
        /\ turn' = [turn EXCEPT ![u] = turns + 1] /\ unarchive_session(SessionOf[u])
    BY <1>3 DEF first_message, acquired, user_message
  <2>2. u # t
    BY <1>1, <2>1
  <2>3. at'[t] = at[t] /\ turn'[t] = turn[t]
    BY <1>1, <2>1, <2>2 DEF TypeOK
  <2>4. meta'[s].state = meta[s].state /\ meta'[s].turn_id = meta[s].turn_id
    BY <1>1, <2>1, MetaUnarchived, ChatAssumption
  <2> QED
    BY <1>1, <2>3, <2>4, ShownKept
<1>4. ASSUME NEW u \in Task, steer(u) \/ reply(u)
      PROVE  ShownRunning(t)'
  <2>1. /\ at' = at \/ at' = [at EXCEPT ![u] = "reply"]
        /\ UNCHANGED <<turn, meta>>
    BY <1>4 DEF steer, reply
  <2>2. at'[t] \in {"turn", "reply"}
    BY <1>1, <2>1 DEF TypeOK
  <2> QED
    BY <2>1, <2>2, ShownKept
\* Steps that write the state of u's session: t's own, another session's, or of a
\* turn without a guard.
<1>5. ASSUME NEW u \in Task,
             start_turn(u) \/ stopped(u) \/ set_idle(u) \/ turn_failed(u)
      PROVE  \/ ShownRunning(t)'
             \/ ~Running(t)'
             \/ SessionOf[u] = s /\ InTurn(u) /\ ~BegunGuarded(u)
  <2>1. PICK state \in {"idle", "running", "error"}, n \in {NoTurn, turn[u]} :
          /\ at[u] \in {"agent", "turn", "reply"}
          /\ at' = [at EXCEPT ![u] = IF at[u] = "agent" THEN "turn" ELSE "done"]
          /\ set_session_state(SessionOf[u], state, n)
          /\ turn' = turn
    BY <1>5 DEF start_turn, stopped, set_idle, turn_failed
  <2>2. InTurn(u)
    BY <2>1 DEF InTurn
  <2>3. CASE u = t
    BY <1>1, <2>1, <2>3 DEF TypeOK, Running
  <2>4. CASE u # t /\ SessionOf[u] = s
    BY <1>1, <2>2, <2>4, OnlyUnguardedInterfere
  <2>5. CASE u # t /\ SessionOf[u] # s
    <3>1. at'[t] = at[t] /\ meta'[s] = meta[s]
      BY <1>1, <2>1, <2>5 DEF TypeOK, set_session_state
    <3> QED
      BY <1>1, <2>1, <3>1, ShownKept
  <2> QED
    BY <2>3, <2>4, <2>5
<1>6. ASSUME NEW r \in Session, archive_session(r)
      PROVE  ShownRunning(t)' \/ meta'[s].archived
  <2>1. /\ meta' = [meta EXCEPT ![r] = [state |-> "idle", turn_id |-> NoTurn, archived |-> TRUE]]
        /\ UNCHANGED <<at, turn>>
    BY <1>6 DEF archive_session
  <2>2. CASE r = s
    BY <1>1, <2>1, <2>2 DEF TypeOK
  <2>3. CASE r # s
    <3>1. meta'[s] = meta[s]
      BY <1>1, <2>1, <2>3 DEF TypeOK
    <3> QED
      BY <1>1, <2>1, <3>1, ShownKept
  <2> QED
    BY <2>2, <2>3
<1>7. CASE crash
  BY <1>7 DEF crash, Running
<1>8. CASE UNCHANGED vars
  BY <1>1, <1>8, ShownKept DEF vars
<1> HIDE DEF s
<1>9. ASSUME NEW u \in Task, Client(u) \/ Server(u)
      PROVE  \/ ShownRunning(t)'
             \/ ~Running(t)'
             \/ SessionOf[u] = s /\ InTurn(u) /\ ~BegunGuarded(u)
  BY <1>2, <1>3, <1>4, <1>5, <1>9 DEF Client, Server
<1> QED
  BY <1>6, <1>7, <1>8, <1>9 DEF Next, s

\* Only the turn itself, an archive or an unguarded turn ends the "running" of a
\* guarded turn.
THEOREM RunningIsKept == Spec => OthersKeepRunning
  BY RunningKeptStep, Invariance, PTL DEF Spec, OthersKeepRunning
=============================================================================
