----------------------------- MODULE ChatSocket -----------------------------
(***************************************************************************)
(* The dashboard chat of src/gateway/ws.rs: WebSocket connections that run *)
(* agent turns on sessions, the session backend they persist to            *)
(* (channels/session_sqlite.rs) and the REST handler that archives.        *)
(*                                                                         *)
(* The session queue appears as the lock it implements: SessionQueue       *)
(* refines SessionLock, and an acquire that fails leaves the lock alone.   *)
(* A turn between two awaits is one action; each action makes at most one  *)
(* write that another connection could order differently.                  *)
(*                                                                         *)
(* A turn is numbered when its user message is accepted; that number       *)
(* stands for the turn_id its process_chat_message generates.  Message     *)
(* texts are left out.                                                     *)
(***************************************************************************)
EXTENDS Integers, Sequences, FiniteSets

CONSTANTS
  Session,
  Task,          \* connections; a closed one may connect again
  SessionOf,     \* the session each connection names
  MaxTurns,      \* bound: turns the clients ask for
  MaxNotes,      \* bound: steering notes in a session's history
  MaxCrashes     \* bound: restarts of the gateway

ASSUME ChatAssumption ==
  /\ SessionOf \in [Task -> Session]
  /\ MaxTurns \in Nat /\ MaxNotes \in Nat /\ MaxCrashes \in Nat

VARIABLES
  at,        \* connection -> where handle_socket / process_chat_message is
  agent,     \* connection -> it has built its Agent
  turn,      \* connection -> number of the turn it is in (0: none)
  holders,   \* session -> connections that hold its SessionGuard
  history,   \* session -> rows of the sessions table, oldest first
  meta,      \* session -> its session_metadata row
  turns,     \* turns begun
  killed,    \* ghost: turns a crash cut off
  crashes

vars == <<at, agent, turn, holders, history, meta, turns, killed, crashes>>

Lock == INSTANCE SessionLock

NoTurn == 0

-----------------------------------------------------------------------------
(* The session backend *)

\* is_session_archived, unarchive_session and append, as both callers chain them.
append(s, role, n, g) ==
  history' = [history EXCEPT ![s] = Append(@, [role |-> role, turn |-> n, guarded |-> g])]

unarchive_session(s) == meta' = [meta EXCEPT ![s].archived = FALSE]

set_session_state(s, state, n) ==
  meta' = [meta EXCEPT ![s].state = state, ![s].turn_id = n]

\* DELETE /api/sessions/{id}: the row of a session with messages is archived.
archive_session(s) ==
  /\ history[s] # <<>>
  /\ meta' = [meta EXCEPT ![s] = [state |-> "idle", turn_id |-> NoTurn, archived |-> TRUE]]
  /\ UNCHANGED <<at, agent, turn, holders, history, turns, killed, crashes>>

-----------------------------------------------------------------------------
(* handle_socket *)

Guarded(t) == t \in holders[SessionOf[t]]

\* The guard goes out of scope when the loop's arm ends, or the function returns.
drop_guard(t) ==
  IF Guarded(t) THEN Lock!Give(t, SessionOf[t]) ELSE UNCHANGED holders

connect(t) ==
  /\ at[t] = "closed"
  /\ at' = [at EXCEPT ![t] = "handshake"]
  /\ agent' = [agent EXCEPT ![t] = FALSE]
  /\ UNCHANGED <<turn, holders, history, meta, turns, killed, crashes>>

\* A connect frame, a frame that is not a message, or no frame for 5 seconds.
handshake(t) ==
  /\ at[t] = "handshake"
  /\ at' = [at EXCEPT ![t] = "loop"]
  /\ UNCHANGED <<agent, turn, holders, history, meta, turns, killed, crashes>>

\* The client is gone, or closes, between two turns.
disconnect(t) ==
  /\ at[t] \in {"handshake", "loop"}
  /\ at' = [at EXCEPT ![t] = "closed"]
  /\ UNCHANGED <<agent, turn, holders, history, meta, turns, killed, crashes>>

\* Persist the user message of a new turn, guarded or not.
user_message(t, g) ==
  /\ turns < MaxTurns
  /\ turns' = turns + 1
  /\ turn' = [turn EXCEPT ![t] = turns + 1]
  /\ unarchive_session(SessionOf[t])
  /\ append(SessionOf[t], "user", turns + 1, g)
  /\ at' = [at EXCEPT ![t] = "agent"]
  /\ UNCHANGED <<agent, killed, crashes>>

\* The first frame is a message already: its turn starts at once, without a guard.
first_message(t) ==
  /\ at[t] = "handshake"
  /\ user_message(t, FALSE)
  /\ UNCHANGED holders

\* A message in the loop waits for the session.
acquire(t) ==
  /\ at[t] = "loop"
  /\ turns < MaxTurns
  /\ at' = [at EXCEPT ![t] = "acquiring"]
  /\ UNCHANGED <<agent, turn, holders, history, meta, turns, killed, crashes>>

\* Mutant: the rejected message resets the session's state.
session_busy_Resets(t) ==
  /\ at[t] = "acquiring"
  /\ set_session_state(SessionOf[t], "idle", NoTurn)
  /\ at' = [at EXCEPT ![t] = "loop"]
  /\ UNCHANGED <<agent, turn, holders, history, turns, killed, crashes>>

\* QueueFull or Timeout: SESSION_BUSY is sent.
session_busy(t) ==
  /\ at[t] = "acquiring"
  /\ at' = [at EXCEPT ![t] = "loop"]
  /\ UNCHANGED <<agent, turn, holders, history, meta, turns, killed, crashes>>

\* Mutant: the turn starts whether or not the guard was granted.
acquired_NoGuard(t) ==
  /\ at[t] = "acquiring"
  /\ user_message(t, TRUE)
  /\ UNCHANGED holders

acquired(t) ==
  /\ at[t] = "acquiring"
  /\ Lock!Take(t, SessionOf[t])
  /\ user_message(t, TRUE)

\* Mutant: an early return that keeps the guard alive.
agent_failed_KeepsGuard(t) ==
  /\ at[t] = "agent" /\ ~agent[t]
  /\ at' = [at EXCEPT ![t] = "closed"]
  /\ turn' = [turn EXCEPT ![t] = NoTurn]
  /\ UNCHANGED <<agent, holders, history, meta, turns, killed, crashes>>

\* ensure_agent_for_session fails: handle_socket returns.
agent_failed(t) ==
  /\ at[t] = "agent" /\ ~agent[t]
  /\ at' = [at EXCEPT ![t] = "closed"]
  /\ drop_guard(t)
  /\ turn' = [turn EXCEPT ![t] = NoTurn]
  /\ UNCHANGED <<agent, history, meta, turns, killed, crashes>>

-----------------------------------------------------------------------------
(* process_chat_message *)

start_turn(t) ==
  /\ at[t] = "agent"
  /\ agent' = [agent EXCEPT ![t] = TRUE]
  /\ set_session_state(SessionOf[t], "running", turn[t])
  /\ at' = [at EXCEPT ![t] = "turn"]
  /\ UNCHANGED <<turn, holders, history, turns, killed, crashes>>

Notes(s) == Cardinality({i \in DOMAIN history[s] : history[s][i].role = "note"})

\* Mutant: steering is accepted whenever the connection is in a turn.
steer_Late(t) ==
  /\ at[t] \in {"turn", "reply"}
  /\ Notes(SessionOf[t]) < MaxNotes
  /\ append(SessionOf[t], "note", turn[t], Guarded(t))
  /\ UNCHANGED <<at, agent, turn, holders, meta, turns, killed, crashes>>

\* A steer frame while the turn's future is polled.
steer(t) ==
  /\ at[t] = "turn"
  /\ Notes(SessionOf[t]) < MaxNotes
  /\ append(SessionOf[t], "note", turn[t], Guarded(t))
  /\ UNCHANGED <<at, agent, turn, holders, meta, turns, killed, crashes>>

\* Mutant: a lost client leaves the loop without resetting the state.
stopped_NoReset(t) ==
  /\ at[t] = "turn"
  /\ at' = [at EXCEPT ![t] = "done"]
  /\ UNCHANGED <<agent, turn, holders, history, meta, turns, killed, crashes>>

\* A stop frame, a lost client, or the overall timeout cancels the turn.
stopped(t) ==
  /\ at[t] = "turn"
  /\ set_session_state(SessionOf[t], "idle", NoTurn)
  /\ at' = [at EXCEPT ![t] = "done"]
  /\ UNCHANGED <<agent, turn, holders, history, turns, killed, crashes>>

\* Ok(response): it is persisted, then the updates and `done` are sent ...
reply(t) ==
  /\ at[t] = "turn"
  /\ append(SessionOf[t], "assistant", turn[t], Guarded(t))
  /\ at' = [at EXCEPT ![t] = "reply"]
  /\ UNCHANGED <<agent, turn, holders, meta, turns, killed, crashes>>

\* ... and only then the state is idle.
set_idle(t) ==
  /\ at[t] = "reply"
  /\ set_session_state(SessionOf[t], "idle", NoTurn)
  /\ at' = [at EXCEPT ![t] = "done"]
  /\ UNCHANGED <<agent, turn, holders, history, turns, killed, crashes>>

\* Mutant: a state the readers of session_metadata do not know.
turn_failed_Misnamed(t) ==
  /\ at[t] = "turn"
  /\ set_session_state(SessionOf[t], "failed", turn[t])
  /\ at' = [at EXCEPT ![t] = "done"]
  /\ UNCHANGED <<agent, turn, holders, history, turns, killed, crashes>>

\* Err: the turn_id stays with the state.
turn_failed(t) ==
  /\ at[t] = "turn"
  /\ set_session_state(SessionOf[t], "error", turn[t])
  /\ at' = [at EXCEPT ![t] = "done"]
  /\ UNCHANGED <<agent, turn, holders, history, turns, killed, crashes>>

\* The last frames are sent, process_chat_message returns, the arm ends.
leave(t) ==
  /\ at[t] = "done"
  /\ drop_guard(t)
  /\ at' = [at EXCEPT ![t] = "loop"]
  /\ turn' = [turn EXCEPT ![t] = NoTurn]
  /\ UNCHANGED <<agent, history, meta, turns, killed, crashes>>

-----------------------------------------------------------------------------
\* From set_session_state("running") to the end of process_chat_message's writes.
Running(t) == at[t] \in {"turn", "reply"}

\* The gateway dies and restarts: only the database survives.
crash ==
  /\ crashes < MaxCrashes
  /\ crashes' = crashes + 1
  /\ killed' = killed \cup {turn[t] : t \in {u \in Task : Running(u)}}
  /\ at' = [t \in Task |-> "closed"]
  /\ agent' = [t \in Task |-> FALSE]
  /\ turn' = [t \in Task |-> NoTurn]
  /\ holders' = [s \in Session |-> {}]
  /\ UNCHANGED <<history, meta, turns>>

Init ==
  /\ at = [t \in Task |-> "closed"]
  /\ agent = [t \in Task |-> FALSE]
  /\ turn = [t \in Task |-> NoTurn]
  /\ Lock!Init
  /\ history = [s \in Session |-> <<>>]
  /\ meta = [s \in Session |-> [state |-> "idle", turn_id |-> NoTurn, archived |-> FALSE]]
  /\ turns = 0
  /\ killed = {}
  /\ crashes = 0

\* What the clients choose.
Client(t) ==
  \/ connect(t) \/ handshake(t) \/ disconnect(t)
  \/ first_message(t) \/ acquire(t) \/ steer(t)

\* What the gateway does by itself.
Server(t) ==
  \/ session_busy(t) \/ acquired(t) \/ agent_failed(t) \/ start_turn(t)
  \/ stopped(t) \/ reply(t) \/ set_idle(t) \/ turn_failed(t) \/ leave(t)

Next ==
  \/ \E t \in Task : Client(t) \/ Server(t)
  \/ \E s \in Session : archive_session(s)
  \/ crash

\* acquire answers within lock_timeout, a turn ends within its budget, and a frame
\* is sent or its connection breaks: a client that neither reads nor breaks the
\* connection is not assumed away by the code, it is assumed away here.
Fairness == \A t \in Task : WF_vars(Server(t))

Spec == Init /\ [][Next]_vars /\ Fairness

-----------------------------------------------------------------------------
(* Properties *)

Places == {"closed", "handshake", "loop", "acquiring", "agent", "turn", "reply", "done"}
InTurn(t) == at[t] \in {"agent", "turn", "reply", "done"}
Row == [role: {"user", "note", "assistant"}, turn: 1..MaxTurns, guarded: BOOLEAN]

TypeOK ==
  /\ at \in [Task -> Places]
  /\ agent \in [Task -> BOOLEAN]
  /\ turn \in [Task -> 0..MaxTurns]
  /\ holders \in [Session -> SUBSET Task]
  /\ DOMAIN history = Session /\ \A s \in Session : history[s] \in Seq(Row)
  /\ meta \in [Session -> [state: {"idle", "running", "error"}, turn_id: 0..MaxTurns,
                           archived: BOOLEAN]]
  /\ turns \in 0..MaxTurns
  /\ killed \subseteq 1..MaxTurns
  /\ crashes \in 0..MaxCrashes

\* "Serializes concurrent turns" (ws.rs, session_queue.rs), as far as the code
\* does: the messages of two guarded turns never mix in a session's history.
GuardedTurnsSerial ==
  \A s \in Session : LET h == history[s] IN
    \A i, j, k \in DOMAIN h :
      i < j /\ j < k /\ h[i].turn = h[k].turn /\ h[i].guarded /\ h[j].guarded
        => h[j].turn = h[i].turn

\* A turn's rows are one user message, then steering notes, then at most one reply:
\* a note is never persisted after the reply it can no longer steer (steer, reply).
TurnsInOrder ==
  \A s \in Session : LET h == history[s] IN
    \A i, j \in DOMAIN h :
      i < j /\ h[i].turn = h[j].turn => h[i].role # "assistant" /\ h[j].role # "user"

\* GET /api/sessions/running tells the truth: a session is "running" only while the
\* turn it names runs, or if a crash cut that turn off (set_session_state).
RunningIsLive ==
  \A s \in Session : meta[s].state = "running" =>
    \/ meta[s].turn_id \in killed
    \/ \E t \in Task : SessionOf[t] = s /\ Running(t) /\ turn[t] = meta[s].turn_id

\* No guard outlives its turn, on any way out of the loop's arm (handle_socket).
GuardScoped ==
  \A s \in Session : \A t \in holders[s] : SessionOf[t] = s /\ InTurn(t)

\* The turn a connection is in began with a guard.
BegunGuarded(t) ==
  \E i \in DOMAIN history[SessionOf[t]] : LET m == history[SessionOf[t]][i] IN
    m.turn = turn[t] /\ m.role = "user" /\ m.guarded

\* The session says that t's turn is the one that runs.
ShownRunning(t) ==
  /\ Running(t)
  /\ meta[SessionOf[t]].state = "running" /\ meta[SessionOf[t]].turn_id = turn[t]

\* The "running" of a guarded turn stays until that turn's own end: no other guarded
\* turn, rejected message or failed agent of the session clears or replaces it.
\* Only an archive or an unguarded turn may (set_session_state, archive_session).
RunningKept ==
  \A t \in Task : ShownRunning(t) /\ BegunGuarded(t) =>
    \/ ShownRunning(t)'
    \/ ~Running(t)'
    \/ meta'[SessionOf[t]].archived
    \/ \E u \in Task : SessionOf[u] = SessionOf[t] /\ InTurn(u) /\ ~BegunGuarded(u)

OthersKeepRunning == [][RunningKept]_vars

\* Whoever holds a session gives it back, so that a silent provider or tool never
\* blocks the session (ws_turn_timeout_budget_secs).
TurnEnds == \A t \in Task : Guarded(t) ~> ~Guarded(t)

\* What session_queue.rs says: "Each session gets at most one concurrent turn".
OneTurnPerSession ==
  \A t, u \in Task : InTurn(t) /\ InTurn(u) /\ SessionOf[t] = SessionOf[u] => t = u
=============================================================================
