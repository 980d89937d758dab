--------------------------- MODULE ChannelDispatch ---------------------------
(***************************************************************************)
(* The message dispatch loop of src/channels/mod.rs: it receives the       *)
(* inbound messages of every channel, debounces them, runs one worker task *)
(* per message under a semaphore, lets a newer message interrupt the       *)
(* in-flight request of its sender, and handles `/stop`.  A worker's       *)
(* process_channel_message is modelled by what it does to the sender's     *)
(* conversation history in memory; the session file behind it is not       *)
(* modelled.                                                               *)
(*                                                                         *)
(* A message is its number (see Debouncer), which also names its worker    *)
(* and serves as its task_id: the ids drawn from task_sequence are only    *)
(* compared for equality.  A message came in on a route, which fixes its   *)
(* conversation_history_key, its interruption_scope_key and whether its    *)
(* channel is the CLI.  What a message says is left to the worker: any     *)
(* message may turn out to be a runtime command or to be answered without  *)
(* the model.                                                              *)
(*                                                                         *)
(* Workers are tasks of a multi-threaded runtime: the steps between two    *)
(* awaits, lock sections or atomic operations are one action.  The release *)
(* profile aborts on panic, so no worker ends by one.                      *)
(***************************************************************************)
EXTENDS Debouncer, FiniteSets

CONSTANTS
  Route,        \* (channel, reply_target, sender, thread, scope) of a message
  ConvOf,       \* conversation_history_key
  ScopeOf,      \* interruption_scope_key
  CliRoute,     \* the routes of the channel "cli"
  Scope,
  Scenario,     \* the settings (debounce_ms > 0, interrupt_on_new_message,
                \* max_in_flight_messages) to consider, each with the routes on
                \* which the messages arrive, whether answers use tools, and a
                \* bound on the /stop messages
  MaxHistory,   \* max_history_messages
  CompactKeep,  \* CHANNEL_HISTORY_COMPACT_KEEP_MESSAGES
  KeepTools     \* keep_tool_context_turns, when answers use tools

ASSUME DispatchAssumption ==
  /\ ConvOf \in [Route -> Conv]
  /\ ScopeOf \in [Route -> Scope]
  /\ CliRoute \subseteq Route
  /\ Scenario \subseteq [debounce : BOOLEAN, interrupt : BOOLEAN,
                          permits : Nat \ {0}, route : [Msg -> Route],
                          tools : BOOLEAN, stops : Nat]
  /\ MaxHistory \in Nat \ {0}
  /\ CompactKeep \in Nat \ {0}
  /\ KeepTools \in Nat \ {0}

VARIABLES
  config,     \* the scenario of this run of the daemon
  loop,       \* what the dispatch loop is doing, and with which message
  received,   \* how many messages the loop has taken from the channel
  stops,      \* how many /stop messages it has taken
  content,    \* message -> the messages combined in it, once it is dispatched
  pc,         \* message -> where its worker is
  in_flight,  \* scope -> the registered worker (in_flight_by_sender)
  previous,   \* worker -> the worker that its registration replaced
  cancelled,  \* worker -> what cancelled its token
  done,       \* worker -> completion.done
  history,    \* conversation_histories
  fresh       \* pending_new_sessions

vars == <<entries, timer, result, config, loop, received, stops, content, pc,
          in_flight, previous, cancelled, done, history, fresh>>

loopVars == <<config, loop, received, stops>>
registry == <<in_flight, previous, cancelled, done>>
talk == <<history, fresh>>

-----------------------------------------------------------------------------
(* Types *)

\* Workers that hold a permit of the semaphore.
Running == {"spawned", "interrupting", "checking", "subscribing", "waiting",
            "processing", "preprocessing", "clearing", "recording", "preparing",
            "calling", "answering", "stripping", "ending", "marking", "notifying"}

\* The tool calls of an answer and their results are one turn, of role "tool".
Turn == [role : {"user", "tool", "assistant"}, of : Seq(Msg)]

TypeOK ==
  /\ DebouncerTypeOK
  /\ config \in Scenario
  /\ loop \in [at : {"recv", "acquire", "stopping", "joining", "returned"},
               msg : Msg \cup {NoMsg}]
  /\ received \in 0..MaxMessages
  /\ stops \in Nat
  /\ content \in [Msg -> Seq(Msg)]
  /\ pc \in [Msg -> {"none", "rx", "passed", "done"} \cup Running]
  /\ in_flight \in [Scope -> Msg \cup {NoMsg}]
  /\ previous \in [Msg -> Msg \cup {NoMsg}]
  /\ cancelled \in [Msg -> {"no", "newer", "stop"}]
  /\ done \in [Msg -> BOOLEAN]
  /\ history \in [Conv -> Seq(Turn)]
  /\ \A k \in Conv : Len(history[k]) <= MaxHistory
  /\ fresh \in SUBSET Conv

Init ==
  /\ DebouncerInit
  /\ config \in Scenario
  /\ loop = [at |-> "recv", msg |-> NoMsg]
  /\ received = 0
  /\ stops = 0
  /\ content = [i \in Msg |-> <<>>]
  /\ pc = [i \in Msg |-> "none"]
  /\ in_flight = [s \in Scope |-> NoMsg]
  /\ previous = [i \in Msg |-> NoMsg]
  /\ cancelled = [i \in Msg |-> "no"]
  /\ done = [i \in Msg |-> FALSE]
  /\ history = [k \in Conv |-> <<>>]
  /\ fresh = {}

-----------------------------------------------------------------------------
(* The semaphore and the stages of a worker *)

\* Mutant: a worker that has ended keeps its permit.
FreePermit_Leak ==
  Cardinality({i \in Msg : pc[i] \in Running \cup {"done"}}) < config.permits

FreePermit == Cardinality({i \in Msg : pc[i] \in Running}) < config.permits

conv(i) == ConvOf[config.route[i]]
scope(i) == ScopeOf[config.route[i]]
Registers(i) == config.route[i] \notin CliRoute

Goto(i, stage) == pc' = [pc EXCEPT ![i] = stage]

-----------------------------------------------------------------------------
(* run_message_dispatch_loop *)

\* The loop takes the next message, one that is not /stop, and submits it to
\* the debouncer or passes it through.
Receive ==
  LET i == received + 1
      debounced == config.debounce /\ Registers(i)
  IN /\ loop.at = "recv"
     /\ i \in Msg
     /\ received' = i
     /\ Goto(i, IF debounced THEN "rx" ELSE "passed")
     /\ IF debounced
          THEN debounce(i, conv(i)) /\ UNCHANGED <<loop, content>>
          ELSE /\ content' = [content EXCEPT ![i] = <<i>>]
               /\ loop' = [at |-> "acquire", msg |-> i]
               /\ UNCHANGED debounceVars
     /\ UNCHANGED <<config, stops>>
     /\ UNCHANGED registry
     /\ UNCHANGED talk

\* /stop, handled before the debouncer and the semaphore: the entry of its
\* scope is removed, and if there is one its token is cancelled (StopCancel).
ReceiveStop(r) ==
  /\ loop.at = "recv"
  /\ r \notin CliRoute
  /\ stops < config.stops
  /\ stops' = stops + 1
  /\ in_flight' = [in_flight EXCEPT ![ScopeOf[r]] = NoMsg]
  /\ loop' = IF in_flight[ScopeOf[r]] = NoMsg
               THEN loop
               ELSE [at |-> "stopping", msg |-> in_flight[ScopeOf[r]]]
  /\ UNCHANGED <<config, received, content, pc, previous, cancelled, done>>
  /\ UNCHANGED debounceVars
  /\ UNCHANGED talk

\* CancellationToken::cancel; the first reason is kept, for the properties.
cancel(i, why) ==
  cancelled' = [cancelled EXCEPT ![i] = IF @ = "no" THEN why ELSE @]

StopCancel ==
  /\ loop.at = "stopping"
  /\ cancel(loop.msg, "stop")
  /\ loop' = [at |-> "recv", msg |-> NoMsg]
  /\ UNCHANGED <<config, received, stops, content, pc, in_flight, previous, done>>
  /\ UNCHANGED debounceVars
  /\ UNCHANGED talk

\* The loop waits for a permit and spawns the worker of a passed-through message.
Spawn ==
  /\ loop.at = "acquire"
  /\ FreePermit
  /\ Goto(loop.msg, "spawned")
  /\ loop' = [at |-> "recv", msg |-> NoMsg]
  /\ UNCHANGED <<config, received, stops, content>>
  /\ UNCHANGED debounceVars
  /\ UNCHANGED registry
  /\ UNCHANGED talk

\* The channel listeners are gone: the loop joins every task it has spawned.
Close ==
  /\ loop.at = "recv"
  /\ loop' = [at |-> "joining", msg |-> NoMsg]
  /\ UNCHANGED <<config, received, stops, content, pc>>
  /\ UNCHANGED debounceVars
  /\ UNCHANGED registry
  /\ UNCHANGED talk

Ended(i) == pc[i] \in {"none", "done"} \/ (pc[i] = "rx" /\ Superseded(i))

Return ==
  /\ loop.at = "joining"
  /\ \A i \in Msg : Ended(i)
  /\ loop' = [at |-> "returned", msg |-> NoMsg]
  /\ UNCHANGED <<config, received, stops, content, pc>>
  /\ UNCHANGED debounceVars
  /\ UNCHANGED registry
  /\ UNCHANGED talk

-----------------------------------------------------------------------------
(* The debouncer's timers, and the task that awaits a combined message *)

TimerElapses(i) ==
  /\ Elapse(i)
  /\ UNCHANGED <<content, pc>>
  /\ UNCHANGED loopVars
  /\ UNCHANGED registry
  /\ UNCHANGED talk

TimerFires(i) ==
  /\ fire_debounced(i, conv(i))
  /\ UNCHANGED <<content, pc>>
  /\ UNCHANGED loopVars
  /\ UNCHANGED registry
  /\ UNCHANGED talk

\* The combined message has arrived and a permit is free.
DispatchCombined(i) ==
  /\ pc[i] = "rx"
  /\ result[i] # <<>>
  /\ FreePermit
  /\ content' = [content EXCEPT ![i] = result[i]]
  /\ Goto(i, "spawned")
  /\ UNCHANGED debounceVars
  /\ UNCHANGED loopVars
  /\ UNCHANGED registry
  /\ UNCHANGED talk

-----------------------------------------------------------------------------
(* dispatch_worker up to process_channel_message *)

\* Registration: one insert under the in-flight lock.
Register(i) ==
  /\ pc[i] = "spawned"
  /\ IF Registers(i)
       THEN /\ in_flight' = [in_flight EXCEPT ![scope(i)] = i]
            /\ IF config.interrupt /\ in_flight[scope(i)] # NoMsg
                 THEN /\ previous' = [previous EXCEPT ![i] = in_flight[scope(i)]]
                      /\ Goto(i, "interrupting")
                 ELSE Goto(i, "processing") /\ UNCHANGED previous
       ELSE Goto(i, "processing") /\ UNCHANGED <<in_flight, previous>>
  /\ UNCHANGED <<content, cancelled, done>>
  /\ UNCHANGED debounceVars
  /\ UNCHANGED loopVars
  /\ UNCHANGED talk

\* Mutant: the new worker does not wait for the one it cancels.
Interrupt_NoWait(i) ==
  /\ pc[i] = "interrupting"
  /\ cancel(previous[i], "newer")
  /\ Goto(i, "processing")
  /\ UNCHANGED <<content, in_flight, previous, done>>
  /\ UNCHANGED debounceVars
  /\ UNCHANGED loopVars
  /\ UNCHANGED talk

Interrupt(i) ==
  /\ pc[i] = "interrupting"
  /\ cancel(previous[i], "newer")
  /\ Goto(i, "checking")
  /\ UNCHANGED <<content, in_flight, previous, done>>
  /\ UNCHANGED debounceVars
  /\ UNCHANGED loopVars
  /\ UNCHANGED talk

\* completion.wait: the flag is loaded first, and the waiter is registered with
\* the Notify only afterwards.
WaitLoadsDone(i) ==
  /\ pc[i] = "checking"
  /\ Goto(i, IF done[previous[i]] THEN "processing" ELSE "subscribing")
  /\ UNCHANGED content
  /\ UNCHANGED debounceVars
  /\ UNCHANGED loopVars
  /\ UNCHANGED registry
  /\ UNCHANGED talk

WaitSubscribes(i) ==
  /\ pc[i] = "subscribing"
  /\ Goto(i, "waiting")
  /\ UNCHANGED content
  /\ UNCHANGED debounceVars
  /\ UNCHANGED loopVars
  /\ UNCHANGED registry
  /\ UNCHANGED talk

-----------------------------------------------------------------------------
(* The conversation history *)

UserTurn(i) == [role |-> "user", of |-> content[i]]
ToolTurn(i) == [role |-> "tool", of |-> content[i]]
AssistantTurn(i) == [role |-> "assistant", of |-> content[i]]

Newest(h, n) == IF Len(h) <= n THEN h ELSE SubSeq(h, Len(h) - n + 1, Len(h))

\* Mutant: the history is trimmed before the turn is appended.
append_turn_TrimsFirst(h, t) == Append(Newest(h, MaxHistory), t)

\* append_sender_turn
append_turn(h, t) == Newest(Append(h, t), MaxHistory)

expecting_user(n) == n = <<>> \/ Last(n).role = "assistant"

\* A turn that does not fit is merged into the turn before it, or dropped.
merge_turn(n, t) ==
  IF t.role = "tool" \/ expecting_user(n) = (t.role = "user")
    THEN Append(n, t)
    ELSE IF n = <<>> THEN n ELSE [n EXCEPT ![Len(n)].of = @ \o t.of]

\* normalize_cached_channel_turns: tool turns stay; a second assistant turn, or a
\* user turn where an answer is due, is merged into the turn before it; an assistant
\* turn at the beginning is dropped.
normalize(h) ==
  LET normalized[m \in 0..Len(h)] ==
        IF m = 0 THEN <<>> ELSE merge_turn(normalized[m - 1], h[m])
  IN normalized[Len(h)]

\* compact_sender_history
compact(h) == normalize(Newest(h, CompactKeep))

\* strip_old_tool_context: the tool turns up to the boundary go.  The boundary is the
\* user turn before the last KeepTools ones; without one it is the end of the history,
\* so that the tool turns of the first exchanges go at once.
boundary(h) ==
  LET users(n) == Cardinality({m \in n .. Len(h) : h[m].role = "user"})
      older == {n \in DOMAIN h : users(n) > KeepTools}
  IN IF older = {} THEN Len(h) ELSE Cardinality(older)

strip(h) ==
  LET kept[m \in 0..Len(h)] ==
        IF m = 0 THEN <<>>
        ELSE IF m <= boundary(h) /\ h[m].role = "tool" THEN kept[m - 1]
        ELSE Append(kept[m - 1], h[m])
  IN kept[Len(h)]

-----------------------------------------------------------------------------
(* process_channel_message *)

\* How the worker leaves process_channel_message.
Ends(i) == Goto(i, "ending")

ProcessFrame ==
  /\ UNCHANGED content
  /\ UNCHANGED debounceVars
  /\ UNCHANGED loopVars
  /\ UNCHANGED registry

\* The check at the head of the function: a message whose token is cancelled by
\* then is dropped without a trace.
Begin(i) ==
  /\ pc[i] = "processing"
  /\ Goto(i, IF cancelled[i] # "no" THEN "ending" ELSE "preprocessing")
  /\ UNCHANGED <<history, fresh>>
  /\ ProcessFrame

\* The message is dropped by a hook, resumes an approval, gets a canned reply,
\* is a runtime command other than /new, or has no provider.
EndAside(i) ==
  /\ pc[i] = "preprocessing"
  /\ Ends(i)
  /\ UNCHANGED <<history, fresh>>
  /\ ProcessFrame

\* /new: handle_runtime_command_if_needed clears the conversation and marks it.
NewSession(i) ==
  /\ pc[i] = "preprocessing"
  /\ Ends(i)
  /\ history' = [history EXCEPT ![conv(i)] = <<>>]
  /\ fresh' = fresh \cup {conv(i)}
  /\ ProcessFrame

\* The mark of /new is taken; one that is there has the cached turns cleared.
TakePendingNewSession(i) ==
  /\ pc[i] = "preprocessing"
  /\ fresh' = fresh \ {conv(i)}
  /\ Goto(i, IF conv(i) \in fresh THEN "clearing" ELSE "recording")
  /\ UNCHANGED history
  /\ ProcessFrame

ClearHistory(i) ==
  /\ pc[i] = "clearing"
  /\ history' = [history EXCEPT ![conv(i)] = <<>>]
  /\ Goto(i, "recording")
  /\ UNCHANGED fresh
  /\ ProcessFrame

\* The user turn is recorded before the model is called.
RecordUserTurn(i) ==
  /\ pc[i] = "recording"
  /\ history' = [history EXCEPT ![conv(i)] = append_turn(@, UserTurn(i))]
  /\ Goto(i, "preparing")
  /\ UNCHANGED fresh
  /\ ProcessFrame

\* The first poll of the select: a token that is already cancelled wins, and the
\* tool loop checks it too before it calls the model.
CallModel(i) ==
  /\ pc[i] = "preparing"
  /\ Goto(i, IF cancelled[i] # "no" THEN "ending" ELSE "calling")
  /\ UNCHANGED <<history, fresh>>
  /\ ProcessFrame

\* The token ends the select, or the tool loop returns because of it.
EndCancelled(i) ==
  /\ pc[i] = "calling"
  /\ cancelled[i] # "no"
  /\ Ends(i)
  /\ UNCHANGED <<history, fresh>>
  /\ ProcessFrame

\* An answer is recorded and sent, the tool turn it needed first.  The token is not
\* looked at again, so the answer of a request that was cancelled a moment before is
\* recorded too.
RecordToolTurn(i) ==
  /\ config.tools
  /\ pc[i] = "calling"
  /\ history' = [history EXCEPT ![conv(i)] = append_turn(@, ToolTurn(i))]
  /\ Goto(i, "answering")
  /\ UNCHANGED fresh
  /\ ProcessFrame

EndAnswered(i) ==
  /\ pc[i] \in {"calling", "answering"}
  /\ history' = [history EXCEPT ![conv(i)] = append_turn(@, AssistantTurn(i))]
  /\ IF config.tools THEN Goto(i, "stripping") ELSE Ends(i)
  /\ UNCHANGED fresh
  /\ ProcessFrame

EndStripped(i) ==
  /\ pc[i] = "stripping"
  /\ history' = [history EXCEPT ![conv(i)] = strip(@)]
  /\ Ends(i)
  /\ UNCHANGED fresh
  /\ ProcessFrame

\* The on_message_sending hook suppresses the answer.
EndSuppressed(i) ==
  /\ pc[i] = "calling"
  /\ Ends(i)
  /\ UNCHANGED <<history, fresh>>
  /\ ProcessFrame

\* The context window is exceeded.
EndCompacted(i) ==
  /\ pc[i] = "calling"
  /\ cancelled[i] = "no"
  /\ Ends(i)
  /\ history' = [history EXCEPT ![conv(i)] = compact(@)]
  /\ UNCHANGED fresh
  /\ ProcessFrame

\* Another error: the orphan user turn is taken back when the error asks for it
\* and that turn is still the newest (rollback_orphan_user_turn), and closed by
\* a marker otherwise.
EndFailed(i, rollback) ==
  LET h == history[conv(i)]
      orphan == h # <<>> /\ Last(h) = UserTurn(i)
  IN /\ pc[i] = "calling"
     /\ cancelled[i] = "no"
     /\ Ends(i)
     /\ history' = [history EXCEPT ![conv(i)] =
                      IF rollback /\ orphan THEN Front(h)
                                            ELSE append_turn(h, AssistantTurn(i))]
     /\ UNCHANGED fresh
     /\ ProcessFrame

\* The timeout closes the orphan user turn, cancelled or not.
EndTimeout(i) ==
  /\ pc[i] = "calling"
  /\ Ends(i)
  /\ history' = [history EXCEPT ![conv(i)] = append_turn(@, AssistantTurn(i))]
  /\ UNCHANGED fresh
  /\ ProcessFrame

-----------------------------------------------------------------------------
(* dispatch_worker after process_channel_message *)

\* Mutant: the entry is removed without comparing its task_id.
Unregister_NoCheck(i) ==
  /\ pc[i] = "ending"
  /\ in_flight' = IF Registers(i) THEN [in_flight EXCEPT ![scope(i)] = NoMsg] ELSE in_flight
  /\ Goto(i, "marking")
  /\ UNCHANGED <<content, previous, cancelled, done>>
  /\ UNCHANGED debounceVars
  /\ UNCHANGED loopVars
  /\ UNCHANGED talk

\* The entry is removed, unless a newer worker or /stop has replaced it.
Unregister(i) ==
  /\ pc[i] = "ending"
  /\ in_flight' = IF Registers(i) /\ in_flight[scope(i)] = i
                    THEN [in_flight EXCEPT ![scope(i)] = NoMsg]
                    ELSE in_flight
  /\ Goto(i, "marking")
  /\ UNCHANGED <<content, previous, cancelled, done>>
  /\ UNCHANGED debounceVars
  /\ UNCHANGED loopVars
  /\ UNCHANGED talk

\* mark_done: the flag, then notify_waiters, which wakes the waiters that are
\* registered by then and no others.  The permit goes with the worker.
MarkStoresDone(i) ==
  /\ pc[i] = "marking"
  /\ done' = [done EXCEPT ![i] = TRUE]
  /\ Goto(i, "notifying")
  /\ UNCHANGED <<content, in_flight, previous, cancelled>>
  /\ UNCHANGED debounceVars
  /\ UNCHANGED loopVars
  /\ UNCHANGED talk

MarkNotifies(i) ==
  /\ pc[i] = "notifying"
  /\ pc' = [j \in Msg |->
              IF j = i THEN "done"
              ELSE IF pc[j] = "waiting" /\ previous[j] = i THEN "processing"
              ELSE pc[j]]
  /\ UNCHANGED content
  /\ UNCHANGED debounceVars
  /\ UNCHANGED loopVars
  /\ UNCHANGED registry
  /\ UNCHANGED talk

-----------------------------------------------------------------------------
(* Specification *)

Loop == Receive \/ (\E r \in Route : ReceiveStop(r)) \/ StopCancel \/ Spawn \/ Close \/ Return

Timer(i) == TimerElapses(i) \/ TimerFires(i)

Process(i) ==
  \/ Begin(i) \/ EndAside(i) \/ NewSession(i)
  \/ TakePendingNewSession(i) \/ ClearHistory(i) \/ RecordUserTurn(i)
  \/ CallModel(i) \/ EndCancelled(i) \/ EndSuppressed(i)
  \/ RecordToolTurn(i) \/ EndAnswered(i) \/ EndStripped(i)
  \/ EndCompacted(i) \/ EndTimeout(i)
  \/ \E rollback \in BOOLEAN : EndFailed(i, rollback)

Worker(i) ==
  \/ DispatchCombined(i) \/ Register(i) \/ Interrupt(i)
  \/ WaitLoadsDone(i) \/ WaitSubscribes(i)
  \/ Process(i)
  \/ Unregister(i) \/ MarkStoresDone(i) \/ MarkNotifies(i)

Next == Loop \/ \E i \in Msg : Timer(i) \/ Worker(i)

\* The runtime polls every task that can go on; a timer fires; the model call
\* is under a timeout, so every call ends.
Fairness ==
  /\ WF_vars(StopCancel)
  /\ WF_vars(Spawn)
  /\ WF_vars(Return)
  /\ \A i \in Msg : WF_vars(Timer(i)) /\ WF_vars(Worker(i))

Spec == Init /\ [][Next]_vars /\ Fairness

-----------------------------------------------------------------------------
(* Properties *)

\* Where the text of message m is: in an entry of the debouncer, in the combined
\* text on its way to the newest receiver, or with the worker that processes it.
Holders(m) ==
  {<<"entry", k>> : k \in {c \in Conv : m \in Range(entries[c].messages)}}
    \cup {<<"worker", i>> : i \in {w \in Msg : m \in Range(content[w] \o result[w])}}

\* Debouncing neither loses nor duplicates a message, whichever of an aborted
\* timer and the next message comes first (debounce.rs:77): the text of every
\* received message is in exactly one place, and a combined message has its
\* texts in the order of arrival and is handled under its newest message.
EveryMessageOnce ==
  /\ \A m \in 1..received : \E h \in Holders(m) : Holders(m) = {h}
  /\ \A i \in Msg : LET c == IF content[i] = <<>> THEN result[i] ELSE content[i]
                    IN /\ \A a, b \in DOMAIN c : a < b => c[a] < c[b]
                       /\ c # <<>> => Last(c) = i

\* Registered workers that a newer message or /stop may still have to cancel.
Registered == Running \ {"spawned", "marking", "notifying"}

\* The in-flight table is exact although workers register, end and are stopped
\* in any order (mod.rs:4211): an entry is always the entry of a worker that has
\* not ended, and when newer messages interrupt, every registered worker that
\* nobody has cancelled or is about to cancel is the entry of its scope, so that
\* the next message or /stop reaches it.
InFlightExact ==
  /\ \A s \in Scope : in_flight[s] # NoMsg =>
       pc[in_flight[s]] \in Registered /\ scope(in_flight[s]) = s
  /\ config.interrupt =>
       \A i \in Msg :
         pc[i] \in Registered /\ Registers(i) /\ cancelled[i] = "no" =>
           \/ in_flight[scope(i)] = i
           \/ \E j \in Msg : pc[j] = "interrupting" /\ previous[j] = i
           \/ loop.at = "stopping" /\ loop.msg = i

\* A conversation all of whose messages share one interruption scope.
OneScope(k) ==
  /\ \E s \in Scope : \A r \in Route : ConvOf[r] = k => ScopeOf[r] = s
  /\ \A r \in CliRoute : ConvOf[r] # k

\* With interruption, and before the first /stop, a conversation never mixes two
\* requests: every assistant turn (an answer or a closing marker) comes directly
\* after the user turn it belongs to, or after the tool turn that does, because a
\* newer worker waits for the one it interrupts (mod.rs:4230).
ReplyFollowsItsTurn ==
  config.interrupt /\ stops = 0 =>
    \A k \in {c \in Conv : OneScope(c)} :
      \A n \in 2..Len(history[k]) :
        LET t == history[k][n]
            before == history[k][n - 1]
        IN t.role # "user" =>
             /\ before.role = "user" \/ (t.role = "assistant" /\ before.role = "tool")
             /\ Last(before.of) = Last(t.of)

\* A worker that waits for a completion that was announced before it subscribed.
LostWakeup(j) == pc[j] = "waiting" /\ pc[previous[j]] = "done"

\* Every message the loop takes is dealt with in the end, unless a waiter missed
\* the completion of the request it interrupted (mod.rs:436): nothing else (the
\* semaphore, the debounce timers, the interruption of the interrupters) leaves
\* a message hanging.
SettledUnlessWakeupLost ==
  \A i \in Msg : (i <= received) ~> (Ended(i) \/ \E j \in Msg : LostWakeup(j))
=============================================================================
