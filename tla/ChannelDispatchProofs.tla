------------------------- MODULE ChannelDispatchProofs -------------------------
(***************************************************************************)
(* Theorems about ChannelDispatch, for every set of routes, scenarios and  *)
(* messages: debouncing keeps every message, and the in-flight table is    *)
(* exact.  What a worker writes to the history plays no part in either, so *)
(* all it does inside process_channel_message is one kind of step here.    *)
(***************************************************************************)
EXTENDS ChannelDispatch, TLAPS

\* TypeOK, but for the history.
Types ==
  /\ DebouncerTypeOK
  /\ config \in Scenario
  /\ loop \in [at : {"recv", "acquire", "stopping", "joining", "returned"},
               msg : Msg \cup {NoMsg}]
  /\ received \in 0..MaxMessages
  /\ content \in [Msg -> Seq(Msg)]
  /\ pc \in [Msg -> {"none", "rx", "passed", "done"} \cup Running]
  /\ in_flight \in [Scope -> Msg \cup {NoMsg}]
  /\ previous \in [Msg -> Msg \cup {NoMsg}]
  /\ cancelled \in [Msg -> {"no", "newer", "stop"}]
  /\ done \in [Msg -> BOOLEAN]

\* A message that has not been received has left no trace.
Unreceived ==
  \A i \in Msg : i > received => pc[i] = "none" /\ content[i] = <<>> /\ result[i] = <<>>

\* The message for which the loop waits for a permit has no worker yet.
LoopMessage == loop.at = "acquire" => loop.msg \in Msg /\ pc[loop.msg] = "passed"

\* Only workers that register are in the table.
EntriesRegister == \A s \in Scope : in_flight[s] # NoMsg => Registers(in_flight[s])

Increasing(q) == \A a, b \in DOMAIN q : a < b => q[a] < q[b]

\* The task of the newest message of an entry waits for its combined text.
Awaited ==
  \A k \in Conv : HasEntry(k) =>
    /\ pc[entries[k].result_tx] = "rx"
    /\ result[entries[k].result_tx] = <<>>
    /\ Last(entries[k].messages) = entries[k].result_tx
    /\ Increasing(entries[k].messages)

EmptyUntilDispatched == \A i \in Msg : pc[i] = "rx" => content[i] = <<>>

\* The text of message m is in the entry of k; with worker i.
InEntry(m, k) == m \in Range(entries[k].messages)
With(m, i) == m \in Range(content[i]) \/ m \in Range(result[i])

\* Texts are those of received messages ...
OnlyReceived ==
  \A m \in Msg : /\ \A k \in Conv : InEntry(m, k) => m <= received
                 /\ \A i \in Msg : With(m, i) => m <= received

\* ... and each of these is in one place.
OnePlace ==
  \A m \in 1..received :
    /\ (\E k \in Conv : InEntry(m, k)) \/ (\E i \in Msg : With(m, i))
    /\ \A k, c \in Conv : InEntry(m, k) /\ InEntry(m, c) => k = c
    /\ \A i, j \in Msg : With(m, i) /\ With(m, j) => i = j
    /\ \A k \in Conv, i \in Msg : ~(InEntry(m, k) /\ With(m, i))

Combined ==
  \A i \in Msg : LET c == IF content[i] = <<>> THEN result[i] ELSE content[i]
                 IN Increasing(c) /\ (c # <<>> => Last(c) = i)

\* What the debouncer and the texts need ...
TextInv == /\ Awaited /\ EmptyUntilDispatched /\ OnlyReceived /\ OnePlace /\ Combined

\* ... and what the in-flight table needs.
TableInv == EntriesRegister /\ InFlightExact

IInv == Types /\ Unreceived /\ LoopMessage /\ TextInv /\ TableInv

-----------------------------------------------------------------------------
(* Sequences *)

LEMMA RangeOf ==
  ASSUME NEW q, NEW m
  PROVE  m \in Range(q) <=> \E n \in DOMAIN q : q[n] = m
BY DEF Range

LEMMA RangeEmpty == ASSUME NEW m PROVE m \notin Range(<<>>)
BY DEF Range

LEMMA RangeSingle == ASSUME NEW m, NEW i PROVE m \in Range(<<i>>) <=> m = i
BY DEF Range

LEMMA RangeAppend ==
  ASSUME NEW S, NEW q \in Seq(S), NEW i \in S, NEW m
  PROVE  m \in Range(Append(q, i)) <=> m \in Range(q) \/ m = i
<1>1. Append(q, i) \in Seq(S) /\ Len(Append(q, i)) = Len(q) + 1
  OBVIOUS
<1>2. \A n \in 1..Len(q) : Append(q, i)[n] = q[n]
  OBVIOUS
<1>3. Append(q, i)[Len(q) + 1] = i
  OBVIOUS
<1>4. DOMAIN Append(q, i) = 1..(Len(q) + 1) /\ DOMAIN q = 1..Len(q) /\ Len(q) \in Nat
  BY <1>1
<1>5. ASSUME m \in Range(Append(q, i)) PROVE m \in Range(q) \/ m = i
  <2>1. PICK n \in 1..(Len(q) + 1) : Append(q, i)[n] = m
    BY <1>4, <1>5, RangeOf
  <2>2. CASE n = Len(q) + 1
    BY <1>3, <2>1, <2>2
  <2>3. CASE n # Len(q) + 1
    <3>1. n \in 1..Len(q)
      BY <1>4, <2>3
    <3> QED BY <1>2, <1>4, <2>1, <3>1, RangeOf
  <2> QED BY <2>2, <2>3
<1>6. ASSUME m \in Range(q) PROVE m \in Range(Append(q, i))
  <2>1. PICK n \in 1..Len(q) : q[n] = m
    BY <1>4, <1>6, RangeOf
  <2>2. n \in 1..(Len(q) + 1) /\ Append(q, i)[n] = m
    BY <1>2, <1>4, <2>1
  <2> QED BY <1>4, <2>2, RangeOf
<1>7. ASSUME m = i PROVE m \in Range(Append(q, i))
  <2>1. Len(q) + 1 \in DOMAIN Append(q, i) /\ Append(q, i)[Len(q) + 1] = m
    BY <1>3, <1>4, <1>7
  <2> QED BY <2>1, RangeOf
<1> QED BY <1>5, <1>6, <1>7

LEMMA RangeConcat ==
  ASSUME NEW S, NEW p \in Seq(S), NEW q \in Seq(S), NEW m
  PROVE  m \in Range(p \o q) <=> m \in Range(p) \/ m \in Range(q)
<1>1. /\ DOMAIN (p \o q) = 1..(Len(p) + Len(q))
      /\ DOMAIN p = 1..Len(p) /\ DOMAIN q = 1..Len(q)
      /\ Len(p) \in Nat /\ Len(q) \in Nat
  OBVIOUS
<1>2. \A n \in 1..Len(p) : (p \o q)[n] = p[n]
  OBVIOUS
<1>3. \A n \in 1..Len(q) : (p \o q)[Len(p) + n] = q[n]
  OBVIOUS
<1>4. ASSUME m \in Range(p \o q) PROVE m \in Range(p) \/ m \in Range(q)
  <2>1. PICK n \in 1..(Len(p) + Len(q)) : (p \o q)[n] = m
    BY <1>1, <1>4, RangeOf
  <2>2. CASE n <= Len(p)
    BY <1>1, <1>2, <2>1, <2>2, RangeOf
  <2>3. CASE n > Len(p)
    <3>1. n - Len(p) \in 1..Len(q) /\ Len(p) + (n - Len(p)) = n
      BY <1>1, <2>3
    <3> QED BY <1>1, <1>3, <2>1, <3>1, RangeOf
  <2> QED BY <1>1, <2>2, <2>3
<1>5. ASSUME m \in Range(p) \/ m \in Range(q) PROVE m \in Range(p \o q)
  <2>1. CASE m \in Range(p)
    <3>1. PICK n \in 1..Len(p) : p[n] = m
      BY <1>1, <2>1, RangeOf
    <3>2. n \in 1..(Len(p) + Len(q)) /\ (p \o q)[n] = m
      BY <1>1, <1>2, <3>1
    <3> QED BY <1>1, <3>2, RangeOf
  <2>2. CASE m \in Range(q)
    <3>1. PICK n \in 1..Len(q) : q[n] = m
      BY <1>1, <2>2, RangeOf
    <3>2. Len(p) + n \in 1..(Len(p) + Len(q))
      BY <1>1
    <3> QED BY <1>1, <1>3, <3>1, <3>2, RangeOf
  <2> QED BY <1>5, <2>1, <2>2
<1> QED BY <1>4, <1>5

LEMMA AppendIncreasing ==
  ASSUME NEW q \in Seq(Msg), NEW i \in Msg, Increasing(q),
         \A m \in Msg : m \in Range(q) => m < i
  PROVE  /\ Increasing(Append(q, i))
         /\ Last(Append(q, i)) = i
         /\ Append(q, i) # <<>>
         /\ Append(q, i) \in Seq(Msg)
<1>1. /\ DOMAIN Append(q, i) = 1..(Len(q) + 1) /\ DOMAIN q = 1..Len(q)
      /\ Len(q) \in Nat /\ Len(Append(q, i)) = Len(q) + 1
      /\ Append(q, i) \in Seq(Msg)
  OBVIOUS
<1>2. \A n \in 1..Len(q) : Append(q, i)[n] = q[n] /\ q[n] \in Msg
  OBVIOUS
<1>3. Append(q, i)[Len(q) + 1] = i
  OBVIOUS
<1>4. ASSUME NEW a \in 1..(Len(q) + 1), NEW b \in 1..(Len(q) + 1), a < b
      PROVE  Append(q, i)[a] < Append(q, i)[b]
  <2>1. a \in 1..Len(q)
    BY <1>1, <1>4
  <2>2. CASE b = Len(q) + 1
    <3>1. q[a] \in Range(q)
      BY <1>1, <2>1, RangeOf
    <3> QED BY <1>2, <1>3, <2>1, <2>2, <3>1
  <2>3. CASE b # Len(q) + 1
    <3>1. b \in 1..Len(q)
      BY <1>1, <2>3
    <3> QED BY <1>1, <1>2, <1>4, <2>1, <3>1 DEF Increasing
  <2> QED BY <2>2, <2>3
<1>5. Append(q, i) # <<>>
  BY <1>1
<1> QED BY <1>1, <1>3, <1>4, <1>5 DEF Increasing, Last

LEMMA LastInRange ==
  ASSUME NEW q \in Seq(Msg), q # <<>>
  PROVE  Last(q) \in Range(q) /\ Last(q) \in Msg
<1>1. Len(q) \in DOMAIN q /\ q[Len(q)] \in Msg
  OBVIOUS
<1> QED BY <1>1, RangeOf DEF Last

-----------------------------------------------------------------------------
(* Kinds of steps *)

\* A worker goes on and leaves the texts, the loop and the table alone.
Moves(i) ==
  /\ pc[i] \in Registered \ {"interrupting"}
  /\ \E stage \in Registered \ {"interrupting"} : pc' = [pc EXCEPT ![i] = stage]
  /\ UNCHANGED <<entries, timer, result, config, loop, received, content, in_flight,
                 previous, cancelled, done>>

LEMMA MoveByGoto ==
  ASSUME NEW i \in Msg, ProcessFrame,
         pc[i] \in Registered \ {"interrupting"},
         NEW stage \in Registered \ {"interrupting"}, Goto(i, stage)
  PROVE  Moves(i)
BY DEF Moves, Goto, ProcessFrame, debounceVars, loopVars, registry

\* All that happens in process_channel_message is of this kind.
LEMMA ProcessMoves ==
  ASSUME NEW i \in Msg, Process(i)
  PROVE  Moves(i)
<1> USE DEF Registered, Running
<1>1. CASE Begin(i)
  BY <1>1, MoveByGoto DEF Begin
<1>2. CASE EndAside(i)
  BY <1>2, MoveByGoto DEF EndAside, Ends
<1>3. CASE NewSession(i)
  BY <1>3, MoveByGoto DEF NewSession, Ends
<1>4. CASE TakePendingNewSession(i)
  BY <1>4, MoveByGoto DEF TakePendingNewSession
<1>5. CASE ClearHistory(i)
  BY <1>5, MoveByGoto DEF ClearHistory
<1>6. CASE RecordUserTurn(i)
  BY <1>6, MoveByGoto DEF RecordUserTurn
<1>7. CASE CallModel(i)
  BY <1>7, MoveByGoto DEF CallModel
<1>8. CASE EndCancelled(i)
  BY <1>8, MoveByGoto DEF EndCancelled, Ends
<1>9. CASE EndSuppressed(i)
  BY <1>9, MoveByGoto DEF EndSuppressed, Ends
<1>10. CASE RecordToolTurn(i)
  BY <1>10, MoveByGoto DEF RecordToolTurn
<1>11. CASE EndAnswered(i)
  BY <1>11, MoveByGoto DEF EndAnswered, Ends
<1>12. CASE EndStripped(i)
  BY <1>12, MoveByGoto DEF EndStripped, Ends
<1>13. CASE EndCompacted(i)
  BY <1>13, MoveByGoto DEF EndCompacted, Ends
<1>14. CASE EndTimeout(i)
  BY <1>14, MoveByGoto DEF EndTimeout, Ends
<1>15. CASE \E rollback \in BOOLEAN : EndFailed(i, rollback)
  BY <1>15, MoveByGoto DEF EndFailed, Ends
<1> QED
  BY <1>1, <1>2, <1>3, <1>4, <1>5, <1>6, <1>7, <1>8, <1>9, <1>10, <1>11, <1>12,
     <1>13, <1>14, <1>15 DEF Process

LEMMA WaitMoves ==
  ASSUME NEW i \in Msg, WaitLoadsDone(i) \/ WaitSubscribes(i)
  PROVE  Moves(i)
<1> USE DEF Registered, Running
<1>1. CASE WaitLoadsDone(i)
  BY <1>1 DEF WaitLoadsDone, Moves, Goto, debounceVars, loopVars, registry
<1>2. CASE WaitSubscribes(i)
  BY <1>2 DEF WaitSubscribes, Moves, Goto, debounceVars, loopVars, registry
<1> QED BY <1>1, <1>2

\* The text of every message stays where it is, and no message starts or stops
\* to wait for its combined text.
Calm ==
  /\ UNCHANGED <<config, entries, result, content, received>>
  /\ \A m \in Msg : pc'[m] = pc[m] \/ {pc[m], pc'[m]} \cap {"none", "rx"} = {}

\* One worker whose pc changes, and not from or to "none" or "rx".
LEMMA CalmByGoto ==
  ASSUME Types, NEW i \in Msg, NEW stage, Goto(i, stage),
         pc[i] \notin {"none", "rx"}, stage \notin {"none", "rx"},
         UNCHANGED <<config, entries, result, content, received>>
  PROVE  Calm
BY DEF Calm, Goto, Types

LEMMA CalmSteps ==
  ASSUME Types, LoopMessage, Next
  PROVE  \/ Calm
         \/ Receive
         \/ \E i \in Msg : TimerFires(i) \/ DispatchCombined(i)
<1> USE DEF debounceVars, loopVars, registry
<1>1. ASSUME NEW r \in Route, ReceiveStop(r) PROVE Calm
  BY <1>1 DEF ReceiveStop, Calm
<1>2. CASE StopCancel
  BY <1>2 DEF StopCancel, Calm
<1>3. CASE Spawn
  BY <1>3, CalmByGoto DEF Spawn, LoopMessage
<1>4. CASE Close \/ Return
  BY <1>4 DEF Close, Return, Calm
<1>5. ASSUME NEW i \in Msg, TimerElapses(i) PROVE Calm
  BY <1>5 DEF TimerElapses, Elapse, Calm
<1>6. ASSUME NEW i \in Msg, Register(i) PROVE Calm
  BY <1>6, CalmByGoto DEF Register
<1>7. ASSUME NEW i \in Msg, Interrupt(i) PROVE Calm
  BY <1>7, CalmByGoto DEF Interrupt
<1>8. ASSUME NEW i \in Msg, Moves(i) PROVE Calm
  BY <1>8, CalmByGoto DEF Moves, Goto, Registered, Running
<1>9. ASSUME NEW i \in Msg, Unregister(i) PROVE Calm
  BY <1>9, CalmByGoto DEF Unregister
<1>10. ASSUME NEW i \in Msg, MarkStoresDone(i) PROVE Calm
  BY <1>10, CalmByGoto DEF MarkStoresDone
<1>11. ASSUME NEW i \in Msg, MarkNotifies(i) PROVE Calm
  BY <1>11 DEF MarkNotifies, Calm
<1> QED
  BY <1>1, <1>2, <1>3, <1>4, <1>5, <1>6, <1>7, <1>8, <1>9, <1>10, <1>11,
     ProcessMoves, WaitMoves DEF Next, Loop, Timer, Worker

-----------------------------------------------------------------------------
(* Types *)

PC == {"none", "rx", "passed", "done"} \cup Running

LEMMA GotoTypes ==
  ASSUME Types, NEW i \in Msg, NEW stage \in PC, Goto(i, stage)
  PROVE  pc' \in [Msg -> PC]
BY DEF Types, Goto, PC

LEMMA MovesTypes ==
  ASSUME Types, NEW i \in Msg, Moves(i)
  PROVE  Types'
<1>1. PICK stage \in Registered \ {"interrupting"} : Goto(i, stage)
  BY DEF Moves, Goto
<1>2. pc' \in [Msg -> PC]
  BY <1>1, GotoTypes DEF Registered, PC
<1> QED BY <1>2 DEF Moves, Types, DebouncerTypeOK, PC

LEMMA DebounceTypes ==
  ASSUME DebouncerTypeOK, NEW i \in Msg, NEW k \in Conv, debounce(i, k)
  PROVE  DebouncerTypeOK'
<1>1. Append(entries[k].messages, i) \in Seq(Msg)
  BY DEF DebouncerTypeOK
<1>2. entries' \in [Conv -> [messages : Seq(Msg), result_tx : Msg \cup {NoMsg},
                             timer_handle : Msg \cup {NoMsg}]]
  BY <1>1 DEF debounce, DebouncerTypeOK
<1>3. timer' \in [Msg -> {"none", "sleeping", "awake", "ended"}]
  <2>1. CASE HasEntry(k)
    BY <2>1 DEF debounce, DebouncerTypeOK, AfterAbort
  <2>2. CASE ~HasEntry(k)
    BY <2>2 DEF debounce, DebouncerTypeOK
  <2> QED BY <2>1, <2>2
<1> QED BY <1>2, <1>3 DEF debounce, DebouncerTypeOK

LEMMA FireTypes ==
  ASSUME DebouncerTypeOK, NEW i \in Msg, NEW k \in Conv, fire_debounced(i, k)
  PROVE  DebouncerTypeOK'
<1>1. NoEntry \in [messages : Seq(Msg), result_tx : Msg \cup {NoMsg},
                   timer_handle : Msg \cup {NoMsg}]
  BY DEF NoEntry
<1> QED BY <1>1 DEF fire_debounced, DebouncerTypeOK

LEMMA ConvOfMessage ==
  ASSUME Types, NEW i \in Msg
  PROVE  conv(i) \in Conv /\ scope(i) \in Scope
BY DispatchAssumption DEF Types, conv, scope

LEMMA TypesStep ==
  ASSUME Types, LoopMessage, Next
  PROVE  Types'
<1> USE DEF debounceVars, loopVars, registry, PC
<1>1. CASE Receive
  <2> DEFINE i == received + 1
  <2>1. i \in Msg /\ received' = i /\ config' = config /\ received' \in 0..MaxMessages
    BY <1>1, DebouncerAssumption DEF Receive, Msg
  <2>2. pc' \in [Msg -> PC]
    BY <1>1, <2>1, GotoTypes DEF Receive
  <2>3. DebouncerTypeOK'
    <3>1. CASE config.debounce /\ Registers(i)
      BY <1>1, <2>1, <3>1, ConvOfMessage, DebounceTypes DEF Receive, Types
    <3>2. CASE ~(config.debounce /\ Registers(i))
      BY <1>1, <3>2 DEF Receive, Types, DebouncerTypeOK
    <3> QED BY <3>1, <3>2
  <2>4. /\ content' \in [Msg -> Seq(Msg)]
        /\ loop' \in [at : {"recv", "acquire", "stopping", "joining", "returned"},
                      msg : Msg \cup {NoMsg}]
    <3>1. <<i>> \in Seq(Msg)
      BY <2>1
    <3> HIDE DEF i
    <3>2. CASE content' = content /\ loop' = loop
      BY <3>2 DEF Types
    <3>3. CASE /\ content' = [content EXCEPT ![i] = <<i>>]
               /\ loop' = [at |-> "acquire", msg |-> i]
      BY <2>1, <3>1, <3>3 DEF Types
    <3> QED BY <1>1, <3>2, <3>3 DEF Receive, i
  <2> QED BY <1>1, <2>1, <2>2, <2>3, <2>4 DEF Receive, Types
<1>2. ASSUME NEW r \in Route, ReceiveStop(r) PROVE Types'
  <2>1. ScopeOf[r] \in Scope
    BY DispatchAssumption
  <2> QED BY <1>2, <2>1 DEF ReceiveStop, Types, DebouncerTypeOK
<1>3. CASE StopCancel
  BY <1>3 DEF StopCancel, cancel, Types, DebouncerTypeOK
<1>4. CASE Spawn
  <2>1. pc' \in [Msg -> PC]
    BY <1>4, GotoTypes DEF Spawn, LoopMessage, Running
  <2> QED BY <1>4, <2>1 DEF Spawn, Types, DebouncerTypeOK
<1>5. CASE Close \/ Return
  BY <1>5 DEF Close, Return, Types, DebouncerTypeOK
<1>6. ASSUME NEW i \in Msg, TimerElapses(i) PROVE Types'
  BY <1>6 DEF TimerElapses, Elapse, Types, DebouncerTypeOK
<1>7. ASSUME NEW i \in Msg, TimerFires(i) PROVE Types'
  <2>1. DebouncerTypeOK'
    BY <1>7, ConvOfMessage, FireTypes DEF TimerFires, Types
  <2> QED BY <1>7, <2>1 DEF TimerFires, Types
<1>8. ASSUME NEW i \in Msg, DispatchCombined(i) PROVE Types'
  <2>1. pc' \in [Msg -> PC]
    BY <1>8, GotoTypes DEF DispatchCombined, Running
  <2>2. content' \in [Msg -> Seq(Msg)]
    BY <1>8 DEF DispatchCombined, Types, DebouncerTypeOK
  <2> QED BY <1>8, <2>1, <2>2 DEF DispatchCombined, Types, DebouncerTypeOK
<1>9. ASSUME NEW i \in Msg, Register(i) PROVE Types'
  <2>1. pc' \in [Msg -> PC]
    BY <1>9, GotoTypes DEF Register, Running
  <2>2. in_flight' \in [Scope -> Msg \cup {NoMsg}] /\ previous' \in [Msg -> Msg \cup {NoMsg}]
    BY <1>9, ConvOfMessage DEF Register, Types
  <2> QED BY <1>9, <2>1, <2>2 DEF Register, Types, DebouncerTypeOK
<1>10. ASSUME NEW i \in Msg, Interrupt(i) PROVE Types'
  <2>1. pc' \in [Msg -> PC]
    BY <1>10, GotoTypes DEF Interrupt, Running
  <2>2. cancelled' \in [Msg -> {"no", "newer", "stop"}]
    BY <1>10 DEF Interrupt, cancel, Types
  <2> QED BY <1>10, <2>1, <2>2 DEF Interrupt, Types, DebouncerTypeOK
<1>11. ASSUME NEW i \in Msg, Unregister(i) PROVE Types'
  <2>1. pc' \in [Msg -> PC]
    BY <1>11, GotoTypes DEF Unregister, Running
  <2>2. in_flight' \in [Scope -> Msg \cup {NoMsg}]
    BY <1>11, ConvOfMessage DEF Unregister, Types
  <2> QED BY <1>11, <2>1, <2>2 DEF Unregister, Types, DebouncerTypeOK
<1>12. ASSUME NEW i \in Msg, MarkStoresDone(i) PROVE Types'
  <2>1. pc' \in [Msg -> PC]
    BY <1>12, GotoTypes DEF MarkStoresDone, Running
  <2> QED BY <1>12, <2>1 DEF MarkStoresDone, Types, DebouncerTypeOK
<1>13. ASSUME NEW i \in Msg, MarkNotifies(i) PROVE Types'
  <2>1. pc' \in [Msg -> PC]
    BY <1>13 DEF MarkNotifies, Types, Running
  <2> QED BY <1>13, <2>1 DEF MarkNotifies, Types, DebouncerTypeOK
<1> QED
  BY <1>1, <1>2, <1>3, <1>4, <1>5, <1>6, <1>7, <1>8, <1>9, <1>10, <1>11, <1>12,
     <1>13, ProcessMoves, WaitMoves, MovesTypes DEF Next, Loop, Timer, Worker

-----------------------------------------------------------------------------
(* The loop and the messages it has not received *)

LEMMA LoopStep ==
  ASSUME Types, LoopMessage, Next
  PROVE  LoopMessage'
<1> USE DEF debounceVars, loopVars, registry
<1>1. CASE Receive
  <2>1. received + 1 \in Msg /\ pc' \in [Msg -> PC]
    BY <1>1, GotoTypes DEF Receive, PC
  <2> QED BY <1>1, <2>1 DEF Receive, LoopMessage, Goto, Types
<1>2. ASSUME NEW r \in Route, ReceiveStop(r) PROVE LoopMessage'
  BY <1>2 DEF ReceiveStop, LoopMessage
<1>3. CASE StopCancel \/ Spawn \/ Close \/ Return
  BY <1>3 DEF StopCancel, Spawn, Close, Return, LoopMessage
<1>4. ASSUME NEW i \in Msg, Timer(i) PROVE LoopMessage'
  BY <1>4 DEF Timer, TimerElapses, TimerFires, LoopMessage
<1>5. ASSUME NEW i \in Msg, NEW stage, pc[i] # "passed", Goto(i, stage),
             loop' = loop
      PROVE  LoopMessage'
  BY <1>5 DEF Goto, LoopMessage, Types
<1>6. ASSUME NEW i \in Msg, DispatchCombined(i) \/ Register(i) \/ Interrupt(i)
                            \/ Unregister(i) \/ MarkStoresDone(i)
      PROVE  LoopMessage'
  BY <1>5, <1>6 DEF DispatchCombined, Register, Interrupt, Unregister, MarkStoresDone
<1>7. ASSUME NEW i \in Msg, MarkNotifies(i) PROVE LoopMessage'
  BY <1>7 DEF MarkNotifies, LoopMessage
<1>8. ASSUME NEW i \in Msg, Moves(i) PROVE LoopMessage'
  BY <1>5, <1>8 DEF Moves, Goto, Registered, Running
<1> QED
  BY <1>1, <1>2, <1>3, <1>4, <1>6, <1>7, <1>8, ProcessMoves, WaitMoves
     DEF Next, Loop, Worker

-----------------------------------------------------------------------------
(* The texts of the messages *)

\* The newest message of an entry is one of its texts, and has been received.
LEMMA NewestOfEntry ==
  ASSUME Types, Awaited, OnlyReceived, NEW k \in Conv, HasEntry(k)
  PROVE  LET newest == entries[k].result_tx
         IN /\ newest \in Msg /\ InEntry(newest, k)
            /\ newest <= received /\ newest \in 1..received
<1> DEFINE newest == entries[k].result_tx
<1>1. entries[k].messages \in Seq(Msg) /\ entries[k].messages # <<>>
  BY DEF Types, DebouncerTypeOK, HasEntry
<1>2. newest \in Msg /\ newest \in Range(entries[k].messages)
  BY <1>1, LastInRange DEF Awaited
<1>3. newest <= received
  BY <1>2 DEF OnlyReceived, InEntry
<1> QED BY <1>2, <1>3, DebouncerAssumption DEF InEntry, Msg, Types

LEMMA CalmText ==
  ASSUME Types, Unreceived, TextInv, Calm
  PROVE  Unreceived' /\ TextInv'
<1>1. /\ \A m, k : InEntry(m, k)' <=> InEntry(m, k)
      /\ \A m, i : With(m, i)' <=> With(m, i)
      /\ \A k : HasEntry(k)' <=> HasEntry(k)
  BY DEF Calm, InEntry, With, HasEntry
<1>2. \A m \in Msg : (pc'[m] = "rx" <=> pc[m] = "rx") /\ (pc'[m] = "none" <=> pc[m] = "none")
  BY DEF Calm
<1>3. Unreceived'
  BY <1>2 DEF Calm, Unreceived
<1>4. Awaited'
  <2> SUFFICES ASSUME NEW k \in Conv, HasEntry(k)'
               PROVE  Awaited!(k)!2'
    BY DEF Awaited
  <2>1. entries[k].result_tx \in Msg
    BY <1>1, NewestOfEntry DEF TextInv
  <2> QED BY <1>1, <1>2, <2>1 DEF Calm, TextInv, Awaited
<1>5. EmptyUntilDispatched'
  BY <1>2 DEF Calm, TextInv, EmptyUntilDispatched
<1>6. OnlyReceived' /\ OnePlace'
  BY <1>1 DEF Calm, TextInv, OnlyReceived, OnePlace
<1>7. Combined'
  BY DEF Calm, TextInv, Combined
<1> QED BY <1>3, <1>4, <1>5, <1>6, <1>7 DEF TextInv

LEMMA FireText ==
  ASSUME Types, Unreceived, TextInv, NEW i \in Msg, TimerFires(i)
  PROVE  Unreceived' /\ TextInv'
<1> DEFINE k == conv(i)
           newest == entries[k].result_tx
           q == entries[k].messages
<1>1. k \in Conv /\ UNCHANGED <<config, content, received, pc>>
  BY ConvOfMessage DEF TimerFires, loopVars
<1>2. CASE ~HasEntry(k)
  <2>1. Calm
    BY <1>1, <1>2 DEF TimerFires, fire_debounced, Calm
  <2> QED BY <2>1, CalmText
<1>3. CASE HasEntry(k)
  <2>1. /\ entries' = [entries EXCEPT ![k] = NoEntry]
        /\ result' = [result EXCEPT ![newest] = q]
    BY <1>3 DEF TimerFires, fire_debounced
  <2>2. newest \in 1..received /\ newest \in Msg /\ InEntry(newest, k)
    BY <1>1, <1>3, NewestOfEntry DEF TextInv
  <2>3. pc[newest] = "rx" /\ result[newest] = <<>> /\ content[newest] = <<>>
    BY <1>1, <1>3, <2>2 DEF TextInv, Awaited, EmptyUntilDispatched
  <2>4. \A c \in Conv : /\ c # k => entries'[c] = entries[c]
                        /\ entries'[k].messages = <<>>
    BY <1>1, <2>1 DEF Types, DebouncerTypeOK, NoEntry
  <2>5. \A j \in Msg : /\ j # newest => result'[j] = result[j]
                       /\ result'[newest] = q
    BY <2>1, <2>2 DEF Types, DebouncerTypeOK
  <2> HIDE DEF k, newest, q
  <2>6. \A m \in Msg, c \in Conv : InEntry(m, c)' <=> c # k /\ InEntry(m, c)
    BY <2>4, RangeEmpty DEF InEntry
  <2>7. \A m \in Msg, j \in Msg : With(m, j)' <=> With(m, j) \/ (j = newest /\ InEntry(m, k))
    <3> SUFFICES ASSUME NEW m \in Msg, NEW j \in Msg
                 PROVE  With(m, j)' <=> With(m, j) \/ (j = newest /\ InEntry(m, k))
      OBVIOUS
    <3>1. CASE j # newest
      BY <1>1, <2>5, <3>1 DEF With
    <3>2. CASE j = newest
      BY <1>1, <2>3, <2>5, <3>2, RangeEmpty DEF With, InEntry, q
    <3> QED BY <3>1, <3>2
  <2>8. Unreceived'
    <3>1. \A j \in Msg : j > received => j # newest
      BY <2>2 DEF Types
    <3> QED BY <1>1, <2>5, <3>1 DEF Unreceived
  <2>9. Awaited'
    <3> SUFFICES ASSUME NEW c \in Conv, HasEntry(c)'
                 PROVE  Awaited!(c)!2'
      BY DEF Awaited
    <3>1. c # k /\ HasEntry(c) /\ entries'[c] = entries[c]
      BY <2>4 DEF HasEntry
    <3>2. entries[c].result_tx \in Msg /\ InEntry(entries[c].result_tx, c)
      BY <3>1, NewestOfEntry DEF TextInv
    <3>3. entries[c].result_tx # newest
      BY <1>1, <2>2, <3>1, <3>2 DEF TextInv, OnePlace
    <3> QED BY <1>1, <2>5, <3>1, <3>2, <3>3 DEF TextInv, Awaited
  <2>10. EmptyUntilDispatched'
    BY <1>1 DEF TextInv, EmptyUntilDispatched
  <2>11. OnlyReceived'
    BY <1>1, <2>6, <2>7 DEF TextInv, OnlyReceived
  <2>12. OnePlace'
    <3> SUFFICES ASSUME NEW m \in 1..received
                 PROVE  OnePlace!(m)'
      BY <1>1 DEF OnePlace
    <3>1. m \in Msg
      BY DebouncerAssumption DEF Msg, Types
    <3>2. OnePlace!(m)
      BY DEF TextInv, OnePlace
    <3>3. CASE InEntry(m, k)
      <4>1. /\ \A c \in Conv : ~InEntry(m, c)'
            /\ \A j \in Msg : With(m, j)' <=> j = newest
        BY <1>1, <2>6, <2>7, <3>1, <3>2, <3>3
      <4> QED BY <2>2, <4>1
    <3>4. CASE ~InEntry(m, k)
      <4>1. /\ \A c \in Conv : InEntry(m, c)' <=> InEntry(m, c)
            /\ \A j \in Msg : With(m, j)' <=> With(m, j)
        BY <1>1, <2>6, <2>7, <3>1, <3>4
      <4> QED BY <3>2, <4>1
    <3> QED BY <3>3, <3>4
  <2>13. Combined'
    <3> SUFFICES ASSUME NEW j \in Msg PROVE Combined!(j)'
      BY DEF Combined
    <3>1. CASE j # newest
      BY <1>1, <2>5, <3>1 DEF TextInv, Combined
    <3>2. CASE j = newest
      <4>1. content'[j] = <<>> /\ result'[j] = q
        BY <1>1, <2>3, <2>5, <3>2
      <4>2. Increasing(q) /\ Last(q) = newest
        BY <1>1, <1>3 DEF TextInv, Awaited, q, newest
      <4> QED BY <3>2, <4>1, <4>2
    <3> QED BY <3>1, <3>2
  <2> QED BY <2>8, <2>9, <2>10, <2>11, <2>12, <2>13 DEF TextInv
<1> QED BY <1>2, <1>3

LEMMA DispatchText ==
  ASSUME Types, Unreceived, TextInv, NEW i \in Msg, DispatchCombined(i)
  PROVE  Unreceived' /\ TextInv'
<1>1. /\ UNCHANGED <<config, received, entries, result>>
      /\ pc[i] = "rx" /\ result[i] # <<>> /\ content[i] = <<>>
  BY DEF DispatchCombined, loopVars, debounceVars, TextInv, EmptyUntilDispatched
<1>2. /\ content'[i] = result[i] /\ pc'[i] = "spawned"
      /\ \A j \in Msg \ {i} : content'[j] = content[j] /\ pc'[j] = pc[j]
  BY DEF DispatchCombined, Goto, Types
<1>3. /\ \A m, k : InEntry(m, k)' <=> InEntry(m, k)
      /\ \A k : HasEntry(k)' <=> HasEntry(k)
  BY <1>1 DEF InEntry, HasEntry
<1>4. \A m \in Msg, j \in Msg : With(m, j)' <=> With(m, j)
  BY <1>1, <1>2, RangeEmpty DEF With
<1>5. Unreceived'
  BY <1>1, <1>2 DEF Unreceived
<1>6. Awaited'
  <2> SUFFICES ASSUME NEW k \in Conv, HasEntry(k)'
               PROVE  Awaited!(k)!2'
    BY DEF Awaited
  <2>1. entries[k].result_tx \in Msg \ {i}
    BY <1>1, <1>3, NewestOfEntry DEF TextInv, Awaited
  <2> QED BY <1>1, <1>2, <1>3, <2>1 DEF TextInv, Awaited
<1>7. EmptyUntilDispatched'
  BY <1>2 DEF TextInv, EmptyUntilDispatched
<1>8. OnlyReceived'
  BY <1>1, <1>3, <1>4 DEF TextInv, OnlyReceived
<1>9. OnePlace'
  <2>1. 1..received \subseteq Msg
    BY DebouncerAssumption DEF Msg, Types
  <2> QED BY <1>1, <1>3, <1>4, <2>1 DEF TextInv, OnePlace
<1>10. Combined'
  BY <1>1, <1>2 DEF TextInv, Combined
<1> QED BY <1>5, <1>6, <1>7, <1>8, <1>9, <1>10 DEF TextInv

LEMMA ReceiveText ==
  ASSUME Types, Unreceived, TextInv, Receive
  PROVE  Unreceived' /\ TextInv'
<1> DEFINE i == received + 1
           k == conv(i)
<1>1. /\ i \in Msg /\ i > received /\ received' = i
      /\ config' = config /\ result' = result /\ k \in Conv
      /\ 1..received' = 1..received \cup {i} /\ received \in Nat
      /\ \A m \in 1..received : m \in Msg /\ m # i
  BY ConvOfMessage, DebouncerAssumption DEF Receive, Types, debounce, debounceVars, Msg
<1>2. pc[i] = "none" /\ content[i] = <<>> /\ result[i] = <<>>
  BY <1>1 DEF Unreceived
<1>3. /\ \A c \in Conv : ~InEntry(i, c)
      /\ \A j \in Msg : ~With(i, j)
  BY <1>1 DEF TextInv, OnlyReceived
<1>4. \A m \in Msg : m \notin 1..received => m > received
  BY <1>1 DEF Msg
<1>5. \A c \in Conv : HasEntry(c) =>
        entries[c].result_tx \in 1..received /\ entries[c].result_tx \in Msg
  BY NewestOfEntry DEF TextInv
<1>6. CASE config.debounce /\ Registers(i)
  <2>1. /\ debounce(i, k) /\ content' = content
        /\ Goto(i, "rx")
    BY <1>6 DEF Receive
  <2>2. /\ entries'[k] = [messages |-> Append(entries[k].messages, i),
                          result_tx |-> i, timer_handle |-> i]
        /\ \A c \in Conv \ {k} : entries'[c] = entries[c]
    BY <1>1, <2>1 DEF debounce, Types, DebouncerTypeOK
  <2>3. pc'[i] = "rx" /\ \A m \in Msg \ {i} : pc'[m] = pc[m]
    BY <1>1, <2>1 DEF Goto, Types
  <2>4. entries[k].messages \in Seq(Msg)
    BY <1>1 DEF Types, DebouncerTypeOK
  <2> HIDE DEF i, k
  <2>5. \A m \in Msg, c \in Conv : InEntry(m, c)' <=> InEntry(m, c) \/ (m = i /\ c = k)
    <3> SUFFICES ASSUME NEW m \in Msg, NEW c \in Conv
                 PROVE  InEntry(m, c)' <=> InEntry(m, c) \/ (m = i /\ c = k)
      OBVIOUS
    <3>1. CASE c = k
      <4>1. entries'[k].messages = Append(entries[k].messages, i)
        BY <2>2
      <4>2. m \in Range(Append(entries[k].messages, i))
              <=> m \in Range(entries[k].messages) \/ m = i
        BY <1>1, <2>4, RangeAppend
      <4> QED BY <3>1, <4>1, <4>2 DEF InEntry
    <3>2. CASE c # k
      BY <2>2, <3>2 DEF InEntry
    <3> QED BY <3>1, <3>2
  <2>6. \A m \in Msg, j \in Msg : With(m, j)' <=> With(m, j)
    BY <1>1, <2>1 DEF With
  <2>7. Unreceived'
    <3>1. \A m \in Msg : m > received' => m > received /\ m # i
      BY <1>1 DEF i, Msg
    <3> QED BY <1>1, <2>1, <2>3, <3>1 DEF Unreceived
  <2>8. Awaited'
    <3> SUFFICES ASSUME NEW c \in Conv, HasEntry(c)'
                 PROVE  Awaited!(c)!2'
      BY DEF Awaited
    <3>1. CASE c # k
      <4>1. HasEntry(c) /\ entries'[c] = entries[c]
        BY <2>2, <3>1 DEF HasEntry
      <4>2. entries[c].result_tx \in Msg \ {i}
        BY <1>1, <1>5, <4>1
      <4> QED BY <1>1, <2>3, <4>1, <4>2 DEF TextInv, Awaited
    <3>2. CASE c = k
      <4>1. Increasing(entries[k].messages)
        <5>1. CASE HasEntry(k)
          BY <1>1, <5>1 DEF TextInv, Awaited
        <5>2. CASE ~HasEntry(k)
          BY <5>2 DEF HasEntry, Increasing
        <5> QED BY <5>1, <5>2
      <4>2. \A m \in Msg : m \in Range(entries[k].messages) => m < i
        BY <1>1 DEF TextInv, OnlyReceived, InEntry, i, Msg
      <4>3. /\ Increasing(Append(entries[k].messages, i))
            /\ Last(Append(entries[k].messages, i)) = i
        BY <1>1, <2>4, <4>1, <4>2, AppendIncreasing
      <4>4. /\ entries'[k].messages = Append(entries[k].messages, i)
            /\ entries'[k].result_tx = i
        BY <2>2
      <4>5. pc'[i] = "rx" /\ result'[i] = <<>>
        BY <1>1, <1>2, <2>3
      <4> QED BY <3>2, <4>3, <4>4, <4>5
    <3> QED BY <3>1, <3>2
  <2>9. EmptyUntilDispatched'
    BY <1>2, <2>1, <2>3 DEF TextInv, EmptyUntilDispatched
  <2>10. OnlyReceived'
    <3> SUFFICES ASSUME NEW m \in Msg PROVE OnlyReceived!(m)'
      BY DEF OnlyReceived
    <3>1. OnlyReceived!(m) /\ (m <= received => m <= i) /\ i <= i
      BY <1>1 DEF TextInv, OnlyReceived, i, Msg
    <3> QED BY <1>1, <2>5, <2>6, <3>1
  <2>11. OnePlace'
    <3> SUFFICES ASSUME NEW m \in 1..received' PROVE OnePlace!(m)'
      BY DEF OnePlace
    <3>1. CASE m = i
      <4>1. /\ \A c \in Conv : InEntry(m, c)' <=> c = k
            /\ \A j \in Msg : ~With(m, j)'
        BY <1>1, <1>3, <2>5, <2>6, <3>1
      <4> QED BY <1>1, <4>1
    <3>2. CASE m # i
      <4>1. m \in 1..received /\ m \in Msg
        BY <1>1, <3>2
      <4>2. /\ \A c \in Conv : InEntry(m, c)' <=> InEntry(m, c)
            /\ \A j \in Msg : With(m, j)' <=> With(m, j)
        BY <2>5, <2>6, <3>2, <4>1
      <4>3. OnePlace!(m)
        BY <4>1 DEF TextInv, OnePlace
      <4> QED BY <4>2, <4>3
    <3> QED BY <3>1, <3>2
  <2>12. Combined'
    BY <1>1, <2>1 DEF TextInv, Combined
  <2> QED BY <2>7, <2>8, <2>9, <2>10, <2>11, <2>12 DEF TextInv
<1>7. CASE ~(config.debounce /\ Registers(i))
  <2>1. /\ entries' = entries
        /\ content' = [content EXCEPT ![i] = <<i>>]
        /\ Goto(i, "passed")
    BY <1>7 DEF Receive, debounceVars
  <2>2. pc'[i] = "passed" /\ \A m \in Msg \ {i} : pc'[m] = pc[m]
    BY <1>1, <2>1 DEF Goto, Types
  <2>3. content'[i] = <<i>> /\ \A m \in Msg \ {i} : content'[m] = content[m]
    BY <1>1, <2>1 DEF Types
  <2> HIDE DEF i, k
  <2>4. /\ \A m, c : InEntry(m, c)' <=> InEntry(m, c)
        /\ \A c : HasEntry(c)' <=> HasEntry(c)
    BY <2>1 DEF InEntry, HasEntry
  <2>5. \A m \in Msg, j \in Msg : With(m, j)' <=> With(m, j) \/ (m = i /\ j = i)
    <3> SUFFICES ASSUME NEW m \in Msg, NEW j \in Msg
                 PROVE  With(m, j)' <=> With(m, j) \/ (m = i /\ j = i)
      OBVIOUS
    <3>1. CASE j = i
      BY <1>1, <1>2, <2>3, <3>1, RangeEmpty, RangeSingle DEF With
    <3>2. CASE j # i
      BY <1>1, <2>3, <3>2 DEF With
    <3> QED BY <3>1, <3>2
  <2>6. Unreceived'
    <3>1. \A m \in Msg : m > received' => m > received /\ m # i
      BY <1>1 DEF i, Msg
    <3> QED BY <1>1, <2>2, <2>3, <3>1 DEF Unreceived
  <2>7. Awaited'
    <3> SUFFICES ASSUME NEW c \in Conv, HasEntry(c)'
                 PROVE  Awaited!(c)!2'
      BY DEF Awaited
    <3>1. entries[c].result_tx \in Msg \ {i}
      BY <1>1, <1>5, <2>4
    <3> QED BY <1>1, <2>1, <2>2, <2>4, <3>1 DEF TextInv, Awaited
  <2>8. EmptyUntilDispatched'
    BY <1>1, <2>2, <2>3 DEF TextInv, EmptyUntilDispatched
  <2>9. OnlyReceived'
    <3> SUFFICES ASSUME NEW m \in Msg PROVE OnlyReceived!(m)'
      BY DEF OnlyReceived
    <3>1. OnlyReceived!(m) /\ (m <= received => m <= i) /\ i <= i
      BY <1>1 DEF TextInv, OnlyReceived, i, Msg
    <3> QED BY <1>1, <2>4, <2>5, <3>1
  <2>10. OnePlace'
    <3> SUFFICES ASSUME NEW m \in 1..received' PROVE OnePlace!(m)'
      BY DEF OnePlace
    <3>1. CASE m = i
      <4>1. /\ \A c \in Conv : ~InEntry(m, c)'
            /\ \A j \in Msg : With(m, j)' <=> j = i
        BY <1>1, <1>3, <2>4, <2>5, <3>1
      <4> QED BY <1>1, <4>1
    <3>2. CASE m # i
      <4>1. m \in 1..received /\ m \in Msg
        BY <1>1, <3>2
      <4>2. /\ \A c \in Conv : InEntry(m, c)' <=> InEntry(m, c)
            /\ \A j \in Msg : With(m, j)' <=> With(m, j)
        BY <2>4, <2>5, <3>2, <4>1
      <4>3. OnePlace!(m)
        BY <4>1 DEF TextInv, OnePlace
      <4> QED BY <4>2, <4>3
    <3> QED BY <3>1, <3>2
  <2>11. Combined'
    <3> SUFFICES ASSUME NEW j \in Msg PROVE Combined!(j)'
      BY DEF Combined
    <3>1. CASE j # i
      BY <1>1, <2>3, <3>1 DEF TextInv, Combined
    <3>2. CASE j = i
      <4>1. content'[j] = <<j>> /\ <<j>> # <<>> /\ Last(<<j>>) = j
        BY <2>3, <3>2 DEF Last
      <4>2. Increasing(<<j>>)
        BY DEF Increasing
      <4> QED BY <4>1, <4>2
    <3> QED BY <3>1, <3>2
  <2> QED BY <2>6, <2>7, <2>8, <2>9, <2>10, <2>11 DEF TextInv
<1> QED BY <1>6, <1>7

LEMMA TextStep ==
  ASSUME Types, Unreceived, LoopMessage, TextInv, Next
  PROVE  Unreceived' /\ TextInv'
BY CalmSteps, CalmText, FireText, DispatchText, ReceiveText

-----------------------------------------------------------------------------
(* The in-flight table *)

Reachable(i) ==
  \/ in_flight[scope(i)] = i
  \/ \E j \in Msg : pc[j] = "interrupting" /\ previous[j] = i
  \/ loop.at = "stopping" /\ loop.msg = i

\* InFlightExact, an entry or a worker at a time.
EntryExact(s) ==
  in_flight[s] # NoMsg =>
    /\ pc[in_flight[s]] \in Registered
    /\ scope(in_flight[s]) = s
    /\ Registers(in_flight[s])

WorkerExact(i) ==
  config.interrupt /\ pc[i] \in Registered /\ Registers(i) /\ cancelled[i] = "no"
    => Reachable(i)

LEMMA TableInvExact ==
  TableInv <=> (\A s \in Scope : EntryExact(s)) /\ (\A i \in Msg : WorkerExact(i))
BY DEF TableInv, EntriesRegister, InFlightExact, EntryExact, WorkerExact, Reachable

LEMMA TableInvExactNext ==
  ASSUME (\A s \in Scope : EntryExact(s)'), (\A i \in Msg : WorkerExact(i)')
  PROVE  TableInv'
BY DEF TableInv, EntriesRegister, InFlightExact, EntryExact, WorkerExact, Reachable

\* The keys of a message do not change.
LEMMA KeysFixed ==
  ASSUME config' = config
  PROVE  \A i : scope(i)' = scope(i) /\ (Registers(i)' <=> Registers(i))
BY DEF scope, Registers

\* A worker changes between stages in which it stays registered, or between stages
\* in which it is not.
LEMMA TableByGoto ==
  ASSUME Types, TableInv, NEW i \in Msg, NEW stage, Goto(i, stage),
         pc[i] # "interrupting", stage # "interrupting",
         pc[i] \in Registered <=> stage \in Registered,
         UNCHANGED <<config, in_flight, previous, cancelled>>,
         loop.at = "stopping" => loop' = loop
  PROVE  TableInv'
<1>1. /\ pc'[i] = stage
      /\ \A j \in Msg \ {i} : pc'[j] = pc[j]
  BY DEF Goto, Types
<1>2. \A j \in Msg : /\ pc'[j] \in Registered <=> pc[j] \in Registered
                     /\ pc'[j] = "interrupting" <=> pc[j] = "interrupting"
  BY <1>1
<1>3. ASSUME NEW s \in Scope PROVE EntryExact(s)'
  <2>1. EntryExact(s) /\ in_flight[s] \in Msg \cup {NoMsg}
    BY TableInvExact DEF Types
  <2> QED BY <1>2, <2>1, KeysFixed DEF EntryExact
<1>4. ASSUME NEW j \in Msg PROVE WorkerExact(j)'
  <2>1. WorkerExact(j)
    BY TableInvExact
  <2>2. Reachable(j) => Reachable(j)'
    BY <1>2, KeysFixed DEF Reachable
  <2> QED BY <1>2, <2>1, <2>2, KeysFixed DEF WorkerExact
<1> QED BY <1>3, <1>4, TableInvExactNext

LEMMA TableUnchanged ==
  ASSUME TableInv, UNCHANGED <<config, in_flight, previous, cancelled, pc>>,
         loop.at = "stopping" => loop' = loop
  PROVE  TableInv'
BY DEF TableInv, EntriesRegister, InFlightExact, scope, Registers

LEMMA ReceiveStopTable ==
  ASSUME Types, TableInv, NEW r \in Route, ReceiveStop(r)
  PROVE  TableInv'
<1> DEFINE t == ScopeOf[r]
<1>1. t \in Scope /\ UNCHANGED <<config, pc, previous, cancelled>> /\ loop.at = "recv"
  BY DispatchAssumption DEF ReceiveStop
<1>2. in_flight'[t] = NoMsg /\ \A s \in Scope \ {t} : in_flight'[s] = in_flight[s]
  BY <1>1 DEF ReceiveStop, Types
<1>3. in_flight[t] # NoMsg => loop' = [at |-> "stopping", msg |-> in_flight[t]]
  BY DEF ReceiveStop
<1> HIDE DEF t
<1>4. ASSUME NEW s \in Scope PROVE EntryExact(s)'
  BY <1>1, <1>2, TableInvExact, KeysFixed DEF EntryExact
<1>5. ASSUME NEW j \in Msg PROVE WorkerExact(j)'
  <2>1. WorkerExact(j) /\ j # NoMsg
    BY TableInvExact DEF Msg, NoMsg
  <2>2. Reachable(j) => Reachable(j)'
    <3>1. CASE in_flight[scope(j)] = j
      <4>1. CASE scope(j) = t
        BY <1>3, <2>1, <3>1, <4>1 DEF Reachable
      <4>2. CASE scope(j) # t
        BY <1>1, <1>2, <3>1, <4>2, ConvOfMessage, KeysFixed DEF Reachable
      <4> QED BY <4>1, <4>2
    <3>2. CASE \E p \in Msg : pc[p] = "interrupting" /\ previous[p] = j
      BY <1>1, <3>2 DEF Reachable
    <3> QED BY <1>1, <3>1, <3>2 DEF Reachable
  <2> QED BY <1>1, <2>1, <2>2, KeysFixed DEF WorkerExact
<1> QED BY <1>4, <1>5, TableInvExactNext

LEMMA StopCancelTable ==
  ASSUME Types, TableInv, StopCancel
  PROVE  TableInv'
<1>1. UNCHANGED <<config, pc, in_flight, previous>>
  BY DEF StopCancel
<1>2. ASSUME NEW s \in Scope PROVE EntryExact(s)'
  BY <1>1, TableInvExact, KeysFixed DEF EntryExact
<1>3. ASSUME NEW j \in Msg PROVE WorkerExact(j)'
  <2>1. WorkerExact(j)
    BY TableInvExact
  <2>2. CASE j = loop.msg
    <3>1. cancelled'[j] # "no"
      BY <2>2 DEF StopCancel, cancel, Types
    <3> QED BY <3>1 DEF WorkerExact
  <2>3. CASE j # loop.msg
    <3>1. cancelled'[j] = cancelled[j]
      BY <2>3 DEF StopCancel, cancel, Types
    <3>2. Reachable(j) => Reachable(j)'
      BY <1>1, <2>3, KeysFixed DEF Reachable
    <3> QED BY <1>1, <2>1, <3>1, <3>2, KeysFixed DEF WorkerExact
  <2> QED BY <2>2, <2>3
<1> QED BY <1>2, <1>3, TableInvExactNext

LEMMA RegisterTable ==
  ASSUME Types, TableInv, NEW i \in Msg, Register(i)
  PROVE  TableInv'
<1> DEFINE t == scope(i)
<1>1. /\ t \in Scope /\ pc[i] = "spawned" /\ i # NoMsg
      /\ UNCHANGED <<config, loop, cancelled>>
  BY ConvOfMessage DEF Register, loopVars, Msg, NoMsg
<1>2. \A j \in Msg \ {i} : pc'[j] = pc[j]
  BY DEF Register, Goto, Types
<1>3. pc'[i] \in Registered
  BY DEF Register, Goto, Types, Registered, Running
<1>4. CASE ~Registers(i)
  <2>1. UNCHANGED <<in_flight, previous>> /\ pc'[i] = "processing"
    BY <1>4 DEF Register, Goto, Types
  <2>2. ASSUME NEW s \in Scope PROVE EntryExact(s)'
    <3>1. EntryExact(s) /\ in_flight[s] \in Msg \cup {NoMsg}
      BY TableInvExact DEF Types
    <3> QED BY <1>1, <1>2, <1>3, <2>1, <3>1, KeysFixed DEF EntryExact
  <2>3. ASSUME NEW j \in Msg PROVE WorkerExact(j)'
    <3>1. CASE j = i
      BY <1>1, <1>4, <3>1, KeysFixed DEF WorkerExact
    <3>2. CASE j # i
      <4>1. WorkerExact(j)
        BY TableInvExact
      <4>2. Reachable(j) => Reachable(j)'
        BY <1>1, <1>2, <2>1, KeysFixed DEF Reachable
      <4> QED BY <1>1, <1>2, <3>2, <4>1, <4>2, KeysFixed DEF WorkerExact
    <3> QED BY <3>1, <3>2
  <2> QED BY <2>2, <2>3, TableInvExactNext
<1>5. CASE Registers(i)
  <2>1. in_flight'[t] = i /\ \A s \in Scope \ {t} : in_flight'[s] = in_flight[s]
    BY <1>1, <1>5 DEF Register, Types
  <2>2. \A j \in Msg \ {i} : previous'[j] = previous[j]
    BY <1>5 DEF Register, Types
  <2>3. config.interrupt /\ in_flight[t] # NoMsg =>
          pc'[i] = "interrupting" /\ previous'[i] = in_flight[t]
    BY <1>5 DEF Register, Goto, Types
  <2> HIDE DEF t
  <2>4. ASSUME NEW s \in Scope PROVE EntryExact(s)'
    <3>1. EntryExact(s) /\ in_flight[s] \in Msg \cup {NoMsg}
      BY TableInvExact DEF Types
    <3>2. CASE s = t
      BY <1>1, <1>3, <1>5, <2>1, <3>2, KeysFixed DEF EntryExact, t
    <3>3. CASE s # t
      BY <1>1, <1>2, <1>3, <2>1, <3>1, <3>3, KeysFixed DEF EntryExact
    <3> QED BY <3>2, <3>3
  <2>5. ASSUME NEW j \in Msg PROVE WorkerExact(j)'
    <3>1. CASE j = i
      BY <1>1, <2>1, <3>1, KeysFixed DEF WorkerExact, Reachable, t
    <3>2. CASE j # i
      <4>1. WorkerExact(j) /\ scope(j) \in Scope /\ j # NoMsg
        BY TableInvExact, ConvOfMessage DEF Msg, NoMsg
      <4>2. config.interrupt /\ Reachable(j) => Reachable(j)'
        <5>1. CASE in_flight[scope(j)] = j /\ scope(j) = t
          BY <2>3, <4>1, <5>1 DEF Reachable
        <5>2. CASE in_flight[scope(j)] = j /\ scope(j) # t
          BY <1>1, <2>1, <4>1, <5>2, KeysFixed DEF Reachable
        <5>3. CASE \E p \in Msg : pc[p] = "interrupting" /\ previous[p] = j
          BY <1>1, <1>2, <2>2, <5>3 DEF Reachable
        <5>4. CASE loop.at = "stopping" /\ loop.msg = j
          BY <1>1, <5>4 DEF Reachable
        <5> QED BY <5>1, <5>2, <5>3, <5>4 DEF Reachable
      <4> QED BY <1>1, <1>2, <3>2, <4>1, <4>2, KeysFixed DEF WorkerExact
    <3> QED BY <3>1, <3>2
  <2> QED BY <2>4, <2>5, TableInvExactNext
<1> QED BY <1>4, <1>5

LEMMA InterruptTable ==
  ASSUME Types, TableInv, NEW i \in Msg, Interrupt(i)
  PROVE  TableInv'
<1>1. /\ UNCHANGED <<config, loop, in_flight, previous>>
      /\ pc[i] = "interrupting" /\ pc'[i] = "checking"
      /\ \A j \in Msg \ {i} : pc'[j] = pc[j]
  BY DEF Interrupt, loopVars, Goto, Types
<1>2. \A j \in Msg : pc'[j] \in Registered <=> pc[j] \in Registered
  BY <1>1 DEF Registered, Running
<1>3. ASSUME NEW s \in Scope PROVE EntryExact(s)'
  <2>1. EntryExact(s) /\ in_flight[s] \in Msg \cup {NoMsg}
    BY TableInvExact DEF Types
  <2> QED BY <1>1, <1>2, <2>1, KeysFixed DEF EntryExact
<1>4. ASSUME NEW j \in Msg PROVE WorkerExact(j)'
  <2>1. WorkerExact(j)
    BY TableInvExact
  <2>2. CASE j = previous[i]
    <3>1. cancelled'[j] # "no"
      BY <2>2 DEF Interrupt, cancel, Types
    <3> QED BY <3>1 DEF WorkerExact
  <2>3. CASE j # previous[i]
    <3>1. cancelled'[j] = cancelled[j]
      BY <2>3 DEF Interrupt, cancel, Types
    <3>2. Reachable(j) => Reachable(j)'
      BY <1>1, <2>3, KeysFixed DEF Reachable
    <3> QED BY <1>1, <1>2, <2>1, <3>1, <3>2, KeysFixed DEF WorkerExact
  <2> QED BY <2>2, <2>3
<1> QED BY <1>3, <1>4, TableInvExactNext

LEMMA UnregisterTable ==
  ASSUME Types, TableInv, NEW i \in Msg, Unregister(i)
  PROVE  TableInv'
<1>1. /\ UNCHANGED <<config, loop, previous, cancelled>>
      /\ pc[i] = "ending" /\ pc'[i] = "marking"
      /\ \A j \in Msg \ {i} : pc'[j] = pc[j]
  BY DEF Unregister, loopVars, Goto, Types
<1>2. \A s \in Scope : in_flight'[s] = IF in_flight[s] = i THEN NoMsg ELSE in_flight[s]
  <2> SUFFICES ASSUME NEW s \in Scope
               PROVE  in_flight'[s] = IF in_flight[s] = i THEN NoMsg ELSE in_flight[s]
    OBVIOUS
  <2>1. EntryExact(s) /\ i # NoMsg
    BY TableInvExact DEF Msg, NoMsg
  <2>2. CASE in_flight[s] = i
    BY <2>1, <2>2 DEF EntryExact, Unregister, Types
  <2>3. CASE in_flight[s] # i
    BY <2>3 DEF Unregister, Types
  <2> QED BY <2>2, <2>3
<1>3. ASSUME NEW s \in Scope PROVE EntryExact(s)'
  <2>1. EntryExact(s) /\ in_flight[s] \in Msg \cup {NoMsg}
    BY TableInvExact DEF Types
  <2>2. in_flight'[s] # NoMsg => in_flight'[s] = in_flight[s] /\ in_flight[s] # i
    BY <1>2
  <2> QED BY <1>1, <2>1, <2>2, KeysFixed DEF EntryExact
<1>4. ASSUME NEW j \in Msg PROVE WorkerExact(j)'
  <2>1. WorkerExact(j) /\ scope(j) \in Scope
    BY TableInvExact, ConvOfMessage
  <2>2. CASE j = i
    BY <1>1, <2>2 DEF WorkerExact, Registered
  <2>3. CASE j # i
    <3>1. Reachable(j) => Reachable(j)'
      BY <1>1, <1>2, <2>1, <2>3, KeysFixed DEF Reachable
    <3> QED BY <1>1, <2>1, <2>3, <3>1, KeysFixed DEF WorkerExact
  <2> QED BY <2>2, <2>3
<1> QED BY <1>3, <1>4, TableInvExactNext

LEMMA NotifyTable ==
  ASSUME Types, TableInv, NEW i \in Msg, MarkNotifies(i)
  PROVE  TableInv'
<1>1. UNCHANGED <<config, loop, in_flight, previous, cancelled>>
  BY DEF MarkNotifies, loopVars, registry
<1>2. \A j \in Msg : /\ pc'[j] \in Registered <=> pc[j] \in Registered
                     /\ pc'[j] = "interrupting" <=> pc[j] = "interrupting"
  BY DEF MarkNotifies, Registered, Running
<1>3. ASSUME NEW s \in Scope PROVE EntryExact(s)'
  <2>1. EntryExact(s) /\ in_flight[s] \in Msg \cup {NoMsg}
    BY TableInvExact DEF Types
  <2> QED BY <1>1, <1>2, <2>1, KeysFixed DEF EntryExact
<1>4. ASSUME NEW j \in Msg PROVE WorkerExact(j)'
  <2>1. WorkerExact(j)
    BY TableInvExact
  <2>2. Reachable(j) => Reachable(j)'
    BY <1>1, <1>2, KeysFixed DEF Reachable
  <2> QED BY <1>1, <1>2, <2>1, <2>2, KeysFixed DEF WorkerExact
<1> QED BY <1>3, <1>4, TableInvExactNext

LEMMA TableStep ==
  ASSUME Types, Unreceived, LoopMessage, TableInv, Next
  PROVE  TableInv'
<1> USE DEF loopVars, registry
<1>1. CASE Receive
  <2>1. received + 1 \in Msg /\ pc[received + 1] = "none"
    BY <1>1 DEF Receive, Unreceived, Types
  <2>2. \E stage \in {"rx", "passed"} : Goto(received + 1, stage)
    BY <1>1 DEF Receive
  <2> QED BY <1>1, <2>1, <2>2, TableByGoto DEF Receive, Registered, Running
<1>2. ASSUME NEW r \in Route, ReceiveStop(r) PROVE TableInv'
  BY <1>2, ReceiveStopTable
<1>3. CASE StopCancel
  BY <1>3, StopCancelTable
<1>4. CASE Spawn
  BY <1>4, TableByGoto DEF Spawn, LoopMessage, Registered, Running
<1>5. CASE Close \/ Return
  BY <1>5, TableUnchanged DEF Close, Return
<1>6. ASSUME NEW i \in Msg, Timer(i) PROVE TableInv'
  BY <1>6, TableUnchanged DEF Timer, TimerElapses, TimerFires
<1>7. ASSUME NEW i \in Msg, DispatchCombined(i) PROVE TableInv'
  BY <1>7, TableByGoto DEF DispatchCombined, Registered, Running
<1>8. ASSUME NEW i \in Msg, Moves(i) PROVE TableInv'
  BY <1>8, TableByGoto DEF Moves, Goto
<1>9. ASSUME NEW i \in Msg, MarkStoresDone(i) PROVE TableInv'
  BY <1>9, TableByGoto DEF MarkStoresDone, Registered, Running
<1> QED
  BY <1>1, <1>2, <1>3, <1>4, <1>5, <1>6, <1>7, <1>8, <1>9, RegisterTable,
     InterruptTable, UnregisterTable, NotifyTable, ProcessMoves, WaitMoves
     DEF Next, Loop, Worker

-----------------------------------------------------------------------------
(* The theorems *)

LEMMA Initially == Init => IInv
<1> SUFFICES ASSUME Init PROVE IInv
  OBVIOUS
<1>1. Types
  BY DebouncerAssumption DEF Init, DebouncerInit, Types, DebouncerTypeOK, NoEntry, Msg, NoMsg
<1>2. /\ \A k \in Conv : entries[k].messages = <<>>
      /\ \A i \in Msg : content[i] = <<>> /\ result[i] = <<>> /\ pc[i] = "none"
      /\ \A s \in Scope : in_flight[s] = NoMsg
      /\ received = 0 /\ loop.at = "recv"
  BY DEF Init, DebouncerInit, NoEntry
<1>3. Unreceived /\ LoopMessage /\ EntriesRegister /\ InFlightExact
  BY <1>2 DEF Unreceived, LoopMessage, EntriesRegister, InFlightExact, Registered, Running
<1>4. Awaited /\ EmptyUntilDispatched
  BY <1>2 DEF Awaited, HasEntry, EmptyUntilDispatched
<1>5. OnlyReceived
  BY <1>2, RangeEmpty DEF OnlyReceived, InEntry, With
<1>6. OnePlace
  BY <1>2 DEF OnePlace
<1>7. Combined
  BY <1>2 DEF Combined, Increasing
<1> QED BY <1>1, <1>3, <1>4, <1>5, <1>6, <1>7 DEF IInv, TextInv, TableInv

LEMMA Inductive == IInv /\ [Next]_vars => IInv'
<1> SUFFICES ASSUME IInv, [Next]_vars PROVE IInv'
  OBVIOUS
<1>1. CASE Next
  BY <1>1, TypesStep, LoopStep, TextStep, TableStep DEF IInv
<1>2. CASE UNCHANGED vars
  <2>1. Calm
    BY <1>2 DEF vars, Calm
  <2>2. TextInv'
    BY <2>1, CalmText DEF IInv
  <2>3. TableInv'
    BY <1>2, TableUnchanged DEF IInv, vars
  <2>4. Types' /\ Unreceived' /\ LoopMessage'
    BY <1>2, <2>1, CalmText DEF IInv, vars, Types, DebouncerTypeOK, LoopMessage
  <2> QED BY <2>2, <2>3, <2>4 DEF IInv
<1> QED BY <1>1, <1>2

\* The inductive invariant: types, what the debouncer holds for whom, and what the
\* in-flight table says of the workers, for any messages, routes and scenarios
\* (run_message_dispatch_loop and dispatch_worker).
THEOREM Invariance == Spec => []IInv
<1>1. Init => IInv
  BY Initially
<1>2. IInv /\ [Next]_vars => IInv'
  BY Inductive
<1> QED BY <1>1, <1>2, PTL DEF Spec

LEMMA HoldersOfOnePlace ==
  ASSUME Types, OnePlace, NEW m \in 1..received
  PROVE  \E h \in Holders(m) : Holders(m) = {h}
<1>1. m \in Msg
  BY DebouncerAssumption DEF Types, Msg
<1>2. \A i \in Msg : m \in Range(content[i] \o result[i]) <=> With(m, i)
  BY RangeConcat DEF Types, DebouncerTypeOK, With
<1>3. Holders(m) = {<<"entry", k>> : k \in {c \in Conv : InEntry(m, c)}}
                     \cup {<<"worker", i>> : i \in {w \in Msg : With(m, w)}}
  BY <1>2 DEF Holders, InEntry
<1>4. OnePlace!(m)
  BY DEF OnePlace
<1>5. ASSUME NEW k \in Conv, InEntry(m, k) PROVE Holders(m) = {<<"entry", k>>}
  BY <1>3, <1>4, <1>5
<1>6. ASSUME NEW i \in Msg, With(m, i) PROVE Holders(m) = {<<"worker", i>>}
  BY <1>3, <1>4, <1>6
<1> QED BY <1>4, <1>5, <1>6

\* Debouncing neither loses nor duplicates a message, for any number of messages and
\* conversations and whichever of an aborted timer and the next message comes first
\* (debounce.rs: debounce, fire_debounced).
THEOREM EveryMessageOnceHolds == Spec => []EveryMessageOnce
<1>1. IInv => EveryMessageOnce
  BY HoldersOfOnePlace DEF IInv, TextInv, Combined, Increasing, EveryMessageOnce
<1> QED BY <1>1, Invariance, PTL

\* The in-flight table is exact, for any number of workers that register, interrupt
\* each other, are stopped and end in any order (dispatch_worker).
THEOREM InFlightExactHolds == Spec => []InFlightExact
<1>1. IInv => InFlightExact
  BY DEF IInv, TableInv
<1> QED BY <1>1, Invariance, PTL
=============================================================================
