------------------------------ MODULE Debouncer ------------------------------
(***************************************************************************)
(* MessageDebouncer of src/channels/debounce.rs: rapid messages of one     *)
(* conversation are accumulated and handed over, combined, to the caller   *)
(* that submitted the newest of them.                                      *)
(*                                                                         *)
(* A message is its number, in the order in which the dispatch loop        *)
(* receives them; the number also names the timer task and the oneshot     *)
(* channel that `debounce` creates for it.  `debounce` and                 *)
(* `fire_debounced` hold the entries lock for their whole body and do not  *)
(* await under it, so each is one action.                                  *)
(*                                                                         *)
(* Aborting a tokio task takes effect at its next await.  A timer that     *)
(* still sleeps is therefore stopped for certain; one whose sleep has      *)
(* elapsed may be in the poll that takes the lock, and then fires all the  *)
(* same once `debounce` has dropped it.                                    *)
(***************************************************************************)
EXTENDS Integers, Sequences, SequencesExt

CONSTANTS
  Conv,          \* conversation_history_key: the debouncer's sender_key
  MaxMessages    \* bound on the messages received

ASSUME DebouncerAssumption == MaxMessages \in Nat

Msg == 1..MaxMessages
NoMsg == 0

VARIABLES
  entries,   \* conversation -> messages, result_tx and timer_handle
  timer,     \* message -> the timer task started for it
  result     \* message -> what was sent to its oneshot; empty if nothing was

debounceVars == <<entries, timer, result>>

NoEntry == [messages |-> <<>>, result_tx |-> NoMsg, timer_handle |-> NoMsg]

HasEntry(k) == entries[k].messages # <<>>

DebouncerTypeOK ==
  /\ entries \in [Conv -> [messages : Seq(Msg), result_tx : Msg \cup {NoMsg},
                           timer_handle : Msg \cup {NoMsg}]]
  /\ timer \in [Msg -> {"none", "sleeping", "awake", "ended"}]
  /\ result \in [Msg -> Seq(Msg)]

DebouncerInit ==
  /\ entries = [k \in Conv |-> NoEntry]
  /\ timer = [i \in Msg |-> "none"]
  /\ result = [i \in Msg |-> <<>>]

\* timer_handle.abort() on the timer of an entry, and the states it may leave
\* that timer in.
AfterAbort(h) == IF timer[h] = "awake" THEN {"awake", "ended"} ELSE {"ended"}

\* debounce: starts an entry for i, or adds i to the entry, replaces its timer
\* and lets the receiver of the message before it see a dropped sender.
debounce(i, k) ==
  /\ entries' = [entries EXCEPT ![k] =
                   [messages |-> Append(@.messages, i),
                    result_tx |-> i, timer_handle |-> i]]
  /\ IF HasEntry(k)
       THEN \E t \in AfterAbort(entries[k].timer_handle) :
              timer' = [timer EXCEPT ![entries[k].timer_handle] = t,
                                     ![i] = "sleeping"]
       ELSE timer' = [timer EXCEPT ![i] = "sleeping"]
  /\ UNCHANGED result

\* The window has elapsed for timer i.
Elapse(i) ==
  /\ timer[i] = "sleeping"
  /\ timer' = [timer EXCEPT ![i] = "awake"]
  /\ UNCHANGED <<entries, result>>

\* Mutant: the entry is read and not removed.
fire_debounced_Keeps(i, k) ==
  /\ timer[i] = "awake"
  /\ timer' = [timer EXCEPT ![i] = "ended"]
  /\ result' = IF HasEntry(k)
                 THEN [result EXCEPT ![entries[k].result_tx] = entries[k].messages]
                 ELSE result
  /\ UNCHANGED entries

\* Timer i takes the lock: whatever the conversation has accumulated goes to
\* the receiver of its newest message.
fire_debounced(i, k) ==
  /\ timer[i] = "awake"
  /\ timer' = [timer EXCEPT ![i] = "ended"]
  /\ IF HasEntry(k)
       THEN /\ entries' = [entries EXCEPT ![k] = NoEntry]
            /\ result' = [result EXCEPT ![entries[k].result_tx] = entries[k].messages]
       ELSE UNCHANGED <<entries, result>>

\* The receiver of message i saw its sender dropped: a newer message superseded
\* it, or it was never submitted.
Superseded(i) ==
  /\ timer[i] # "none"
  /\ result[i] = <<>>
  /\ \A k \in Conv : entries[k].result_tx # i
=============================================================================
