---------------------------- MODULE SessionLock ----------------------------
(***************************************************************************)
(* What gateway/session_queue.rs promises: "each session gets at most one  *)
(* concurrent turn".  A lock per session, taken by one task at a time.     *)
(***************************************************************************)
EXTENDS FiniteSets

CONSTANTS Session, Task

VARIABLE holders  \* session -> the tasks inside a turn of it

Init == holders = [s \in Session |-> {}]

Take(t, s) ==
  /\ holders[s] = {}
  /\ holders' = [holders EXCEPT ![s] = {t}]

Give(t, s) ==
  /\ t \in holders[s]
  /\ holders' = [holders EXCEPT ![s] = @ \ {t}]

Next == \E t \in Task, s \in Session : Take(t, s) \/ Give(t, s)

Spec == Init /\ [][Next]_holders
=============================================================================
