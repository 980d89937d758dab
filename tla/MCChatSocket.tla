---------------------------- MODULE MCChatSocket ----------------------------
(* ChatSocket with connections that all name one session. *)
EXTENDS ChatSocket

CONSTANT s1

OneSession == [t \in Task |-> s1]
=============================================================================
