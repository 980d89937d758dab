--------------------------- MODULE MCSessionQueue ---------------------------
(* SessionQueue with three connections that compete for one session. *)
EXTENDS SessionQueue

CONSTANTS s1, t1, t2, t3

OneSession == [t \in Task |-> s1]
=============================================================================
