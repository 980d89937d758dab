--------------------------- MODULE MCCronScheduler ---------------------------
(* CronScheduler with a recurring job, an added one-shot, a declared job with a last *)
(* occurrence, and a row that cannot be decoded.                                     *)
EXTENDS CronScheduler, TLC

CONSTANTS tick, once, decl, bad

Every(n) == [kind |-> "every", n |-> n]
At(n) == [kind |-> "at", n |-> n]
Until(n) == [kind |-> "until", n |-> n]

Schedules == (tick :> Every(1)) @@ (once :> At(1)) @@ (decl :> Until(1)) @@ (bad :> At(0))
Edited == {Every(1), At(2)}
=============================================================================
