---------------------------- MODULE MCSopEngine ----------------------------
(* Instances of SopEngine for TLC. *)
EXTENDS SopEngine

Exec == [requires_confirmation |-> FALSE, kind |-> "Execute"]
Confirm == [requires_confirmation |-> TRUE, kind |-> "Execute"]
Check == [requires_confirmation |-> FALSE, kind |-> "Checkpoint"]

Def(mode, priority, steps, cooldown, concurrent) ==
  [execution_mode |-> mode, priority |-> priority, steps |-> steps,
   cooldown_secs |-> cooldown, max_concurrent |-> concurrent]

\* Approvals, cooldown and limits: one SOP under every mode that gates steps,
\* edited on disk to another mode, another number of steps, or removed.
OpsName == {"ops"}
Ops(d) == [n \in OpsName |-> d]
OpsCatalogs ==
  { Ops(Def("Supervised", "Normal", <<Exec, Confirm>>, 1, 1)),
    Ops(Def("StepByStep", "Normal", <<Exec, Exec>>, 0, 3)),
    Ops(Def("PriorityBased", "Low", <<Exec>>, 2, 2)),
    <<>> }

\* Checkpoints: one deterministic SOP, which an edit may shorten.
DetName == {"det"}
Det(steps) == [n \in DetName |-> Def("Deterministic", "Normal", steps, 0, 2)]
DetCatalogs == { Det(<<Exec, Check, Exec>>), Det(<<Exec>>) }

\* One unchanging definition each, for the runs about the documents.
OneOpsCatalog == { Ops(Def("Auto", "Normal", <<Confirm, Exec>>, 0, 1)) }
OneDetCatalog == { Det(<<Exec, Check, Exec>>) }
=============================================================================
