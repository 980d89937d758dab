-------------------------- MODULE MCWorkflowApproval --------------------------
(* WorkflowApproval with racing replies and clicks. *)
EXTENDS WorkflowApproval, TLC

CONSTANTS m1, m2, c1

Symmetric == Permutations({m1, m2})
=============================================================================
