---------------------------- MODULE MCWorkflowRun ---------------------------
(* Instances of WorkflowRun for TLC: every bound is in the configurations. *)
EXTENDS WorkflowRun
=============================================================================
