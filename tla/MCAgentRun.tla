----------------------------- MODULE MCAgentRun -----------------------------
(* AgentRun for TLC: no further definitions, only the bounds of the configs. *)
EXTENDS AgentRun
=============================================================================
