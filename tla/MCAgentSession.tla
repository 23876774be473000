--------------------------- MODULE MCAgentSession ---------------------------
(* AgentSession for TLC: the bounds of the configs are all it needs. *)
EXTENDS AgentSession
=============================================================================
