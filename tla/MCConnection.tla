---------------------------- MODULE MCConnection ----------------------------
(* Connection for TLC: clients and sessions are model values of the configs. *)
EXTENDS Connection
CONSTANTS a, b, s1
=============================================================================
