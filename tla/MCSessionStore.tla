--------------------------- MODULE MCSessionStore ---------------------------
(* SessionStore for TLC: processes are model values of the configs. *)
EXTENDS SessionStore
CONSTANTS p, q
=============================================================================
