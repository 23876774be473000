--------------------------- MODULE MCSessionHost ---------------------------
(* SessionHost for TLC: session ids are model values of the configs. *)
EXTENDS SessionHost
CONSTANTS s1, s2
=============================================================================
