---------------------------- MODULE MCPermissions ---------------------------
(* Instances of Permissions for TLC: every bound is in the configurations. *)
EXTENDS Permissions
=============================================================================
