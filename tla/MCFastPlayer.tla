---------------------------- MODULE MCFastPlayer ----------------------------
(* An instance of FastPlayer for TLC. *)
EXTENDS FastPlayer, TLC

CONSTANTS u1, u2, k1, k2, idle, fdpthread
=============================================================================
