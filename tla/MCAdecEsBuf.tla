---------------------------- MODULE MCAdecEsBuf ----------------------------
(* Instances of AdecEsBuf for TLC. *)
EXTENDS AdecEsBuf
============================================================================
