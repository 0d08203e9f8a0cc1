---------------------------- MODULE MCCheckQueue ----------------------------
(* Small instances of CheckQueue for TLC, and the mutants of its actions. *)
EXTENDS CheckQueue
=============================================================================
