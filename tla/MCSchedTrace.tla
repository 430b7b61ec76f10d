---------------------------- MODULE MCSchedTrace ----------------------------
(* Instances of SchedTrace for TLC. *)
EXTENDS SchedTraceProps, TLC

Symmetric == Permutations(Task)
=============================================================================
