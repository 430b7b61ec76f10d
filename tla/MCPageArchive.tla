---------------------------- MODULE MCPageArchive ----------------------------
(* Instances of PageArchive for TLC. *)
EXTENDS PageArchiveProps
=============================================================================
