------------------------------ MODULE MCCoreLock -----------------------------
(* Instances of CoreLock for TLC. *)
EXTENDS CoreLockProps

Three == {0, 1, 2}
FirstTwo == {0, 1}
=============================================================================
