----------------------------- MODULE MCCoreSched -----------------------------
(* Instances of CoreSched for TLC. *)
EXTENDS CoreSchedProps, TLC

Siblings == {0, 1}
First == {0}
Nobody == {}
Symmetric == Permutations(Task)

(* What happens after the case PicksAreValid is about is not followed.     *)
NotStale == ~stale
=============================================================================
