----------------------------- MODULE MCAffinity -----------------------------
(* Instances of Affinity for TLC. *)
EXTENDS AffinityProps, TLC

\* The CPUs are alike, and so are the callers (none of them P).
Symmetric == Permutations(CPU) \cup Permutations(Caller)
=============================================================================
