------------------------------ MODULE MCWakeup ------------------------------
(* Instances of Wakeup for TLC. *)
EXTENDS WakeupProps, TLC

CONSTANTS c1, c2, c3, t1, t2

AnyCpu == [t \in Task |-> CPU]
OneStays == [t \in Task |-> IF t = t1 THEN CPU ELSE {c1}]
OneDomain == [c \in CPU |-> 1]
OwnDomains == [c \in CPU |-> c]
AllUninterruptible == [t \in Task |-> "UNINTERRUPTIBLE"]
AllInterruptible == [t \in Task |-> "INTERRUPTIBLE"]
Mixed == [t \in Task |-> IF t = t1 THEN "INTERRUPTIBLE" ELSE "UNINTERRUPTIBLE"]

\* Where any task may run on any CPU and all share a cache, the CPUs are alike.
Alike == Permutations(CPU)
=============================================================================
