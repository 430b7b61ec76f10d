---------------------------- MODULE CoreLockProofs ---------------------------
(* Proofs about the runqueue locks under core scheduling, for any number   *)
(* of siblings and cookies.                                                *)
EXTENDS CoreLockProps, FiniteSetTheorems, WellFoundedInduction, TLAPS

-----------------------------------------------------------------------------
(* The switch: a section that did not see the static key is over before    *)
(* the runqueues are switched on, and the key stays until they are off.    *)
Enabling == step = "flip" /\ work # "put"

SwitchInv ==
  /\ core_enabled => key
  /\ core_enabled \/ Enabling => \A c \in Cpu : ~plain[c]
  /\ step = "rcu" \/ Enabling => key
  /\ step = "unkey" => ~core_enabled /\ work = "put"
  /\ work = "put" => step \in {"flip", "unkey"}
  /\ big = "flip" => step = "flip"

(* The leader: the CPUs that are up have one, which is up; the others are  *)
(* on their own, and only one CPU at a time is on its way.                 *)
Live == {c \in Cpu : hp[c] \in {"up", "leaving"}}

LeaderInv ==
  /\ \A r \in Live : core[r] \in Live /\ \A s \in Live : core[r] = core[s]
  /\ \A r \in Cpu \ Live : core[r] = r
  /\ \A r \in Cpu : hp[r] = "leaving" /\ big # "down" => core[r] # r
  /\ \A r, s \in Cpu : hp[r] \notin {"up", "dead"} /\ hp[s] \notin {"up", "dead"} => r = s
  /\ \A r \in Cpu : hp[r] = "leaving" => \E s \in Cpu : hp[s] = "up"

(* The locks a CPU holds are those of the runqueues it has locked so far.  *)
HoldsFor(c, rs) == \A l \in Cpu : owner[l] = c <=> \E r \in rs : l = __rq_lockp(r)

LockOf(c) ==
  /\ pc[c] = "run" => HoldsFor(c, {})
  /\ pc[c] = "spin" => HoldsFor(c, {}) \/ (mate[c] # None /\ HoldsFor(c, {mate[c]}))
  /\ pc[c] = "first" => mate[c] # None /\ HoldsFor(c, {want[c]})
  /\ pc[c] = "in" => HoldsFor(c, {want[c], mate[c]} \ {None})
  /\ pc[c] = "spin" /\ plain[c] => lk[c] = want[c]

LockInv == \A c \in Cpu : LockOf(c)

(* The count: while it is not zero, or about to rise, the switch is on.    *)
Living == {x \in Cookie : life[x] = "live"}
Owed == IF work \in {"queued", "wait"} THEN 1 ELSE 0

CountInv ==
  /\ sched_core_count = Cardinality(Living) + Owed
  /\ sched_core_count # 0 \/ step = "inc" => core_enabled
  /\ work = "put" => sched_core_count = 0

LockingInv == TypeOK /\ SwitchInv /\ LeaderInv /\ LockInv /\ CountInv

(* A set of numbers has a smallest one, ...                                *)
LEMMA NatMin ==
  ASSUME NEW S \in SUBSET Nat, S # {}
  PROVE  \E x \in S : \A y \in S : x =< y
<1>1. PICK x \in S : \A y \in S : ~(<<y, x>> \in OpToRel(<, Nat))
  BY NatLessThanWellFounded, WFMin
<1>2. ASSUME NEW y \in S PROVE x =< y
  <2>1. <<y, x>> \in Nat \X Nat /\ <<y, x>>[1] = y /\ <<y, x>>[2] = x
    OBVIOUS
  <2>2. ~(y < x)
    BY <1>1, <2>1, Zenon DEF OpToRel
  <2> QED
    BY <2>2
<1> QED
  BY <1>2

(* ... which is what Min chooses of a set of CPUs.                         *)
LEMMA MinIsMember ==
  ASSUME NEW S \in SUBSET Cpu, S # {}
  PROVE  Min(S) \in S /\ \A y \in S : Min(S) =< y
<1>1. \E x \in S : \A y \in S : x =< y
  BY NatMin, CpuAssumption
<1> QED
  BY <1>1 DEF Min

(* A set of CPUs also has a last one: the smallest set without one would   *)
(* have a smaller one.                                                     *)
LEMMA LastCpu ==
  ASSUME NEW S \in SUBSET Cpu, S # {}
  PROVE  \E x \in S : \A y \in S : y =< x
<1>. DEFINE Lasts(T) == \E x \in T : \A y \in T : y =< x
            Sizes == {Cardinality(T) : T \in {T \in SUBSET Cpu : T # {} /\ ~Lasts(T)}}
<1>1. \A T \in SUBSET Cpu : IsFiniteSet(T) /\ Cardinality(T) \in Nat
  BY CpuAssumption, FS_Subset, FS_CardinalityType
<1>2. ASSUME ~Lasts(S) PROVE FALSE
  <2>1. Sizes \in SUBSET Nat /\ Sizes # {}
    BY <1>1, <1>2
  <2>2. PICK n \in Sizes : \A m \in Sizes : n =< m
    BY <2>1, NatMin
  <2>3. PICK T \in SUBSET Cpu : T # {} /\ ~Lasts(T) /\ n = Cardinality(T)
    OBVIOUS
  <2>4. PICK x \in T : TRUE
    BY <2>3
  <2>5. T \ {x} \in SUBSET Cpu /\ Cardinality(T \ {x}) = n - 1
    BY <1>1, <2>3, <2>4, FS_RemoveElement
  <2>6. T \ {x} # {} /\ Lasts(T \ {x})
    <3>1. T \subseteq Nat
      BY CpuAssumption
    <3>2. ~(T \subseteq {x})
      BY <2>3, <2>4, <3>1
    <3>3. Cardinality(T \ {x}) \notin Sizes
      BY <2>1, <2>2, <2>5
    <3> QED
      BY <2>5, <3>2, <3>3
  <2>7. PICK y \in T \ {x} : \A z \in T \ {x} : z =< y
    BY <2>6
  <2>8. T \subseteq Nat
    BY CpuAssumption
  <2>9. x =< y \/ y =< x
    BY <2>4, <2>7, <2>8
  <2> QED
    BY <2>3, <2>4, <2>7, <2>8, <2>9
<1> QED
  BY <1>2

-----------------------------------------------------------------------------
LEMMA SwitchStep ==
  ASSUME LockingInv, [Next]_vars PROVE SwitchInv'
<1>. USE DEF cpuVars, cookieVars, switchVars
<1>1. ASSUME NEW c \in Cpu, NEW r \in Cpu, raw_spin_rq_lock(c, r) PROVE SwitchInv'
  BY <1>1 DEF raw_spin_rq_lock, Spin, LockingInv, TypeOK, SwitchInv, Enabling
<1>2. ASSUME NEW c \in Cpu, NEW r \in Cpu, NEW s \in Cpu,
              double_rq_lock(c, r, s) PROVE SwitchInv'
  BY <1>2 DEF double_rq_lock, Spin, LockingInv, TypeOK, SwitchInv, Enabling
<1>3. ASSUME NEW c \in Cpu, Acquire(c) PROVE SwitchInv'
  BY <1>3 DEF Acquire, Spin, LockingInv, TypeOK, SwitchInv, Enabling
<1>4. ASSUME NEW c \in Cpu, SecondLock(c) PROVE SwitchInv'
  BY <1>4 DEF SecondLock, Spin, LockingInv, TypeOK, SwitchInv, Enabling
<1>5. ASSUME NEW c \in Cpu, raw_spin_rq_unlock(c) PROVE SwitchInv'
  BY <1>5 DEF raw_spin_rq_unlock, LockingInv, TypeOK, SwitchInv, Enabling
<1>6. ASSUME NEW c \in Cpu, Deactivate(c) PROVE SwitchInv'
  BY <1>6 DEF Deactivate, LockingInv, TypeOK, SwitchInv, Enabling
<1>7. ASSUME NEW c \in Cpu, sched_core_cpu_deactivate(c) PROVE SwitchInv'
  BY <1>7 DEF sched_core_cpu_deactivate, sched_core_unlock, LockingInv, TypeOK,
     SwitchInv, Enabling, CoreLocked
<1>8. ASSUME NEW c \in Cpu, Refused(c) PROVE SwitchInv'
  BY <1>8 DEF Refused, LockingInv, TypeOK, SwitchInv, Enabling
<1>9. ASSUME NEW c \in Cpu, sched_core_cpu_dying(c) PROVE SwitchInv'
  BY <1>9 DEF sched_core_cpu_dying, LockingInv, TypeOK, SwitchInv, Enabling
<1>10. ASSUME NEW c \in Cpu, Dead(c) PROVE SwitchInv'
  BY <1>10 DEF Dead, LockingInv, TypeOK, SwitchInv, Enabling
<1>11. ASSUME NEW c \in Cpu, Start(c) PROVE SwitchInv'
  BY <1>11 DEF Start, LockingInv, TypeOK, SwitchInv, Enabling
<1>12. ASSUME NEW c \in Cpu, sched_core_cpu_starting(c) PROVE SwitchInv'
  BY <1>12 DEF sched_core_cpu_starting, sched_core_unlock, LockingInv, TypeOK,
     SwitchInv, Enabling, CoreLocked
<1>13. ASSUME sched_core_lock PROVE SwitchInv'
  BY <1>13 DEF sched_core_lock, LockingInv, TypeOK, SwitchInv, Enabling
<1>14. ASSUME EnableKey PROVE SwitchInv'
  BY <1>14 DEF EnableKey, LockingInv, TypeOK, SwitchInv, Enabling
<1>15. ASSUME synchronize_rcu PROVE SwitchInv'
  BY <1>15 DEF synchronize_rcu, LockingInv, TypeOK, SwitchInv, Enabling
<1>16. ASSUME FlipStart PROVE SwitchInv'
  BY <1>16 DEF FlipStart, LockingInv, TypeOK, SwitchInv, Enabling
<1>17. ASSUME __sched_core_flip PROVE SwitchInv'
  BY <1>17 DEF __sched_core_flip, sched_core_unlock, LockingInv, TypeOK, SwitchInv,
     Enabling, CoreLocked
<1>18. ASSUME NEW x \in Cookie, sched_core_get(x) PROVE SwitchInv'
  BY <1>18 DEF sched_core_get, LockingInv, TypeOK, SwitchInv, Enabling
<1>19. ASSUME NEW x \in Cookie, GetLocks(x) PROVE SwitchInv'
  BY <1>19 DEF GetLocks, LockingInv, TypeOK, SwitchInv, Enabling, mutexFree
<1>20. ASSUME NEW x \in Cookie, GetDone(x) PROVE SwitchInv'
  BY <1>20 DEF GetDone, LockingInv, TypeOK, SwitchInv, Enabling
<1>21. ASSUME NEW x \in Cookie, sched_core_put(x) PROVE SwitchInv'
  BY <1>21 DEF sched_core_put, LockingInv, TypeOK, SwitchInv, Enabling
<1>22. ASSUME __sched_core_put PROVE SwitchInv'
  BY <1>22 DEF __sched_core_put, LockingInv, TypeOK, SwitchInv, Enabling
<1>23. ASSUME PutLocks PROVE SwitchInv'
  BY <1>23 DEF PutLocks, LockingInv, TypeOK, SwitchInv, Enabling, mutexFree
<1>24. ASSUME DisableKey PROVE SwitchInv'
  BY <1>24 DEF DisableKey, LockingInv, TypeOK, SwitchInv, Enabling
<1>25. ASSUME UNCHANGED vars PROVE SwitchInv'
  BY <1>25 DEF vars, LockingInv, TypeOK, SwitchInv, Enabling
<1>26. ASSUME NEW c \in Cpu, NEW r \in Cpu, raw_spin_rq_trylock(c, r) PROVE SwitchInv'
  BY <1>26 DEF raw_spin_rq_trylock, LockingInv, TypeOK, SwitchInv, Enabling
<1> QED
  BY <1>1, <1>2, <1>3, <1>4, <1>5, <1>6, <1>7, <1>8, <1>9, <1>10, <1>11, <1>12, <1>13,
     <1>14, <1>15, <1>16, <1>17, <1>18, <1>19, <1>20, <1>21, <1>22, <1>23, <1>24, <1>25,
     <1>26 DEF Next

LEMMA LeaderStep ==
  ASSUME LockingInv, [Next]_vars PROVE LeaderInv'
<1>. USE DEF cpuVars, cookieVars, switchVars
<1>1. ASSUME NEW c \in Cpu, NEW r \in Cpu, raw_spin_rq_lock(c, r) PROVE LeaderInv'
  BY <1>1 DEF raw_spin_rq_lock, LockingInv, LeaderInv, Live
<1>2. ASSUME NEW c \in Cpu, NEW r \in Cpu, NEW s \in Cpu,
              double_rq_lock(c, r, s) PROVE LeaderInv'
  BY <1>2 DEF double_rq_lock, LockingInv, LeaderInv, Live
<1>3. ASSUME NEW c \in Cpu, Acquire(c) PROVE LeaderInv'
  BY <1>3 DEF Acquire, LockingInv, LeaderInv, Live
<1>4. ASSUME NEW c \in Cpu, SecondLock(c) PROVE LeaderInv'
  BY <1>4 DEF SecondLock, LockingInv, LeaderInv, Live
<1>5. ASSUME NEW c \in Cpu, raw_spin_rq_unlock(c) PROVE LeaderInv'
  BY <1>5 DEF raw_spin_rq_unlock, LockingInv, LeaderInv, Live
<1>6. ASSUME NEW c \in Cpu, Deactivate(c) PROVE LeaderInv'
  BY <1>6 DEF Deactivate, LockingInv, TypeOK, LeaderInv, Live, HotplugFree, Smt
<1>7. ASSUME NEW c \in Cpu, sched_core_cpu_deactivate(c) PROVE LeaderInv'
  <2>. DEFINE new == Min(Smt \ {c})
  <2>1. Smt = Live /\ c \in Live
    BY <1>7 DEF sched_core_cpu_deactivate, LockingInv, TypeOK, LeaderInv, Live, Smt
  <2>2. new \in Live \ {c}
    <3>1. Smt \ {c} # {}
      BY <1>7 DEF sched_core_cpu_deactivate, LockingInv, LeaderInv, Smt
    <3> QED
      BY <2>1, <3>1, MinIsMember DEF Smt
  <2>3. CASE core[c] # c
    BY <1>7, <2>3 DEF sched_core_cpu_deactivate, NewLeader, sched_core_unlock, LockingInv,
                      TypeOK, LeaderInv, Live
  <2>4. CASE core[c] = c
    <3>1. core' = [t \in Cpu |-> IF t \in Live THEN new ELSE core[t]]
      BY <1>7, <2>1, <2>4 DEF sched_core_cpu_deactivate, NewLeader
    <3>2. hp' = hp /\ big' = "none" /\ Live' = Live
      BY <1>7 DEF sched_core_cpu_deactivate, sched_core_unlock, Live
    <3>3. \A r \in Live : core'[r] = new
      BY <3>1 DEF Live
    <3>4. \A r \in Cpu \ Live : core'[r] = r
      BY <3>1 DEF LockingInv, LeaderInv
    <3>5. \A r \in Cpu : hp[r] = "leaving" => r = c
      BY <1>7 DEF sched_core_cpu_deactivate, LockingInv, LeaderInv
    <3> HIDE DEF new
    <3> QED
      BY <2>1, <2>2, <3>2, <3>3, <3>4, <3>5 DEF LockingInv, LeaderInv
  <2> QED
    BY <2>3, <2>4
<1>8. ASSUME NEW c \in Cpu, Refused(c) PROVE LeaderInv'
  BY <1>8 DEF Refused, LockingInv, TypeOK, LeaderInv, Live
<1>9. ASSUME NEW c \in Cpu, sched_core_cpu_dying(c) PROVE LeaderInv'
  BY <1>9 DEF sched_core_cpu_dying, LockingInv, TypeOK, LeaderInv, Live
<1>10. ASSUME NEW c \in Cpu, Dead(c) PROVE LeaderInv'
  BY <1>10 DEF Dead, LockingInv, TypeOK, LeaderInv, Live
<1>11. ASSUME NEW c \in Cpu, Start(c) PROVE LeaderInv'
  BY <1>11 DEF Start, LockingInv, TypeOK, LeaderInv, Live, HotplugFree
<1>12. ASSUME NEW c \in Cpu, sched_core_cpu_starting(c) PROVE LeaderInv'
  BY <1>12 DEF sched_core_cpu_starting, sched_core_unlock, LockingInv, TypeOK,
     LeaderInv, Live, CoreLocked, Smt
<1>13. ASSUME sched_core_lock PROVE LeaderInv'
  BY <1>13 DEF sched_core_lock, LockingInv, LeaderInv, Live
<1>14. ASSUME EnableKey PROVE LeaderInv'
  BY <1>14 DEF EnableKey, LockingInv, LeaderInv, Live
<1>15. ASSUME synchronize_rcu PROVE LeaderInv'
  BY <1>15 DEF synchronize_rcu, LockingInv, LeaderInv, Live
<1>16. ASSUME FlipStart PROVE LeaderInv'
  BY <1>16 DEF FlipStart, LockingInv, TypeOK, LeaderInv, Live, HotplugFree, SwitchInv
<1>17. ASSUME __sched_core_flip PROVE LeaderInv'
  BY <1>17 DEF __sched_core_flip, sched_core_unlock, LockingInv, TypeOK, LeaderInv,
     Live, CoreLocked
<1>18. ASSUME NEW x \in Cookie, sched_core_get(x) PROVE LeaderInv'
  BY <1>18 DEF sched_core_get, LockingInv, LeaderInv, Live
<1>19. ASSUME NEW x \in Cookie, GetLocks(x) PROVE LeaderInv'
  BY <1>19 DEF GetLocks, LockingInv, LeaderInv, Live
<1>20. ASSUME NEW x \in Cookie, GetDone(x) PROVE LeaderInv'
  BY <1>20 DEF GetDone, LockingInv, LeaderInv, Live
<1>21. ASSUME NEW x \in Cookie, sched_core_put(x) PROVE LeaderInv'
  BY <1>21 DEF sched_core_put, LockingInv, LeaderInv, Live
<1>22. ASSUME __sched_core_put PROVE LeaderInv'
  BY <1>22 DEF __sched_core_put, LockingInv, LeaderInv, Live
<1>23. ASSUME PutLocks PROVE LeaderInv'
  BY <1>23 DEF PutLocks, LockingInv, LeaderInv, Live
<1>24. ASSUME DisableKey PROVE LeaderInv'
  BY <1>24 DEF DisableKey, LockingInv, LeaderInv, Live
<1>25. ASSUME UNCHANGED vars PROVE LeaderInv'
  BY <1>25 DEF vars, LockingInv, LeaderInv, Live
<1>26. ASSUME NEW c \in Cpu, NEW r \in Cpu, raw_spin_rq_trylock(c, r) PROVE LeaderInv'
  BY <1>26 DEF raw_spin_rq_trylock, LockingInv, LeaderInv, Live
<1> QED
  BY <1>1, <1>2, <1>3, <1>4, <1>5, <1>6, <1>7, <1>8, <1>9, <1>10, <1>11, <1>12, <1>13,
     <1>14, <1>15, <1>16, <1>17, <1>18, <1>19, <1>20, <1>21, <1>22, <1>23, <1>24, <1>25,
     <1>26 DEF Next

LEMMA LockFrame ==
  ASSUME NEW d \in Cpu, LockOf(d),
         pc'[d] = pc[d], want'[d] = want[d], mate'[d] = mate[d], lk'[d] = lk[d],
         plain'[d] = plain[d],
         \A l \in Cpu : owner'[l] = d <=> owner[l] = d,
         core' = core, core_enabled' = core_enabled
  PROVE  LockOf(d)'
BY DEF LockOf, HoldsFor, __rq_lockp

(* Whoever holds all locks of the core may change what lock belongs to     *)
(* what runqueue: the CPUs that hold a lock hold it for a CPU that is off. *)
LEMMA AllLocked ==
  ASSUME LockingInv, \A c \in Smt : owner[c] = All, sched_core_unlock, UNCHANGED cpuVars,
         \A r \in Cpu \ Smt : core'[r] = core[r]
  PROVE  LockInv'
<1>. USE NameAssumption
<1>1. \A r \in Cpu \ Smt : core[r] = r /\ __rq_lockp(r) = r /\ __rq_lockp(r)' = r
  BY DEF LockingInv, LeaderInv, Live, Smt, __rq_lockp
<1>2. \A r \in Smt : __rq_lockp(r) \in Smt
  BY DEF LockingInv, LeaderInv, Live, Smt, __rq_lockp
<1>3. \A d \in Cpu, l \in Cpu : owner'[l] = d <=> owner[l] = d
  BY DEF sched_core_unlock, LockingInv, TypeOK
<1>4. ASSUME NEW d \in Cpu, NEW rs \in SUBSET Cpu, HoldsFor(d, rs) PROVE HoldsFor(d, rs)'
  <2>1. \A r \in rs : r \notin Smt
    <3> SUFFICES ASSUME NEW r \in rs, r \in Smt PROVE FALSE
      OBVIOUS
    <3>1. owner[__rq_lockp(r)] = All /\ __rq_lockp(r) \in Cpu
      BY <1>2 DEF Smt
    <3> QED
      BY <1>4, <3>1 DEF HoldsFor
  <2> QED
    BY <1>1, <1>3, <1>4, <2>1 DEF HoldsFor
<1>5. ASSUME NEW d \in Cpu PROVE LockOf(d)'
  <2>1. want[d] \in Cpu /\ mate[d] \in Cpu \cup {None} /\ LockOf(d)
    BY DEF LockingInv, TypeOK, LockInv
  <2>2. UNCHANGED <<pc, want, mate, lk, plain>>
    BY DEF cpuVars
  <2> QED
    BY <1>4, <2>1, <2>2 DEF LockOf
<1> QED
  BY <1>5 DEF LockInv

(* What the property says, from the invariant: unlocking a runqueue gives  *)
(* back the lock that locking it took.                                     *)
LEMMA MyLocks ==
  ASSUME LockingInv, NEW c \in Cpu, pc[c] = "in" PROVE \A l \in Locks(c) : owner[l] = c
<1>1. want[c] \in Cpu /\ mate[c] \in Cpu \cup {None} /\ HoldsFor(c, {want[c], mate[c]} \ {None})
  BY DEF LockingInv, TypeOK, LockInv, LockOf
<1>2. \A r \in Cpu : __rq_lockp(r) \in Cpu
  BY DEF LockingInv, TypeOK, __rq_lockp
<1>3. \A r \in Cpu : (IF key /\ core_enabled THEN core[r] ELSE r) = __rq_lockp(r)
  BY DEF LockingInv, SwitchInv, __rq_lockp
<1> QED
  BY <1>1, <1>2, <1>3 DEF Locks, HoldsFor

(* Spinning for the lock of r: without the static key it is r's own.       *)
LEMMA SpinFor ==
  ASSUME LockingInv, NEW c \in Cpu, NEW r \in Cpu, Spin(c, r)
  PROVE  pc'[c] = "spin" /\ want'[c] = r /\ (plain'[c] => lk'[c] = want'[c])
BY DEF Spin, LockingInv, TypeOK, SwitchInv, __rq_lockp

LEMMA LockStep ==
  ASSUME LockingInv, [Next]_vars PROVE LockInv'
<1>. USE NameAssumption DEF cpuVars, cookieVars, switchVars
<1>1. ASSUME NEW c \in Cpu, NEW r \in Cpu, raw_spin_rq_lock(c, r) PROVE LockInv'
  <2>1. ASSUME NEW d \in Cpu \ {c} PROVE LockOf(d)'
    BY <1>1, LockFrame DEF raw_spin_rq_lock, Spin, LockingInv, TypeOK, LockInv
  <2>2. LockOf(c)'
    <3>1. pc[c] = "run" /\ LockOf(c)
      BY <1>1 DEF raw_spin_rq_lock, LockingInv, LockInv
    <3>2. HoldsFor(c, {})'
      BY <1>1, <3>1 DEF raw_spin_rq_lock, LockOf, HoldsFor
    <3> QED
      BY <1>1, <3>2, SpinFor DEF raw_spin_rq_lock, LockOf
  <2> QED
    BY <2>1, <2>2 DEF LockInv
<1>2. ASSUME NEW c \in Cpu, NEW r \in Cpu, NEW s \in Cpu,
              double_rq_lock(c, r, s) PROVE LockInv'
  <2>1. ASSUME NEW d \in Cpu \ {c} PROVE LockOf(d)'
    BY <1>2, LockFrame DEF double_rq_lock, Spin, LockingInv, TypeOK, LockInv
  <2>2. LockOf(c)'
    <3>1. pc[c] = "run" /\ LockOf(c)
      BY <1>2 DEF double_rq_lock, LockingInv, LockInv
    <3>2. HoldsFor(c, {})'
      BY <1>2, <3>1 DEF double_rq_lock, LockOf, HoldsFor
    <3> QED
      BY <1>2, <3>2, SpinFor DEF double_rq_lock, LockOf
  <2> QED
    BY <2>1, <2>2 DEF LockInv
<1>3. ASSUME NEW c \in Cpu, Acquire(c) PROVE LockInv'
  <2>1. ASSUME NEW d \in Cpu \ {c} PROVE LockOf(d)'
    BY <1>3, LockFrame DEF Acquire, Spin, LockingInv, TypeOK, LockInv
  <2>2. LockOf(c)'
    <3>1. LockOf(c) /\ pc[c] = "spin" /\ want[c] \in Cpu /\ mate[c] \in Cpu \cup {None}
      BY <1>3 DEF Acquire, LockingInv, LockInv, TypeOK
    <3>2. \A r \in Cpu : __rq_lockp(r)' = __rq_lockp(r)
      BY <1>3 DEF Acquire, __rq_lockp
    <3>3. CASE Rechecked(c)
      <4>1. lk[c] = __rq_lockp(want[c])
        BY <3>1, <3>3 DEF Rechecked, LockOf, LockingInv, SwitchInv, __rq_lockp
      <4>2. /\ owner' = [owner EXCEPT ![lk[c]] = c] /\ lk[c] \in Cpu
            /\ pc'[c] = IF mate[c] = None \/ Holds(c) THEN "in" ELSE "first"
            /\ want'[c] = want[c] /\ mate'[c] = mate[c]
        BY <1>3, <3>3 DEF Acquire, LockingInv, TypeOK
      <4>3. CASE HoldsFor(c, {})
        <5>1. ~Holds(c)
          BY <4>3 DEF HoldsFor, Holds
        <5>2. \A l \in Cpu : owner'[l] = c <=> l = __rq_lockp(want[c])'
          BY <3>1, <3>2, <4>1, <4>2, <4>3 DEF HoldsFor, LockingInv, TypeOK
        <5> QED
          BY <3>1, <4>2, <5>1, <5>2 DEF LockOf, HoldsFor
      <4>4. CASE mate[c] # None /\ HoldsFor(c, {mate[c]})
        <5>1. Holds(c)
          BY <3>1, <4>4 DEF HoldsFor, Holds, LockingInv, TypeOK, __rq_lockp
        <5>2. \A l \in Cpu :
                owner'[l] = c <=> l = __rq_lockp(want[c])' \/ l = __rq_lockp(mate[c])'
          BY <3>1, <3>2, <4>1, <4>2, <4>4 DEF HoldsFor, LockingInv, TypeOK
        <5> QED
          BY <3>1, <4>2, <4>4, <5>1, <5>2 DEF LockOf, HoldsFor
      <4> QED
        BY <3>1, <4>3, <4>4 DEF LockOf
    <3>4. CASE ~Rechecked(c)
      <4>1. Spin(c, want[c]) /\ UNCHANGED <<owner, mate>>
        BY <1>3, <3>4 DEF Acquire
      <4>2. pc'[c] = "spin" /\ want'[c] = want[c] /\ (plain'[c] => lk'[c] = want'[c])
        BY <3>1, <4>1, SpinFor
      <4> QED
        BY <3>1, <3>2, <4>1, <4>2 DEF LockOf, HoldsFor
    <3> QED
      BY <3>3, <3>4
  <2> QED
    BY <2>1, <2>2 DEF LockInv
<1>4. ASSUME NEW c \in Cpu, SecondLock(c) PROVE LockInv'
  <2>1. ASSUME NEW d \in Cpu \ {c} PROVE LockOf(d)'
    BY <1>4, LockFrame DEF SecondLock, Spin, LockingInv, TypeOK, LockInv
  <2>2. LockOf(c)'
    <3>1. /\ LockOf(c) /\ pc[c] = "first" /\ want[c] \in Cpu /\ mate[c] \in Cpu
          /\ owner' = owner
      BY <1>4 DEF SecondLock, LockingInv, LockInv, TypeOK, LockOf
    <3>2. \A r \in Cpu : __rq_lockp(r)' = __rq_lockp(r)
      BY <1>4 DEF SecondLock, __rq_lockp
    <3>3. \A l \in Cpu : owner'[l] = c <=> l = __rq_lockp(want[c])
      BY <3>1 DEF LockOf, HoldsFor
    <3>4. CASE __rq_lockp(mate[c]) = __rq_lockp(want[c])
      <4>1. pc'[c] = "in" /\ want'[c] = want[c] /\ mate'[c] = mate[c]
        BY <1>4, <3>4 DEF SecondLock, LockingInv, TypeOK
      <4> QED
        BY <3>1, <3>2, <3>3, <3>4, <4>1 DEF LockOf, HoldsFor
    <3>5. CASE __rq_lockp(mate[c]) # __rq_lockp(want[c])
      <4>1. Spin(c, mate[c]) /\ mate'[c] = want[c]
        BY <1>4, <3>5 DEF SecondLock, LockingInv, TypeOK
      <4>2. pc'[c] = "spin" /\ want'[c] = mate[c] /\ (plain'[c] => lk'[c] = want'[c])
        BY <3>1, <4>1, SpinFor
      <4> QED
        BY <3>1, <3>2, <3>3, <4>1, <4>2 DEF LockOf, HoldsFor
    <3> QED
      BY <3>4, <3>5
  <2> QED
    BY <2>1, <2>2 DEF LockInv
<1>5. ASSUME NEW c \in Cpu, raw_spin_rq_unlock(c) PROVE LockInv'
  <2>1. ASSUME NEW d \in Cpu \ {c} PROVE LockOf(d)'
    <3>1. \A l \in Locks(c) : owner[l] = c
      BY <1>5, MyLocks DEF raw_spin_rq_unlock
    <3>2. \A l \in Cpu : owner'[l] = d <=> owner[l] = d
      BY <1>5, <3>1 DEF raw_spin_rq_unlock, LockingInv, TypeOK
    <3> QED
      BY <1>5, <3>2, LockFrame DEF raw_spin_rq_unlock, LockingInv, TypeOK, LockInv
  <2>2. LockOf(c)'
    <3>1. \A l \in Cpu : owner[l] = c => l \in Locks(c)
      BY <1>5 DEF raw_spin_rq_unlock, Locks, LockingInv, LockInv, LockOf, HoldsFor,
         SwitchInv,
                   __rq_lockp
    <3> QED
      BY <1>5, <3>1 DEF raw_spin_rq_unlock, LockOf, HoldsFor, LockingInv, TypeOK
  <2> QED
    BY <2>1, <2>2 DEF LockInv
<1>6. ASSUME NEW c \in Cpu, Deactivate(c) PROVE LockInv'
  BY <1>6 DEF Deactivate, LockingInv, TypeOK, LockInv, LockOf, HoldsFor, __rq_lockp
<1>7. ASSUME NEW c \in Cpu, sched_core_cpu_deactivate(c) PROVE LockInv'
  <2>1. \A r \in Cpu \ Smt : core'[r] = core[r]
    BY <1>7 DEF sched_core_cpu_deactivate, NewLeader, LockingInv, TypeOK
  <2> QED
    BY <1>7, <2>1, AllLocked DEF sched_core_cpu_deactivate, CoreLocked
<1>8. ASSUME NEW c \in Cpu, Refused(c) PROVE LockInv'
  BY <1>8 DEF Refused, LockingInv, TypeOK, LockInv, LockOf, HoldsFor, __rq_lockp
<1>9. ASSUME NEW c \in Cpu, sched_core_cpu_dying(c) PROVE LockInv'
  BY <1>9 DEF sched_core_cpu_dying, LockingInv, TypeOK, LockInv, LockOf, HoldsFor,
     __rq_lockp
<1>10. ASSUME NEW c \in Cpu, Dead(c) PROVE LockInv'
  BY <1>10 DEF Dead, LockingInv, TypeOK, LockInv, LockOf, HoldsFor, __rq_lockp
<1>11. ASSUME NEW c \in Cpu, Start(c) PROVE LockInv'
  BY <1>11 DEF Start, LockingInv, TypeOK, LockInv, LockOf, HoldsFor, __rq_lockp
<1>12. ASSUME NEW c \in Cpu, sched_core_cpu_starting(c) PROVE LockInv'
  <2>1. \A r \in Cpu \ Smt : core'[r] = core[r]
    BY <1>12 DEF sched_core_cpu_starting, Smt, LockingInv, TypeOK
  <2> QED
    BY <1>12, <2>1, AllLocked DEF sched_core_cpu_starting, CoreLocked
<1>13. ASSUME sched_core_lock PROVE LockInv'
  <2>1. ASSUME NEW d \in Cpu PROVE LockOf(d)'
    BY <1>13, LockFrame DEF sched_core_lock, LockingInv, TypeOK, LockInv
  <2> QED
    BY <2>1 DEF LockInv
<1>14. ASSUME EnableKey PROVE LockInv'
  BY <1>14 DEF EnableKey, LockingInv, TypeOK, LockInv, LockOf, HoldsFor, __rq_lockp
<1>15. ASSUME synchronize_rcu PROVE LockInv'
  BY <1>15 DEF synchronize_rcu, LockingInv, TypeOK, LockInv, LockOf, HoldsFor, __rq_lockp
<1>16. ASSUME FlipStart PROVE LockInv'
  BY <1>16 DEF FlipStart, LockingInv, TypeOK, LockInv, LockOf, HoldsFor, __rq_lockp
<1>17. ASSUME __sched_core_flip PROVE LockInv'
  BY <1>17, AllLocked DEF __sched_core_flip, CoreLocked
<1>18. ASSUME NEW x \in Cookie, sched_core_get(x) PROVE LockInv'
  BY <1>18 DEF sched_core_get, LockingInv, TypeOK, LockInv, LockOf, HoldsFor, __rq_lockp
<1>19. ASSUME NEW x \in Cookie, GetLocks(x) PROVE LockInv'
  BY <1>19 DEF GetLocks, LockingInv, TypeOK, LockInv, LockOf, HoldsFor, __rq_lockp
<1>20. ASSUME NEW x \in Cookie, GetDone(x) PROVE LockInv'
  BY <1>20 DEF GetDone, LockingInv, TypeOK, LockInv, LockOf, HoldsFor, __rq_lockp
<1>21. ASSUME NEW x \in Cookie, sched_core_put(x) PROVE LockInv'
  BY <1>21 DEF sched_core_put, LockingInv, TypeOK, LockInv, LockOf, HoldsFor, __rq_lockp
<1>22. ASSUME __sched_core_put PROVE LockInv'
  BY <1>22 DEF __sched_core_put, LockingInv, TypeOK, LockInv, LockOf, HoldsFor, __rq_lockp
<1>23. ASSUME PutLocks PROVE LockInv'
  BY <1>23 DEF PutLocks, LockingInv, TypeOK, LockInv, LockOf, HoldsFor, __rq_lockp
<1>24. ASSUME DisableKey PROVE LockInv'
  BY <1>24 DEF DisableKey, LockingInv, TypeOK, LockInv, LockOf, HoldsFor, __rq_lockp
<1>25. ASSUME UNCHANGED vars PROVE LockInv'
  BY <1>25 DEF vars, LockingInv, TypeOK, LockInv, LockOf, HoldsFor, __rq_lockp
<1>26. ASSUME NEW c \in Cpu, NEW r \in Cpu, raw_spin_rq_trylock(c, r) PROVE LockInv'
  <2>1. __rq_lockp(r) \in Cpu /\ owner[__rq_lockp(r)] = None
    BY <1>26 DEF raw_spin_rq_trylock, LockingInv, TypeOK, __rq_lockp
  <2>2. ASSUME NEW d \in Cpu \ {c} PROVE LockOf(d)'
    <3>1. \A l \in Cpu : owner'[l] = d <=> owner[l] = d
      BY <1>26, <2>1 DEF raw_spin_rq_trylock, LockingInv, TypeOK
    <3> QED
      BY <1>26, <3>1, LockFrame DEF raw_spin_rq_trylock, LockingInv, TypeOK, LockInv
  <2>3. LockOf(c)'
    <3>1. /\ pc'[c] = "in" /\ want'[c] = want[c] /\ mate'[c] = r /\ want[c] \in Cpu
          /\ core' = core /\ core_enabled' = core_enabled
      BY <1>26 DEF raw_spin_rq_trylock, LockingInv, TypeOK
    <3>2. \A l \in Cpu : owner[l] = c <=> l = __rq_lockp(want[c])
      BY <1>26, <3>1 DEF raw_spin_rq_trylock, LockingInv, LockInv, LockOf, HoldsFor
    <3>3. \A l \in Cpu : owner'[l] = c <=> l = __rq_lockp(want[c]) \/ l = __rq_lockp(r)
      BY <1>26, <2>1, <3>2 DEF raw_spin_rq_trylock, LockingInv, TypeOK
    <3>4. \A q \in Cpu : __rq_lockp(q)' = __rq_lockp(q)
      BY <3>1 DEF __rq_lockp
    <3>5. {want'[c], mate'[c]} \ {None} = {want[c], r}
      BY <3>1
    <3> QED
      BY <3>1, <3>3, <3>4, <3>5 DEF LockOf, HoldsFor
  <2> QED
    BY <2>2, <2>3 DEF LockInv
<1> QED
  BY <1>1, <1>2, <1>3, <1>4, <1>5, <1>6, <1>7, <1>8, <1>9, <1>10, <1>11, <1>12, <1>13,
     <1>14, <1>15, <1>16, <1>17, <1>18, <1>19, <1>20, <1>21, <1>22, <1>23, <1>24, <1>25,
     <1>26 DEF Next

(* The cookies that live are counted, and so is what the work owes.        *)
LEMMA CountBounds ==
  ASSUME LockingInv
  PROVE  /\ IsFiniteSet(Living) /\ Cardinality(Living) \in Nat /\ Owed \in {0, 1}
         /\ sched_core_count \in Nat
         /\ sched_core_count = Cardinality(Living) + Owed
         /\ \A x \in Cookie : life[x] = "live" => Cardinality(Living) >= 1
         /\ work \in {"queued", "wait"} => sched_core_count >= 1
<1>1. IsFiniteSet(Living) /\ Cardinality(Living) \in Nat
  <2>1. Living \subseteq Cookie
    BY DEF Living
  <2> QED
    BY <2>1, CookieAssumption, FS_Subset, FS_CardinalityType
<1>2. \A x \in Cookie : life[x] = "live" => Cardinality(Living) >= 1
  <2> SUFFICES ASSUME NEW x \in Cookie, life[x] = "live" PROVE Cardinality(Living) # 0
    BY <1>1
  <2>1. x \in Living
    BY DEF Living
  <2> QED
    BY <1>1, <2>1, FS_EmptySet
<1>3. Owed \in {0, 1} /\ (work \in {"queued", "wait"} => Owed = 1)
  BY DEF Owed
<1> QED
  BY <1>1, <1>2, <1>3 DEF LockingInv, TypeOK, CountInv

LEMMA SpinTypes ==
  ASSUME LockingInv, NEW c \in Cpu, NEW r \in Cpu, Spin(c, r)
  PROVE  /\ pc' \in [Cpu -> {"run", "spin", "first", "in"}] /\ want' \in [Cpu -> Cpu]
         /\ lk' \in [Cpu -> Cpu] /\ plain' \in [Cpu -> BOOLEAN]
<1>1. __rq_lockp(r) \in Cpu
  BY DEF LockingInv, TypeOK, __rq_lockp
<1> QED
  BY <1>1 DEF Spin, LockingInv, TypeOK

LEMMA TypeStep ==
  ASSUME LockingInv, [Next]_vars PROVE TypeOK'
<1>. USE DEF cpuVars, cookieVars, switchVars
<1>1. ASSUME NEW c \in Cpu, NEW r \in Cpu, raw_spin_rq_lock(c, r) PROVE TypeOK'
  BY <1>1 DEF raw_spin_rq_lock, Spin, LockingInv, TypeOK, __rq_lockp
<1>2. ASSUME NEW c \in Cpu, NEW r \in Cpu, NEW s \in Cpu,
              double_rq_lock(c, r, s) PROVE TypeOK'
  BY <1>2 DEF double_rq_lock, Spin, LockingInv, TypeOK, __rq_lockp
<1>3. ASSUME NEW c \in Cpu, Acquire(c) PROVE TypeOK'
  <2>1. CASE Rechecked(c)
    <3>1. want' = want /\ lk' = lk /\ plain' = plain /\ lk[c] \in Cpu
      BY <1>3, <2>1 DEF Acquire, LockingInv, TypeOK
    <3>2. owner' \in [Cpu -> Cpu \cup {All, None}]
      BY <1>3, <2>1, <3>1 DEF Acquire, LockingInv, TypeOK
    <3>3. pc' \in [Cpu -> {"run", "spin", "first", "in"}]
      BY <1>3, <2>1 DEF Acquire, LockingInv, TypeOK
    <3> QED
      BY <1>3, <3>1, <3>2, <3>3 DEF Acquire, LockingInv, TypeOK
  <2>2. CASE ~Rechecked(c)
    <3>1. want[c] \in Cpu /\ Spin(c, want[c])
      BY <1>3, <2>2 DEF Acquire, LockingInv, TypeOK
    <3> QED
      BY <1>3, <2>2, <3>1, SpinTypes DEF Acquire, LockingInv, TypeOK
  <2> QED
    BY <2>1, <2>2
<1>4. ASSUME NEW c \in Cpu, SecondLock(c) PROVE TypeOK'
  <2>1. mate[c] \in Cpu /\ want[c] \in Cpu
    BY <1>4 DEF SecondLock, LockingInv, TypeOK, LockInv, LockOf
  <2>2. CASE __rq_lockp(mate[c]) = __rq_lockp(want[c])
    BY <1>4, <2>2 DEF SecondLock, LockingInv, TypeOK
  <2>3. CASE __rq_lockp(mate[c]) # __rq_lockp(want[c])
    BY <1>4, <2>1, <2>3, SpinTypes DEF SecondLock, LockingInv, TypeOK
  <2> QED
    BY <2>2, <2>3
<1>5. ASSUME NEW c \in Cpu, raw_spin_rq_unlock(c) PROVE TypeOK'
  BY <1>5 DEF raw_spin_rq_unlock, LockingInv, TypeOK
<1>6. ASSUME NEW c \in Cpu, Deactivate(c) PROVE TypeOK'
  BY <1>6 DEF Deactivate, LockingInv, TypeOK
<1>7. ASSUME NEW c \in Cpu, sched_core_cpu_deactivate(c) PROVE TypeOK'
  <2>1. Smt \ {c} # {} /\ Smt \ {c} \in SUBSET Cpu
    BY <1>7 DEF sched_core_cpu_deactivate, LockingInv, LeaderInv, Smt
  <2>2. Min(Smt \ {c}) \in Cpu
    BY <2>1, MinIsMember
  <2>3. core' \in [Cpu -> Cpu]
    BY <1>7, <2>2 DEF sched_core_cpu_deactivate, NewLeader, LockingInv, TypeOK
  <2> QED
    BY <1>7, <2>3 DEF sched_core_cpu_deactivate, sched_core_unlock, LockingInv, TypeOK
<1>8. ASSUME NEW c \in Cpu, Refused(c) PROVE TypeOK'
  BY <1>8 DEF Refused, LockingInv, TypeOK
<1>9. ASSUME NEW c \in Cpu, sched_core_cpu_dying(c) PROVE TypeOK'
  BY <1>9 DEF sched_core_cpu_dying, LockingInv, TypeOK
<1>10. ASSUME NEW c \in Cpu, Dead(c) PROVE TypeOK'
  BY <1>10 DEF Dead, LockingInv, TypeOK
<1>11. ASSUME NEW c \in Cpu, Start(c) PROVE TypeOK'
  BY <1>11 DEF Start, LockingInv, TypeOK
<1>12. ASSUME NEW c \in Cpu, sched_core_cpu_starting(c) PROVE TypeOK'
  BY <1>12 DEF sched_core_cpu_starting, Smt, sched_core_unlock, LockingInv, TypeOK
<1>13. ASSUME sched_core_lock PROVE TypeOK'
  <2>1. {c \in Smt : owner[c] # All} \in SUBSET Cpu
    BY DEF Smt
  <2> HIDE DEF Smt
  <2>2. \E m \in Cpu : owner' = [owner EXCEPT ![m] = All]
    BY <1>13, <2>1, MinIsMember DEF sched_core_lock
  <2> QED
    BY <1>13, <2>2 DEF sched_core_lock, LockingInv, TypeOK
<1>14. ASSUME EnableKey PROVE TypeOK'
  BY <1>14 DEF EnableKey, LockingInv, TypeOK
<1>15. ASSUME synchronize_rcu PROVE TypeOK'
  BY <1>15 DEF synchronize_rcu, LockingInv, TypeOK
<1>16. ASSUME FlipStart PROVE TypeOK'
  BY <1>16 DEF FlipStart, LockingInv, TypeOK
<1>17. ASSUME __sched_core_flip PROVE TypeOK'
  BY <1>17 DEF __sched_core_flip, sched_core_unlock, LockingInv, TypeOK
<1>18. ASSUME NEW x \in Cookie, sched_core_get(x) PROVE TypeOK'
  BY <1>18 DEF sched_core_get, LockingInv, TypeOK
<1>19. ASSUME NEW x \in Cookie, GetLocks(x) PROVE TypeOK'
  BY <1>19 DEF GetLocks, LockingInv, TypeOK
<1>20. ASSUME NEW x \in Cookie, GetDone(x) PROVE TypeOK'
  BY <1>20 DEF GetDone, LockingInv, TypeOK
<1>21. ASSUME NEW x \in Cookie, sched_core_put(x) PROVE TypeOK'
  BY <1>21, CountBounds DEF sched_core_put, LockingInv, TypeOK
<1>22. ASSUME __sched_core_put PROVE TypeOK'
  BY <1>22, CountBounds DEF __sched_core_put, LockingInv, TypeOK
<1>23. ASSUME PutLocks PROVE TypeOK'
  BY <1>23, CountBounds DEF PutLocks, LockingInv, TypeOK
<1>24. ASSUME DisableKey PROVE TypeOK'
  BY <1>24 DEF DisableKey, LockingInv, TypeOK
<1>25. ASSUME UNCHANGED vars PROVE TypeOK'
  BY <1>25 DEF vars, LockingInv, TypeOK
<1>26. ASSUME NEW c \in Cpu, NEW r \in Cpu, raw_spin_rq_trylock(c, r) PROVE TypeOK'
  BY <1>26 DEF raw_spin_rq_trylock, LockingInv, TypeOK
<1> QED
  BY <1>1, <1>2, <1>3, <1>4, <1>5, <1>6, <1>7, <1>8, <1>9, <1>10, <1>11, <1>12, <1>13,
     <1>14, <1>15, <1>16, <1>17, <1>18, <1>19, <1>20, <1>21, <1>22, <1>23, <1>24, <1>25,
     <1>26 DEF Next

LEMMA CountFrame ==
  ASSUME CountInv, UNCHANGED <<sched_core_count, life, work, step, core_enabled>>
  PROVE  CountInv'
BY DEF CountInv, Living, Owed

LEMMA CountStep ==
  ASSUME LockingInv, [Next]_vars PROVE CountInv'
<1>. USE DEF cpuVars, cookieVars, switchVars
<1>1. ASSUME NEW c \in Cpu, NEW r \in Cpu, raw_spin_rq_lock(c, r) PROVE CountInv'
  BY <1>1, CountFrame DEF raw_spin_rq_lock, Spin, LockingInv
<1>2. ASSUME NEW c \in Cpu, NEW r \in Cpu, NEW s \in Cpu,
              double_rq_lock(c, r, s) PROVE CountInv'
  BY <1>2, CountFrame DEF double_rq_lock, Spin, LockingInv
<1>3. ASSUME NEW c \in Cpu, Acquire(c) PROVE CountInv'
  BY <1>3, CountFrame DEF Acquire, Spin, LockingInv
<1>4. ASSUME NEW c \in Cpu, SecondLock(c) PROVE CountInv'
  BY <1>4, CountFrame DEF SecondLock, Spin, LockingInv
<1>5. ASSUME NEW c \in Cpu, raw_spin_rq_unlock(c) PROVE CountInv'
  BY <1>5, CountFrame DEF raw_spin_rq_unlock, LockingInv
<1>6. ASSUME NEW c \in Cpu, Deactivate(c) PROVE CountInv'
  BY <1>6, CountFrame DEF Deactivate, LockingInv
<1>7. ASSUME NEW c \in Cpu, sched_core_cpu_deactivate(c) PROVE CountInv'
  BY <1>7, CountFrame DEF sched_core_cpu_deactivate, sched_core_unlock, LockingInv
<1>8. ASSUME NEW c \in Cpu, Refused(c) PROVE CountInv'
  BY <1>8, CountFrame DEF Refused, LockingInv
<1>9. ASSUME NEW c \in Cpu, sched_core_cpu_dying(c) PROVE CountInv'
  BY <1>9, CountFrame DEF sched_core_cpu_dying, LockingInv
<1>10. ASSUME NEW c \in Cpu, Dead(c) PROVE CountInv'
  BY <1>10, CountFrame DEF Dead, LockingInv
<1>11. ASSUME NEW c \in Cpu, Start(c) PROVE CountInv'
  BY <1>11, CountFrame DEF Start, LockingInv
<1>12. ASSUME NEW c \in Cpu, sched_core_cpu_starting(c) PROVE CountInv'
  BY <1>12, CountFrame DEF sched_core_cpu_starting, sched_core_unlock, LockingInv
<1>13. ASSUME sched_core_lock PROVE CountInv'
  BY <1>13, CountFrame DEF sched_core_lock, LockingInv
<1>14. ASSUME EnableKey PROVE CountInv'
  <2>1. Living' = Living /\ Owed' = Owed
    BY <1>14 DEF EnableKey, LockingInv, TypeOK, CountInv, SwitchInv, Living, Owed,
       mutexFree, CoreLocked
  <2> QED
    BY <1>14, <2>1 DEF EnableKey, LockingInv, CountInv, SwitchInv, Enabling, CoreLocked,
       mutexFree
<1>15. ASSUME synchronize_rcu PROVE CountInv'
  <2>1. Living' = Living /\ Owed' = Owed
    BY <1>15 DEF synchronize_rcu, LockingInv, TypeOK, CountInv, SwitchInv, Living, Owed,
       mutexFree, CoreLocked
  <2> QED
    BY <1>15, <2>1 DEF synchronize_rcu, LockingInv, CountInv, SwitchInv, Enabling,
       CoreLocked, mutexFree
<1>16. ASSUME FlipStart PROVE CountInv'
  BY <1>16, CountFrame DEF FlipStart, LockingInv
<1>17. ASSUME __sched_core_flip PROVE CountInv'
  <2>1. Living' = Living /\ Owed' = Owed
    BY <1>17 DEF __sched_core_flip, LockingInv, TypeOK, CountInv, SwitchInv, Living, Owed,
       mutexFree, CoreLocked
  <2> QED
    BY <1>17, <2>1 DEF __sched_core_flip, LockingInv, CountInv, SwitchInv, Enabling,
       CoreLocked, mutexFree
<1>18. ASSUME NEW x \in Cookie, sched_core_get(x) PROVE CountInv'
  <2>1. CASE sched_core_count # 0
    <3>1. Living' = Living \cup {x} /\ x \notin Living /\ Owed' = Owed
      BY <1>18, <2>1 DEF sched_core_get, LockingInv, TypeOK, Living, Owed
    <3>2. Cardinality(Living') = Cardinality(Living) + 1
      BY <3>1, CountBounds, FS_AddElement
    <3> QED
      BY <1>18, <2>1, <3>1, <3>2, CountBounds DEF sched_core_get, LockingInv, CountInv
  <2>2. CASE sched_core_count = 0
    <3>1. Living' = Living /\ Owed' = Owed
      BY <1>18, <2>2 DEF sched_core_get, LockingInv, TypeOK, Living, Owed
    <3> QED
      BY <1>18, <2>2, <3>1 DEF sched_core_get, LockingInv, CountInv
  <2> QED
    BY <2>1, <2>2
<1>19. ASSUME NEW x \in Cookie, GetLocks(x) PROVE CountInv'
  <2>1. Living' = Living /\ Owed' = Owed
    BY <1>19 DEF GetLocks, LockingInv, TypeOK, CountInv, SwitchInv, Living, Owed,
       mutexFree, CoreLocked
  <2> QED
    BY <1>19, <2>1 DEF GetLocks, LockingInv, CountInv, SwitchInv, Enabling, CoreLocked,
       mutexFree
<1>20. ASSUME NEW x \in Cookie, GetDone(x) PROVE CountInv'
  <2>1. Living' = Living \cup {x} /\ x \notin Living /\ Owed' = Owed
    BY <1>20 DEF GetDone, LockingInv, TypeOK, Living, Owed
  <2>2. Cardinality(Living') = Cardinality(Living) + 1
    BY <2>1, CountBounds, FS_AddElement
  <2> QED
    BY <1>20, <2>1, <2>2, CountBounds DEF GetDone, LockingInv, CountInv, SwitchInv
<1>21. ASSUME NEW x \in Cookie, sched_core_put(x) PROVE CountInv'
  <2>1. Living' = Living \ {x} /\ x \in Living
    BY <1>21 DEF sched_core_put, LockingInv, TypeOK, Living
  <2>2. Cardinality(Living') = Cardinality(Living) - 1
    BY <2>1, CountBounds, FS_RemoveElement
  <2>3. CASE sched_core_count # 1
    BY <1>21, <2>2, <2>3, CountBounds DEF sched_core_put, LockingInv, CountInv, Owed
  <2>4. CASE sched_core_count = 1
    <3>1. Owed = 0 /\ work = "idle"
      BY <1>21, <2>4, CountBounds DEF sched_core_put, LockingInv, TypeOK, CountInv, Owed
    <3> QED
      BY <1>21, <2>2, <2>4, <3>1, CountBounds DEF sched_core_put, LockingInv, CountInv, Owed
  <2> QED
    BY <2>3, <2>4
<1>22. ASSUME __sched_core_put PROVE CountInv'
  <2>1. Living' = Living
    BY <1>22 DEF __sched_core_put, Living
  <2> QED
    BY <1>22, <2>1, CountBounds DEF __sched_core_put, LockingInv, TypeOK, CountInv, Owed
<1>23. ASSUME PutLocks PROVE CountInv'
  <2>1. Living' = Living
    BY <1>23 DEF PutLocks, Living
  <2> QED
    BY <1>23, <2>1, CountBounds DEF PutLocks, LockingInv, TypeOK, CountInv, Owed
<1>24. ASSUME DisableKey PROVE CountInv'
  <2>1. Living' = Living /\ Owed' = Owed
    BY <1>24 DEF DisableKey, LockingInv, TypeOK, CountInv, SwitchInv, Living, Owed,
       mutexFree, CoreLocked
  <2> QED
    BY <1>24, <2>1 DEF DisableKey, LockingInv, CountInv, SwitchInv, Enabling, CoreLocked,
       mutexFree
<1>25. ASSUME UNCHANGED vars PROVE CountInv'
  BY <1>25, CountFrame DEF vars, LockingInv
<1>26. ASSUME NEW c \in Cpu, NEW r \in Cpu, raw_spin_rq_trylock(c, r) PROVE CountInv'
  BY <1>26, CountFrame DEF raw_spin_rq_trylock, LockingInv
<1> QED
  BY <1>1, <1>2, <1>3, <1>4, <1>5, <1>6, <1>7, <1>8, <1>9, <1>10, <1>11, <1>12, <1>13,
     <1>14, <1>15, <1>16, <1>17, <1>18, <1>19, <1>20, <1>21, <1>22, <1>23, <1>24, <1>25,
     <1>26 DEF Next

-----------------------------------------------------------------------------
LEMMA LockingInit ==
  Init => LockingInv
<1> SUFFICES ASSUME Init PROVE LockingInv
  OBVIOUS
<1>. USE NameAssumption
<1>1. Min(Cpu) \in Cpu
  BY MinIsMember, CpuAssumption
<1>2. TypeOK
  BY <1>1 DEF Init, TypeOK
<1>3. SwitchInv
  BY DEF Init, SwitchInv, Enabling
<1>4. Live = Cpu
  BY DEF Init, Live
<1>5. LeaderInv
  BY <1>1, <1>4 DEF Init, LeaderInv
<1>6. LockInv
  BY DEF Init, LockInv, LockOf, HoldsFor
<1>7. CountInv
  <2>1. Living = {} /\ Owed = 0
    BY DEF Init, Living, Owed
  <2> QED
    BY <2>1, FS_EmptySet DEF Init, CountInv
<1> QED
  BY <1>2, <1>3, <1>5, <1>6, <1>7 DEF LockingInv

LEMMA LockingStep ==
  LockingInv /\ [Next]_vars => LockingInv'
BY TypeStep, SwitchStep, LeaderStep, LockStep, CountStep DEF LockingInv

(* All components of the state stay in their ranges, the count of the      *)
(* cookies above zero included.                                            *)
THEOREM LockTypes ==
  Spec => []TypeOK
<1>1. LockingInv => TypeOK
  BY DEF LockingInv
<1> QED
  BY <1>1, LockingInit, LockingStep, PTL DEF Spec

(* A CPU in a section for a runqueue holds the lock that belongs to it,    *)
(* for any number of siblings, through every change of the switch and of   *)
(* the leader.                                                             *)
THEOREM RqLockStaysHeld ==
  Spec => []RqLockHeld
<1>1. LockingInv => RqLockHeld
  BY MyLocks DEF RqLockHeld
<1> QED
  BY <1>1, LockingInit, LockingStep, PTL DEF Spec

(* The count is that of the cookies, for any number of them, and core      *)
(* scheduling is on while one lives.                                       *)
THEOREM CountStaysRight ==
  Spec => []CookiesCounted
<1>1. LockingInv => CookiesCounted
  <2> SUFFICES ASSUME LockingInv PROVE CookiesCounted
    OBVIOUS
  <2>1. ASSUME NEW x \in Cookie, life[x] = "live" PROVE key /\ core_enabled
    BY <2>1, CountBounds DEF LockingInv, CountInv, SwitchInv
  <2> QED
    BY <2>1 DEF CookiesCounted, LockingInv, CountInv, Living, Owed
<1> QED
  BY <1>1, LockingInit, LockingStep, PTL DEF Spec

-----------------------------------------------------------------------------
(* Two locks at once: a pair is of two CPUs that are up, locked in their   *)
(* order; who waits for the second one knows it is that runqueue's own.    *)
PairOf(c) ==
  /\ pc[c] = "run" => mate[c] = None
  /\ mate[c] # None => mate[c] \in Live /\ want[c] \in Live
  /\ mate[c] # None /\ pc[c] = "spin" /\ ~Holds(c) => want[c] < mate[c]
  /\ pc[c] = "first" => want[c] < mate[c]
  /\ pc[c] = "spin" /\ Holds(c) => mate[c] < want[c] /\ lk[c] = want[c] /\ ~core_enabled

(* All at once: they are taken from the first one on.                      *)
AllInOrder ==
  /\ big = "none" => \A l \in Cpu : owner[l] # All
  /\ \A c, d \in Smt : d < c /\ owner[c] = All => owner[d] = All

PairInv == \A c \in Cpu : PairOf(c)
OrderInv == PairInv /\ AllInOrder

LEMMA PairFrame ==
  ASSUME NEW d \in Cpu, PairOf(d),
         pc'[d] = pc[d], want'[d] = want[d], mate'[d] = mate[d], lk'[d] = lk[d],
         \A l \in Cpu : owner'[l] = d <=> owner[l] = d,
         mate[d] # None => {mate[d], want[d]} \cap Live \subseteq Live',
         core_enabled' = core_enabled
  PROVE  PairOf(d)'
BY DEF PairOf, Holds

(* While all locks of the core are held nobody waits for a second one.     *)
LEMMA NoSecondWait ==
  ASSUME LockingInv, PairInv, \A c \in Smt : owner[c] = All, NEW d \in Cpu, pc[d] = "spin"
  PROVE  ~Holds(d)
<1>. USE NameAssumption
<1>1. SUFFICES ASSUME Holds(d) PROVE FALSE
  OBVIOUS
<1>2. mate[d] # None /\ HoldsFor(d, {mate[d]})
  BY <1>1 DEF LockingInv, LockInv, LockOf, HoldsFor, Holds
<1>3. mate[d] \in Live
  BY <1>2 DEF PairInv, PairOf
<1>4. __rq_lockp(mate[d]) \in Smt
  BY <1>3 DEF LockingInv, LeaderInv, Live, Smt, __rq_lockp
<1>5. owner[__rq_lockp(mate[d])] = d /\ owner[__rq_lockp(mate[d])] = All
  BY <1>2, <1>4 DEF HoldsFor, Smt
<1> QED
  BY <1>5

LEMMA AllLockedPairs ==
  ASSUME LockingInv, PairInv, \A c \in Smt : owner[c] = All, sched_core_unlock,
         UNCHANGED cpuVars, Live \subseteq Live'
  PROVE  PairInv'
<1>. USE NameAssumption
<1>1. \A d \in Cpu, l \in Cpu : owner'[l] = d <=> owner[l] = d
  BY DEF sched_core_unlock, LockingInv, TypeOK
<1>2. ASSUME NEW d \in Cpu PROVE PairOf(d)'
  <2>1. PairOf(d) /\ Holds(d)' = Holds(d)
    BY <1>1 DEF PairInv, Holds
  <2>2. UNCHANGED <<pc, want, mate, lk>>
    BY DEF cpuVars
  <2>3. pc[d] = "spin" => ~Holds(d)
    BY NoSecondWait
  <2> QED
    BY <2>1, <2>2, <2>3 DEF PairOf
<1> QED
  BY <1>2 DEF PairInv

LEMMA PairStep ==
  ASSUME LockingInv, OrderInv, [Next]_vars PROVE PairInv'
<1>. USE NameAssumption DEF cpuVars, cookieVars, switchVars
<1>1. ASSUME NEW c \in Cpu, NEW r \in Cpu, raw_spin_rq_lock(c, r) PROVE PairInv'
  <2>1. ASSUME NEW d \in Cpu \ {c} PROVE PairOf(d)'
    BY <1>1, PairFrame DEF raw_spin_rq_lock, Spin, Live, LockingInv, TypeOK, OrderInv,
       PairInv
  <2>2. PairOf(c)'
    <3>1. pc[c] = "run" /\ LockOf(c) /\ PairOf(c)
      BY <1>1 DEF raw_spin_rq_lock, LockingInv, LockInv, OrderInv, PairInv
    <3>2. ~Holds(c) /\ owner' = owner
      BY <1>1, <3>1 DEF raw_spin_rq_lock, LockOf, HoldsFor, Holds
    <3>3. pc'[c] = "spin" /\ mate'[c] = None
      BY <1>1, <3>1 DEF raw_spin_rq_lock, Spin, PairOf, LockingInv, TypeOK
    <3> QED
      BY <3>2, <3>3 DEF PairOf, Holds
  <2> QED
    BY <2>1, <2>2 DEF PairInv
<1>2. ASSUME NEW c \in Cpu, NEW r \in Cpu, NEW s \in Cpu,
              double_rq_lock(c, r, s) PROVE PairInv'
  <2>1. ASSUME NEW d \in Cpu \ {c} PROVE PairOf(d)'
    BY <1>2, PairFrame DEF double_rq_lock, Spin, Live, LockingInv, TypeOK, OrderInv,
       PairInv
  <2>2. PairOf(c)'
    <3>1. pc[c] = "run" /\ LockOf(c) /\ PairOf(c)
      BY <1>2 DEF double_rq_lock, LockingInv, LockInv, OrderInv, PairInv
    <3>2. ~Holds(c) /\ owner' = owner
      BY <1>2, <3>1 DEF double_rq_lock, LockOf, HoldsFor, Holds
    <3>3. pc'[c] = "spin" /\ want'[c] = r /\ mate'[c] = s /\ r \in Live /\ s \in Live
      BY <1>2, <3>1 DEF double_rq_lock, Spin, Live, LockingInv, TypeOK
    <3>4. r < s
      <4>1. core[r] = core[s] /\ core[r] \in Nat
        BY <3>3, CpuAssumption DEF LockingInv, LeaderInv, TypeOK
      <4> QED
        BY <1>2, <4>1 DEF double_rq_lock, rq_order_less
    <3>5. Live' = Live
      BY <1>2 DEF double_rq_lock, Live
    <3> QED
      BY <3>2, <3>3, <3>4, <3>5 DEF PairOf, Holds
  <2> QED
    BY <2>1, <2>2 DEF PairInv
<1>3. ASSUME NEW c \in Cpu, Acquire(c) PROVE PairInv'
  <2>1. ASSUME NEW d \in Cpu \ {c} PROVE PairOf(d)'
    <3>1. \A l \in Cpu : owner'[l] = d <=> owner[l] = d
      BY <1>3 DEF Acquire, LockingInv, TypeOK
    <3> QED
      BY <1>3, <3>1, PairFrame DEF Acquire, Spin, Live, LockingInv, TypeOK, OrderInv,
         PairInv
  <2>2. PairOf(c)'
    <3>1. LockOf(c) /\ PairOf(c) /\ pc[c] = "spin" /\ want[c] \in Cpu
      BY <1>3 DEF Acquire, LockingInv, TypeOK, LockInv, OrderInv, PairInv
    <3>2. Live' = Live /\ core_enabled' = core_enabled
      BY <1>3 DEF Acquire, Live
    <3>3. CASE Rechecked(c)
      <4>1. /\ pc'[c] = IF mate[c] = None \/ Holds(c) THEN "in" ELSE "first"
            /\ want'[c] = want[c] /\ mate'[c] = mate[c]
        BY <1>3, <3>3 DEF Acquire, LockingInv, TypeOK
      <4> QED
        BY <3>1, <3>2, <4>1 DEF PairOf
    <3>4. CASE ~Rechecked(c)
      <4>1. ~Holds(c)
        BY <3>1, <3>4 DEF PairOf, Rechecked, __rq_lockp
      <4>2. Spin(c, want[c]) /\ UNCHANGED <<owner, mate>>
        BY <1>3, <3>4 DEF Acquire
      <4>3. pc'[c] = "spin" /\ want'[c] = want[c]
        BY <3>1, <4>2, SpinFor
      <4> QED
        BY <3>1, <3>2, <4>1, <4>2, <4>3 DEF PairOf, Holds
    <3> QED
      BY <3>3, <3>4
  <2> QED
    BY <2>1, <2>2 DEF PairInv
<1>4. ASSUME NEW c \in Cpu, SecondLock(c) PROVE PairInv'
  <2>1. ASSUME NEW d \in Cpu \ {c} PROVE PairOf(d)'
    BY <1>4, PairFrame DEF SecondLock, Spin, Live, LockingInv, TypeOK, OrderInv, PairInv
  <2>2. PairOf(c)'
    <3>1. /\ LockOf(c) /\ PairOf(c) /\ pc[c] = "first"
          /\ want[c] \in Live /\ mate[c] \in Live /\ mate[c] # None
      BY <1>4 DEF SecondLock, LockingInv, LockInv, LockOf, OrderInv, PairInv, PairOf
    <3>2. Live' = Live /\ core_enabled' = core_enabled
      BY <1>4 DEF SecondLock, Live
    <3>3. CASE __rq_lockp(mate[c]) = __rq_lockp(want[c])
      <4>1. pc'[c] = "in" /\ want'[c] = want[c] /\ mate'[c] = mate[c]
        BY <1>4, <3>3 DEF SecondLock, LockingInv, TypeOK
      <4> QED
        BY <3>1, <3>2, <4>1 DEF PairOf
    <3>4. CASE __rq_lockp(mate[c]) # __rq_lockp(want[c])
      <4>1. ~core_enabled
        BY <3>1, <3>4 DEF LockingInv, LeaderInv, __rq_lockp
      <4>2. Spin(c, mate[c]) /\ mate'[c] = want[c] /\ mate[c] \in Cpu
        BY <1>4, <3>1, <3>4 DEF SecondLock, LockingInv, TypeOK, Live
      <4>3. pc'[c] = "spin" /\ want'[c] = mate[c] /\ lk'[c] = mate[c]
        BY <4>1, <4>2 DEF Spin, __rq_lockp, LockingInv, TypeOK
      <4>4. Holds(c)'
        <5>1. owner' = owner /\ owner[want[c]] = c /\ want[c] \in Cpu
          BY <1>4, <3>1, <4>1 DEF SecondLock, LockOf, HoldsFor, __rq_lockp, Live
        <5> QED
          BY <5>1 DEF Holds
      <4> QED
        BY <3>1, <3>2, <4>1, <4>2, <4>3, <4>4 DEF PairOf
    <3> QED
      BY <3>3, <3>4
  <2> QED
    BY <2>1, <2>2 DEF PairInv
<1>5. ASSUME NEW c \in Cpu, raw_spin_rq_unlock(c) PROVE PairInv'
  <2>1. ASSUME NEW d \in Cpu \ {c} PROVE PairOf(d)'
    <3>1. \A l \in Locks(c) : owner[l] = c
      BY <1>5, MyLocks DEF raw_spin_rq_unlock
    <3>2. \A l \in Cpu : owner'[l] = d <=> owner[l] = d
      BY <1>5, <3>1 DEF raw_spin_rq_unlock, LockingInv, TypeOK
    <3> QED
      BY <1>5, <3>2, PairFrame DEF raw_spin_rq_unlock, Live, LockingInv, TypeOK, OrderInv,
         PairInv
  <2>2. PairOf(c)'
    <3>1. pc'[c] = "run" /\ mate'[c] = None
      BY <1>5 DEF raw_spin_rq_unlock, LockingInv, TypeOK
    <3> QED
      BY <3>1 DEF PairOf
  <2> QED
    BY <2>1, <2>2 DEF PairInv
<1>6. ASSUME NEW c \in Cpu, Deactivate(c) PROVE PairInv'
  <2>1. Live \subseteq Live'
    BY <1>6 DEF Deactivate, Live, LockingInv, TypeOK
  <2> QED
    BY <1>6, <2>1, PairFrame DEF Deactivate, LockingInv, TypeOK, OrderInv, PairInv
<1>7. ASSUME NEW c \in Cpu, sched_core_cpu_deactivate(c) PROVE PairInv'
  <2>1. Live \subseteq Live'
    BY <1>7 DEF sched_core_cpu_deactivate, Live, LockingInv, TypeOK
  <2> QED
    BY <1>7, <2>1, AllLockedPairs DEF sched_core_cpu_deactivate, CoreLocked, OrderInv
<1>8. ASSUME NEW c \in Cpu, Refused(c) PROVE PairInv'
  <2>1. Live \subseteq Live'
    BY <1>8 DEF Refused, Live, LockingInv, TypeOK
  <2> QED
    BY <1>8, <2>1, PairFrame DEF Refused, LockingInv, TypeOK, OrderInv, PairInv
<1>9. ASSUME NEW c \in Cpu, sched_core_cpu_dying(c) PROVE PairInv'
  <2>1. \A d \in Cpu : mate[d] = None
    BY <1>9 DEF sched_core_cpu_dying, OrderInv, PairInv, PairOf
  <2> QED
    BY <1>9, <2>1, PairFrame DEF sched_core_cpu_dying, LockingInv, TypeOK, OrderInv,
       PairInv
<1>10. ASSUME NEW c \in Cpu, Dead(c) PROVE PairInv'
  <2>1. Live \subseteq Live'
    BY <1>10 DEF Dead, Live, LockingInv, TypeOK
  <2> QED
    BY <1>10, <2>1, PairFrame DEF Dead, LockingInv, TypeOK, OrderInv, PairInv
<1>11. ASSUME NEW c \in Cpu, Start(c) PROVE PairInv'
  <2>1. Live \subseteq Live'
    BY <1>11 DEF Start, Live, LockingInv, TypeOK
  <2> QED
    BY <1>11, <2>1, PairFrame DEF Start, LockingInv, TypeOK, OrderInv, PairInv
<1>12. ASSUME NEW c \in Cpu, sched_core_cpu_starting(c) PROVE PairInv'
  <2>1. Live \subseteq Live'
    BY <1>12 DEF sched_core_cpu_starting, Live, LockingInv, TypeOK
  <2> QED
    BY <1>12, <2>1, AllLockedPairs DEF sched_core_cpu_starting, CoreLocked, OrderInv
<1>13. ASSUME sched_core_lock PROVE PairInv'
  <2>1. \A d \in Cpu, l \in Cpu : owner'[l] = d <=> owner[l] = d
    BY <1>13 DEF sched_core_lock, LockingInv, TypeOK
  <2> QED
    BY <1>13, <2>1, PairFrame DEF sched_core_lock, Live, OrderInv, PairInv
<1>14. ASSUME EnableKey PROVE PairInv'
  BY <1>14, PairFrame DEF EnableKey, Live, LockingInv, TypeOK, OrderInv, PairInv
<1>15. ASSUME synchronize_rcu PROVE PairInv'
  BY <1>15, PairFrame DEF synchronize_rcu, Live, LockingInv, TypeOK, OrderInv, PairInv
<1>16. ASSUME FlipStart PROVE PairInv'
  BY <1>16, PairFrame DEF FlipStart, Live, LockingInv, TypeOK, OrderInv, PairInv
<1>17. ASSUME __sched_core_flip PROVE PairInv'
  <2>1. Live \subseteq Live'
    BY <1>17 DEF __sched_core_flip, Live, LockingInv, TypeOK
  <2> QED
    BY <1>17, <2>1, AllLockedPairs DEF __sched_core_flip, CoreLocked, OrderInv
<1>18. ASSUME NEW x \in Cookie, sched_core_get(x) PROVE PairInv'
  BY <1>18, PairFrame DEF sched_core_get, Live, LockingInv, TypeOK, OrderInv, PairInv
<1>19. ASSUME NEW x \in Cookie, GetLocks(x) PROVE PairInv'
  BY <1>19, PairFrame DEF GetLocks, Live, LockingInv, TypeOK, OrderInv, PairInv
<1>20. ASSUME NEW x \in Cookie, GetDone(x) PROVE PairInv'
  BY <1>20, PairFrame DEF GetDone, Live, LockingInv, TypeOK, OrderInv, PairInv
<1>21. ASSUME NEW x \in Cookie, sched_core_put(x) PROVE PairInv'
  BY <1>21, PairFrame DEF sched_core_put, Live, LockingInv, TypeOK, OrderInv, PairInv
<1>22. ASSUME __sched_core_put PROVE PairInv'
  BY <1>22, PairFrame DEF __sched_core_put, Live, LockingInv, TypeOK, OrderInv, PairInv
<1>23. ASSUME PutLocks PROVE PairInv'
  BY <1>23, PairFrame DEF PutLocks, Live, LockingInv, TypeOK, OrderInv, PairInv
<1>24. ASSUME DisableKey PROVE PairInv'
  BY <1>24, PairFrame DEF DisableKey, Live, LockingInv, TypeOK, OrderInv, PairInv
<1>25. ASSUME UNCHANGED vars PROVE PairInv'
  BY <1>25, PairFrame DEF vars, Live, LockingInv, TypeOK, OrderInv, PairInv
<1>26. ASSUME NEW c \in Cpu, NEW r \in Cpu, raw_spin_rq_trylock(c, r) PROVE PairInv'
  <2>1. __rq_lockp(r) \in Cpu /\ owner[__rq_lockp(r)] = None /\ Live' = Live
    BY <1>26 DEF raw_spin_rq_trylock, LockingInv, TypeOK, __rq_lockp, Live
  <2>2. ASSUME NEW d \in Cpu \ {c} PROVE PairOf(d)'
    <3>1. \A l \in Cpu : owner'[l] = d <=> owner[l] = d
      BY <1>26, <2>1 DEF raw_spin_rq_trylock, LockingInv, TypeOK
    <3> QED
      BY <1>26, <2>1, <3>1, PairFrame DEF raw_spin_rq_trylock, LockingInv, TypeOK, OrderInv, PairInv
  <2>3. PairOf(c)'
    <3>1. /\ pc'[c] = "in" /\ want'[c] = want[c] /\ mate'[c] = r
          /\ want[c] \in Live /\ r \in Live
      BY <1>26 DEF raw_spin_rq_trylock, LockingInv, TypeOK, Live
    <3> QED
      BY <2>1, <3>1 DEF PairOf
  <2> QED
    BY <2>2, <2>3 DEF PairInv
<1> QED
  BY <1>1, <1>2, <1>3, <1>4, <1>5, <1>6, <1>7, <1>8, <1>9, <1>10, <1>11, <1>12, <1>13,
     <1>14, <1>15, <1>16, <1>17, <1>18, <1>19, <1>20, <1>21, <1>22, <1>23, <1>24, <1>25,
     <1>26 DEF Next

LEMMA InOrderFrame ==
  ASSUME AllInOrder, big' = big, Smt' = Smt, \A l \in Cpu : owner'[l] = All <=> owner[l] = All
  PROVE  AllInOrder'
BY DEF AllInOrder, Smt

LEMMA InOrderFree ==
  ASSUME \A l \in Cpu : owner'[l] # All
  PROVE  AllInOrder'
BY DEF AllInOrder, Smt

LEMMA InOrderStep ==
  ASSUME LockingInv, OrderInv, [Next]_vars PROVE AllInOrder'
<1>. USE NameAssumption DEF cpuVars, cookieVars, switchVars
<1>1. ASSUME NEW c \in Cpu, NEW r \in Cpu, raw_spin_rq_lock(c, r) PROVE AllInOrder'
  BY <1>1, InOrderFrame DEF raw_spin_rq_lock, Smt, OrderInv
<1>2. ASSUME NEW c \in Cpu, NEW r \in Cpu, NEW s \in Cpu,
              double_rq_lock(c, r, s) PROVE AllInOrder'
  BY <1>2, InOrderFrame DEF double_rq_lock, Smt, OrderInv
<1>3. ASSUME NEW c \in Cpu, Acquire(c) PROVE AllInOrder'
  <2>1. \A l \in Cpu : owner'[l] = All <=> owner[l] = All
    BY <1>3 DEF Acquire, LockingInv, TypeOK
  <2> QED
    BY <1>3, <2>1, InOrderFrame DEF Acquire, Smt, OrderInv
<1>4. ASSUME NEW c \in Cpu, SecondLock(c) PROVE AllInOrder'
  BY <1>4, InOrderFrame DEF SecondLock, Smt, OrderInv
<1>5. ASSUME NEW c \in Cpu, raw_spin_rq_unlock(c) PROVE AllInOrder'
  <2>1. \A l \in Cpu : owner'[l] = All <=> owner[l] = All
    BY <1>5, MyLocks DEF raw_spin_rq_unlock, LockingInv, TypeOK
  <2> QED
    BY <1>5, <2>1, InOrderFrame DEF raw_spin_rq_unlock, Smt, OrderInv
<1>6. ASSUME NEW c \in Cpu, Deactivate(c) PROVE AllInOrder'
  BY <1>6, InOrderFree DEF Deactivate, HotplugFree, OrderInv, AllInOrder
<1>7. ASSUME NEW c \in Cpu, sched_core_cpu_deactivate(c) PROVE AllInOrder'
  BY <1>7, InOrderFree DEF sched_core_cpu_deactivate, sched_core_unlock
<1>8. ASSUME NEW c \in Cpu, Refused(c) PROVE AllInOrder'
  BY <1>8, InOrderFree DEF Refused, HotplugFree, OrderInv, AllInOrder
<1>9. ASSUME NEW c \in Cpu, sched_core_cpu_dying(c) PROVE AllInOrder'
  BY <1>9, InOrderFree DEF sched_core_cpu_dying, HotplugFree, OrderInv, AllInOrder
<1>10. ASSUME NEW c \in Cpu, Dead(c) PROVE AllInOrder'
  <2>1. Smt' = Smt
    BY <1>10 DEF Dead, Smt, LockingInv, TypeOK
  <2> QED
    BY <1>10, <2>1, InOrderFrame DEF Dead, OrderInv
<1>11. ASSUME NEW c \in Cpu, Start(c) PROVE AllInOrder'
  BY <1>11, InOrderFree DEF Start, HotplugFree, OrderInv, AllInOrder
<1>12. ASSUME NEW c \in Cpu, sched_core_cpu_starting(c) PROVE AllInOrder'
  BY <1>12, InOrderFree DEF sched_core_cpu_starting, sched_core_unlock
<1>13. ASSUME sched_core_lock PROVE AllInOrder'
  <2>. DEFINE rest == {c \in Smt : owner[c] # All}
  <2>1. rest \in SUBSET Cpu /\ rest # {}
    BY <1>13 DEF sched_core_lock, Smt
  <2>2. Min(rest) \in rest /\ \A c \in rest : Min(rest) =< c
    BY <2>1, MinIsMember
  <2>3. Smt' = Smt /\ Smt \subseteq Nat /\ Smt \subseteq Cpu
    BY <1>13, CpuAssumption DEF sched_core_lock, Smt
  <2>4. owner' = [owner EXCEPT ![Min(rest)] = All] /\ big' = big /\ big # "none"
    BY <1>13 DEF sched_core_lock
  <2> HIDE DEF rest
  <2>5. ASSUME NEW c \in Smt, NEW d \in Smt, d < c, owner'[c] = All PROVE owner'[d] = All
    <3>1. CASE c = Min(rest)
      <4>1. d \notin rest
        BY <2>2, <2>3, <2>5, <3>1
      <4> QED
        BY <2>3, <2>4, <4>1 DEF rest, LockingInv, TypeOK
    <3>2. CASE c # Min(rest)
      <4>1. owner[c] = All
        BY <2>3, <2>4, <2>5, <3>2 DEF LockingInv, TypeOK
      <4>2. owner[d] = All
        BY <2>5, <4>1 DEF OrderInv, AllInOrder
      <4> QED
        BY <2>3, <2>4, <4>2 DEF LockingInv, TypeOK
    <3> QED
      BY <3>1, <3>2
  <2> QED
    BY <2>3, <2>4, <2>5 DEF AllInOrder
<1>14. ASSUME EnableKey PROVE AllInOrder'
  BY <1>14, InOrderFrame DEF EnableKey, Smt, OrderInv
<1>15. ASSUME synchronize_rcu PROVE AllInOrder'
  BY <1>15, InOrderFrame DEF synchronize_rcu, Smt, OrderInv
<1>16. ASSUME FlipStart PROVE AllInOrder'
  BY <1>16, InOrderFree DEF FlipStart, HotplugFree, OrderInv, AllInOrder
<1>17. ASSUME __sched_core_flip PROVE AllInOrder'
  BY <1>17, InOrderFree DEF __sched_core_flip, sched_core_unlock
<1>18. ASSUME NEW x \in Cookie, sched_core_get(x) PROVE AllInOrder'
  BY <1>18, InOrderFrame DEF sched_core_get, Smt, OrderInv
<1>19. ASSUME NEW x \in Cookie, GetLocks(x) PROVE AllInOrder'
  BY <1>19, InOrderFrame DEF GetLocks, Smt, OrderInv
<1>20. ASSUME NEW x \in Cookie, GetDone(x) PROVE AllInOrder'
  BY <1>20, InOrderFrame DEF GetDone, Smt, OrderInv
<1>21. ASSUME NEW x \in Cookie, sched_core_put(x) PROVE AllInOrder'
  BY <1>21, InOrderFrame DEF sched_core_put, Smt, OrderInv
<1>22. ASSUME __sched_core_put PROVE AllInOrder'
  BY <1>22, InOrderFrame DEF __sched_core_put, Smt, OrderInv
<1>23. ASSUME PutLocks PROVE AllInOrder'
  BY <1>23, InOrderFrame DEF PutLocks, Smt, OrderInv
<1>24. ASSUME DisableKey PROVE AllInOrder'
  BY <1>24, InOrderFrame DEF DisableKey, Smt, OrderInv
<1>25. ASSUME UNCHANGED vars PROVE AllInOrder'
  BY <1>25, InOrderFrame DEF vars, Smt, OrderInv
<1>26. ASSUME NEW c \in Cpu, NEW r \in Cpu, raw_spin_rq_trylock(c, r) PROVE AllInOrder'
  <2>1. \A l \in Cpu : owner'[l] = All <=> owner[l] = All
    BY <1>26 DEF raw_spin_rq_trylock, LockingInv, TypeOK
  <2> QED
    BY <1>26, <2>1, InOrderFrame DEF raw_spin_rq_trylock, Smt, OrderInv
<1> QED
  BY <1>1, <1>2, <1>3, <1>4, <1>5, <1>6, <1>7, <1>8, <1>9, <1>10, <1>11, <1>12, <1>13,
     <1>14, <1>15, <1>16, <1>17, <1>18, <1>19, <1>20, <1>21, <1>22, <1>23, <1>24, <1>25,
     <1>26 DEF Next

LEMMA OrderInit ==
  Init => OrderInv
<1> SUFFICES ASSUME Init PROVE OrderInv
  OBVIOUS
<1>1. PairInv
  BY NameAssumption DEF Init, PairInv, PairOf
<1>2. AllInOrder
  BY NameAssumption DEF Init, AllInOrder, Smt
<1> QED
  BY <1>1, <1>2 DEF OrderInv

(* Nobody waits in a circle: of the locks that CPUs hold, the last one's   *)
(* holder could only wait for a later one, which whoever takes all locks   *)
(* would have; but that one has all locks before it, too.                  *)
LEMMA LastHolderGoesOn ==
  LockingInv /\ OrderInv => HoldersGoOn
<1> SUFFICES ASSUME LockingInv, OrderInv, NEW k \in Cpu, owner[k] # None,
                    \A l \in Cpu : owner[l] # None => Waits(owner[l])
             PROVE  FALSE
  BY DEF HoldersGoOn
<1>. USE NameAssumption
<1>. DEFINE held == {l \in Cpu : owner[l] \in Cpu}
<1>1. ASSUME NEW l \in Cpu, owner[l] = All PROVE \E c \in held : c \in Smt
  BY <1>1 DEF Waits, Smt, LockingInv, TypeOK
<1>2. held # {} /\ held \in SUBSET Cpu
  BY <1>1 DEF LockingInv, TypeOK
<1>3. PICK l \in held : \A m \in held : m =< l
  BY <1>2, LastCpu
<1>4. LockOf(owner[l]) /\ PairOf(owner[l]) /\ owner[l] \in Cpu
  BY DEF LockingInv, LockInv, OrderInv, PairInv
<1>5. pc[owner[l]] = "spin" /\ Holds(owner[l]) /\ owner[lk[owner[l]]] # None
  BY <1>4 DEF Waits, Holds
<1>. DEFINE next == lk[owner[l]]
<1>6. l < next /\ next \in Live
  <2>1. /\ mate[owner[l]] < want[owner[l]] /\ next = want[owner[l]] /\ ~core_enabled
        /\ mate[owner[l]] # None /\ HoldsFor(owner[l], {mate[owner[l]]})
    BY <1>4, <1>5 DEF PairOf, LockOf, HoldsFor, Holds
  <2>2. l = mate[owner[l]]
    BY <2>1 DEF HoldsFor, __rq_lockp
  <2> QED
    BY <1>4, <2>1, <2>2 DEF PairOf
<1>7. next \in Smt /\ next \in Cpu /\ next \in Nat /\ held \subseteq Nat
  BY <1>6, CpuAssumption DEF Live, Smt
<1>8. next \notin held
  BY <1>3, <1>6, <1>7
<1>9. owner[next] = All
  BY <1>5, <1>7, <1>8 DEF LockingInv, TypeOK
<1>10. PICK c \in held : c \in Smt
  BY <1>1, <1>7, <1>9
<1>11. c < next
  BY <1>3, <1>6, <1>7
<1>12. owner[c] = All
  BY <1>7, <1>9, <1>10, <1>11 DEF OrderInv, AllInOrder
<1> QED
  BY <1>12

(* The order of the locks is enough, for any number of siblings: while a   *)
(* lock is held, one of the holders can go on.                             *)
THEOREM NobodyWaitsInCircle ==
  Spec => []HoldersGoOn
<1>1. Init => LockingInv /\ OrderInv
  BY LockingInit, OrderInit
<1>2. LockingInv /\ OrderInv /\ [Next]_vars => (LockingInv /\ OrderInv)'
  BY LockingStep, PairStep, InOrderStep DEF OrderInv
<1>3. LockingInv /\ OrderInv => HoldersGoOn
  BY LastHolderGoesOn
<1> QED
  BY <1>1, <1>2, <1>3, PTL DEF Spec
=============================================================================
