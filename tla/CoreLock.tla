------------------------------- MODULE CoreLock ------------------------------
(***************************************************************************)
(* The runqueue locks of one core under core scheduling (CONFIG_SCHED_CORE *)
(* of kernel/core.c): while it is enabled the siblings use the lock of     *)
(* their leader.  The first cookie turns the switch on and the last one    *)
(* off, CPU hotplug changes the leader, and CPUs take and wait for locks   *)
(* all the time.                                                           *)
(*                                                                         *)
(* What is done in a section under a lock is CoreSched's subject.          *)
(***************************************************************************)
EXTENDS Integers, FiniteSets, FiniteSetsExt

CONSTANTS
  Cpu,     \* the CPUs of the core, numbers
  Cookie,  \* cookies, each allocated and freed any number of times
  Hotplug, \* CPUs that may go down and come up again
  None,    \* no CPU
  All      \* the holder of sched_core_lock()

ASSUME CpuAssumption == Cpu \subseteq Nat /\ Cpu # {} /\ IsFiniteSet(Cpu) /\ Hotplug \subseteq Cpu
ASSUME CookieAssumption == IsFiniteSet(Cookie)
ASSUME NameAssumption == None \notin Cpu /\ All \notin Cpu \cup {None}

VARIABLES
  \* what CPU c does: "run", "spin" on lk[c] for want[c], "in" a section for
  \* want[c] and mate[c], "first" if the lock of mate[c] is still to be taken
  pc, want, mate, lk,
  plain,    \* it saw sched_core_disabled()
  owner,    \* owner[c]: who holds rq(c)->__lock
  core,     \* core[c]: the leader, rq(c)->core
  \* the switch
  key,      \* __sched_core_enabled
  core_enabled, \* of the core's runqueues
  sched_core_count,
  life,     \* life[x]: "none", "wait" for sched_core_mutex, "get" with it, "live"
  work,     \* __sched_core_put(): "idle", "queued", "wait", "put" with the mutex
  step,     \* what the holder of the mutex does next
  \* who takes all locks of the core, "flip", "down" or "up", and hotplug
  big,
  hp        \* hp[c]: "up", "leaving" (deactivated), "dying", "dead", "starting"

cpuVars == <<pc, want, mate, lk, plain>>
cookieVars == <<sched_core_count, life, work>>
switchVars == <<key, core_enabled, cookieVars, step>>
vars == <<cpuVars, owner, core, switchVars, big, hp>>

Init ==
  /\ pc = [c \in Cpu |-> "run"]
  /\ want = [c \in Cpu |-> c] /\ mate = [c \in Cpu |-> None]
  /\ lk = [c \in Cpu |-> c] /\ plain = [c \in Cpu |-> FALSE]
  /\ owner = [c \in Cpu |-> None]
  /\ core = [c \in Cpu |-> Min(Cpu)]
  /\ key = FALSE /\ core_enabled = FALSE
  /\ sched_core_count = 0 /\ life = [x \in Cookie |-> "none"]
  /\ work = "idle" /\ step = "none"
  /\ big = "none" /\ hp = [c \in Cpu |-> "up"]

-----------------------------------------------------------------------------
\* Runqueue locks

\* cpu_smt_mask() of a CPU of the core
Smt == {c \in Cpu : hp[c] \in {"up", "leaving", "starting"}}

\* __rq_lockp(): the lock of the leader, or one's own
__rq_lockp(r) == IF core_enabled THEN core[r] ELSE r

\* raw_spin_rq_lock_nested(): without the static key one's own lock it is, else
\* the lock is checked once it is taken.
Spin(c, r) ==
  /\ want' = [want EXCEPT ![c] = r]
  /\ plain' = [plain EXCEPT ![c] = @ \/ ~key]
  /\ lk' = [lk EXCEPT ![c] = IF key THEN __rq_lockp(r) ELSE r]
  /\ pc' = [pc EXCEPT ![c] = "spin"]

\* CPU c wants the lock of r, which may be down: a task that sleeps since then
\* is still on its runqueue.
raw_spin_rq_lock(c, r) ==
  /\ pc[c] = "run" /\ hp[c] \in {"up", "leaving", "dying"}
  /\ Spin(c, r)
  /\ UNCHANGED <<mate, owner, core, switchVars, big, hp>>

(* Faulty: the runqueues are locked as they are given.                     *)
OrderAsGiven(r, s) == r # s

\* rq_order_less(): by the leader, then by the CPU
rq_order_less(r, s) == core[r] < core[s] \/ (core[r] = core[s] /\ r < s)

\* double_rq_lock(), from another runqueue's balancing
double_rq_lock(c, r, s) ==
  /\ pc[c] = "run" /\ \A d \in {c, r, s} : hp[d] \in {"up", "leaving"}
  /\ rq_order_less(r, s)
  /\ Spin(c, r)
  /\ mate' = [mate EXCEPT ![c] = s]
  /\ UNCHANGED <<owner, core, switchVars, big, hp>>

Holds(c) == \E l \in Cpu : owner[l] = c

(* Faulty: the lock is not looked at again once it is taken.               *)
RecheckedNever(c) == c \in Cpu

Rechecked(c) == plain[c] \/ lk[c] = __rq_lockp(want[c])

\* The lock is free: it is taken and kept, or it is not that of the runqueue any
\* more and given back.
Acquire(c) ==
  /\ pc[c] = "spin" /\ owner[lk[c]] = None
  /\ IF Rechecked(c)
       THEN /\ owner' = [owner EXCEPT ![lk[c]] = c]
            /\ pc' = [pc EXCEPT ![c] = IF mate[c] = None \/ Holds(c) THEN "in" ELSE "first"]
            /\ UNCHANGED <<want, lk, plain>>
       ELSE Spin(c, want[c]) /\ UNCHANGED owner
  /\ UNCHANGED <<mate, core, switchVars, big, hp>>

\* The other lock of a pair, unless it is the same.
SecondLock(c) ==
  /\ pc[c] = "first"
  /\ IF __rq_lockp(mate[c]) = __rq_lockp(want[c])
       THEN pc' = [pc EXCEPT ![c] = "in"] /\ UNCHANGED <<want, mate, lk, plain>>
       ELSE /\ Spin(c, mate[c])
            /\ mate' = [mate EXCEPT ![c] = want[c]]
  /\ UNCHANGED <<owner, core, switchVars, big, hp>>

\* raw_spin_rq_trylock(): from a section for one runqueue the lock of another one,
\* in any order, if it is free.  Nobody who holds all locks of the core can change
\* which one it is meanwhile.
raw_spin_rq_trylock(c, r) ==
  /\ pc[c] = "in" /\ mate[c] = None
  /\ \A d \in {want[c], r} : hp[d] \in {"up", "leaving"}
  /\ __rq_lockp(r) # __rq_lockp(want[c]) /\ owner[__rq_lockp(r)] = None
  /\ owner' = [owner EXCEPT ![__rq_lockp(r)] = c]
  /\ mate' = [mate EXCEPT ![c] = r]
  /\ plain' = [plain EXCEPT ![c] = @ \/ ~key]
  /\ UNCHANGED <<pc, want, lk, core, switchVars, big, hp>>

\* rq_lockp() of the section's runqueues, with which they are unlocked
Locks(c) ==
  {IF key /\ core_enabled THEN core[r] ELSE r : r \in {want[c], mate[c]} \ {None}}

raw_spin_rq_unlock(c) ==
  /\ pc[c] = "in"
  /\ owner' = [l \in Cpu |-> IF l \in Locks(c) THEN None ELSE owner[l]]
  /\ pc' = [pc EXCEPT ![c] = "run"]
  /\ want' = [want EXCEPT ![c] = c] /\ mate' = [mate EXCEPT ![c] = None]
  /\ lk' = [lk EXCEPT ![c] = c] /\ plain' = [plain EXCEPT ![c] = FALSE]
  /\ UNCHANGED <<core, switchVars, big, hp>>

\* sched_core_lock(): the locks of all siblings, in the order of the CPUs
sched_core_lock ==
  /\ big # "none"
  /\ LET rest == {c \in Smt : owner[c] # All} IN
       /\ rest # {} /\ owner[Min(rest)] = None
       /\ owner' = [owner EXCEPT ![Min(rest)] = All]
  /\ UNCHANGED <<cpuVars, core, switchVars, big, hp>>

\* Its caller does its work and calls sched_core_unlock().
CoreLocked(what) == big = what /\ \A c \in Smt : owner[c] = All
sched_core_unlock ==
  /\ owner' = [c \in Cpu |-> IF owner[c] = All THEN None ELSE owner[c]]
  /\ big' = "none"

-----------------------------------------------------------------------------
\* The switch; a cookie stands for its allocation and its last reference

mutexFree == step = "none"

\* sched_core_get(): atomic_inc_not_zero, ...
sched_core_get(x) ==
  /\ life[x] = "none"
  /\ IF sched_core_count # 0
       THEN sched_core_count' = sched_core_count + 1 /\ life' = [life EXCEPT ![x] = "live"]
       ELSE UNCHANGED sched_core_count /\ life' = [life EXCEPT ![x] = "wait"]
  /\ UNCHANGED <<cpuVars, owner, core, key, core_enabled, work, step, big, hp>>

\* ... or take the mutex and see whether the switch must be turned.
GetLocks(x) ==
  /\ life[x] = "wait" /\ mutexFree
  /\ life' = [life EXCEPT ![x] = "get"]
  /\ step' = IF sched_core_count = 0 THEN "key" ELSE "inc"
  /\ UNCHANGED <<cpuVars, owner, core, key, core_enabled, sched_core_count, work, big, hp>>

GetDone(x) ==
  /\ life[x] = "get" /\ step = "inc"
  /\ sched_core_count' = sched_core_count + 1
  /\ life' = [life EXCEPT ![x] = "live"] /\ step' = "none"
  /\ UNCHANGED <<cpuVars, owner, core, key, core_enabled, work, big, hp>>

\* __sched_core_enable(): static_branch_enable(), ...
EnableKey ==
  /\ step = "key"
  /\ key' = TRUE /\ step' = "rcu"
  /\ UNCHANGED <<cpuVars, owner, core, core_enabled, cookieVars, big, hp>>

\* ... synchronize_rcu(), for the sections that did not see the key, ...
synchronize_rcu ==
  /\ step = "rcu" /\ \A c \in Cpu : ~plain[c]
  /\ step' = "flip"
  /\ UNCHANGED <<cpuVars, owner, core, key, core_enabled, cookieVars, big, hp>>

\* ... and __sched_core_flip(), whose cpus_read_lock() waits for hotplug.
HotplugFree == big = "none" /\ \A c \in Cpu : hp[c] \in {"up", "dead"}

FlipStart ==
  /\ step = "flip" /\ HotplugFree
  /\ big' = "flip"
  /\ UNCHANGED <<cpuVars, owner, core, switchVars, hp>>

__sched_core_flip ==
  /\ CoreLocked("flip")
  /\ core_enabled' = (work # "put")
  /\ step' = IF work = "put" THEN "unkey" ELSE "inc"
  /\ sched_core_unlock
  /\ UNCHANGED <<cpuVars, core, key, cookieVars, hp>>

\* sched_core_put(): the last reference is left to a work.
sched_core_put(x) ==
  /\ life[x] = "live"
  /\ life' = [life EXCEPT ![x] = "none"]
  /\ IF sched_core_count # 1
       THEN sched_core_count' = sched_core_count - 1 /\ UNCHANGED work
       ELSE UNCHANGED sched_core_count /\ work' = IF work = "idle" THEN "queued" ELSE work
  /\ UNCHANGED <<cpuVars, owner, core, key, core_enabled, step, big, hp>>

\* __sched_core_put(): atomic_dec_and_mutex_lock(), ...
__sched_core_put ==
  /\ work = "queued"
  /\ IF sched_core_count # 1
       THEN sched_core_count' = sched_core_count - 1 /\ work' = "idle"
       ELSE UNCHANGED sched_core_count /\ work' = "wait"
  /\ UNCHANGED <<cpuVars, owner, core, key, core_enabled, life, step, big, hp>>

(* Faulty: whoever waited for the mutex is taken to be the last one.       *)
PutLocksUnchecked ==
  /\ work = "wait" /\ mutexFree
  /\ sched_core_count' = sched_core_count - 1
  /\ work' = "put" /\ step' = "flip"
  /\ UNCHANGED <<cpuVars, owner, core, key, core_enabled, life, big, hp>>

\* ... whose second half decrements with the mutex, ...
PutLocks ==
  /\ work = "wait" /\ mutexFree
  /\ sched_core_count' = sched_core_count - 1
  /\ IF sched_core_count = 1 THEN work' = "put" /\ step' = "flip"
                             ELSE work' = "idle" /\ UNCHANGED step
  /\ UNCHANGED <<cpuVars, owner, core, key, core_enabled, life, big, hp>>

\* ... and __sched_core_disable(): the flip above, then static_branch_disable().
DisableKey ==
  /\ step = "unkey"
  /\ key' = FALSE /\ step' = "none" /\ work' = "idle"
  /\ UNCHANGED <<cpuVars, owner, core, core_enabled, sched_core_count, life, big, hp>>

-----------------------------------------------------------------------------
\* Hotplug: one operation at a time, and not while the switch is flipped

Deactivate(c) ==
  /\ HotplugFree /\ c \in Hotplug /\ hp[c] = "up" /\ Smt # {c}
  /\ hp' = [hp EXCEPT ![c] = "leaving"] /\ big' = "down"
  /\ UNCHANGED <<cpuVars, owner, core, switchVars>>

\* sched_core_cpu_deactivate(): another sibling leads.
NewLeader(c) ==
  IF core[c] # c THEN core
  ELSE [t \in Cpu |-> IF t \in Smt THEN Min(Smt \ {c}) ELSE core[t]]

sched_core_cpu_deactivate(c) ==
  /\ CoreLocked("down") /\ hp[c] = "leaving"
  /\ core' = NewLeader(c)
  /\ sched_core_unlock
  /\ UNCHANGED <<cpuVars, switchVars, hp>>

\* cpuset_cpu_inactive() refuses.
Refused(c) ==
  /\ hp[c] = "leaving" /\ big = "none"
  /\ hp' = [hp EXCEPT ![c] = "up"]
  /\ UNCHANGED <<cpuVars, owner, core, switchVars, big>>

\* All other CPUs are stopped: sched_core_cpu_dying() ...
sched_core_cpu_dying(c) ==
  /\ hp[c] = "leaving" /\ big = "none" /\ \A d \in Cpu : pc[d] = "run"
  /\ hp' = [hp EXCEPT ![c] = "dying"]
  /\ core' = [core EXCEPT ![c] = c]
  /\ UNCHANGED <<cpuVars, owner, switchVars, big>>

\* ... and the stopper has switched to the idle task for good.
Dead(c) ==
  /\ hp[c] = "dying" /\ pc[c] = "run"
  /\ hp' = [hp EXCEPT ![c] = "dead"]
  /\ UNCHANGED <<cpuVars, owner, core, switchVars, big>>

Start(c) ==
  /\ HotplugFree /\ hp[c] = "dead"
  /\ hp' = [hp EXCEPT ![c] = "starting"] /\ big' = "up"
  /\ UNCHANGED <<cpuVars, owner, core, switchVars>>

\* sched_core_cpu_starting(): it joins the siblings' leader.
sched_core_cpu_starting(c) ==
  /\ CoreLocked("up") /\ hp[c] = "starting"
  /\ hp' = [hp EXCEPT ![c] = "up"]
  /\ \E t \in Smt \ {c} : core[t] = t /\ core' = [core EXCEPT ![c] = t]
  /\ sched_core_unlock
  /\ UNCHANGED <<cpuVars, switchVars>>

-----------------------------------------------------------------------------
Next ==
  \/ \E c \in Cpu :
       \/ \E r \in Cpu : \/ raw_spin_rq_lock(c, r) \/ raw_spin_rq_trylock(c, r)
                         \/ \E s \in Cpu : double_rq_lock(c, r, s)
       \/ Acquire(c) \/ SecondLock(c) \/ raw_spin_rq_unlock(c)
       \/ Deactivate(c) \/ sched_core_cpu_deactivate(c) \/ Refused(c)
       \/ sched_core_cpu_dying(c) \/ Dead(c)
       \/ Start(c) \/ sched_core_cpu_starting(c)
  \/ sched_core_lock \/ EnableKey \/ synchronize_rcu \/ FlipStart \/ __sched_core_flip
  \/ \E x \in Cookie : sched_core_get(x) \/ GetLocks(x) \/ GetDone(x) \/ sched_core_put(x)
  \/ __sched_core_put \/ PutLocks \/ DisableKey

Spec == Init /\ [][Next]_vars
=============================================================================
