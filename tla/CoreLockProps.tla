---------------------------- MODULE CoreLockProps ----------------------------
(* Correctness of the runqueue locks under core scheduling. *)
EXTENDS CoreLock

TypeOK ==
  /\ pc \in [Cpu -> {"run", "spin", "first", "in"}]
  /\ want \in [Cpu -> Cpu] /\ mate \in [Cpu -> Cpu \cup {None}] /\ lk \in [Cpu -> Cpu]
  /\ plain \in [Cpu -> BOOLEAN] /\ owner \in [Cpu -> Cpu \cup {All, None}]
  /\ core \in [Cpu -> Cpu]
  /\ key \in BOOLEAN /\ core_enabled \in BOOLEAN /\ sched_core_count \in Nat
  /\ life \in [Cookie -> {"none", "wait", "get", "live"}]
  /\ work \in {"idle", "queued", "wait", "put"}
  /\ step \in {"none", "key", "rcu", "flip", "inc", "unkey"}
  /\ big \in {"none", "flip", "down", "up"}
  /\ hp \in [Cpu -> {"up", "leaving", "dying", "dead", "starting"}]

(* "raw_spin_rq_lock(rq) ... raw_spin_rq_unlock(rq) ends up locking and    *)
(* unlocking the same lock, and all CPUs always agree on what rq has what  *)
(* lock": a CPU in a section for a runqueue holds the lock that belongs to *)
(* the runqueue at that moment, whatever the switch and the leader do.     *)
RqLockHeld ==
  \A c \in Cpu : pc[c] = "in" => \A l \in Locks(c) : owner[l] = c

(* Nobody waits in a circle, the holders of two locks and of all locks     *)
(* included: while a lock is held, one of the holders can go on.           *)
Waits(h) ==
  IF h = All THEN \E c \in Smt : /\ owner[c] \notin {All, None}
                                /\ \A d \in Smt : d < c => owner[d] = All
             ELSE pc[h] = "spin" /\ owner[lk[h]] # None

HoldersGoOn ==
  (\E l \in Cpu : owner[l] # None) => \E l \in Cpu : owner[l] # None /\ ~Waits(owner[l])

(* A cookie that sched_core_get() has returned for finds core scheduling   *)
(* on, on all CPUs and for as long as it lives; every one is counted once, *)
(* or owed by the work, which is never asked for twice.                    *)
CookiesCounted ==
  /\ sched_core_count = Cardinality({x \in Cookie : life[x] = "live"})
                        + IF work \in {"queued", "wait"} THEN 1 ELSE 0
  /\ (\E x \in Cookie : life[x] = "live") => key /\ core_enabled
=============================================================================
