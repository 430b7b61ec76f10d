---------------------------- MODULE AffinityProps ---------------------------
(* Correctness of affinity changes, migration and CPU hotplug. *)
EXTENDS Affinity, Functions

Request == [refs : Nat, stop_pending : BOOLEAN, done : BOOLEAN, dest : CPU \cup {None}]
Rest == [at : {"out", "push", "complete", "kick", "clear"}, ends : Caller \cup {None}]

(* Types; the nesting count and the references never go below zero.        *)
TypeOK ==
  /\ cpu \in CPU
  /\ run \in {"running", "leaving", "queued", "blocked", "waking"}
  /\ cpus_mask \in (SUBSET CPU) \ {{}}
  /\ cpus_ptr \in CPU \cup {None}
  /\ migration_disabled \in 0 .. MaxNest
  /\ migration_pending \in Caller \cup {None}
  /\ mdf_push \in BOOLEAN /\ exec \in BOOLEAN
  /\ enable \in Rest
  /\ nr_pinned \in [CPU -> Int]
  /\ push_busy \in [CPU -> BOOLEAN]
  /\ pend \in [Caller -> Request]
  /\ pc \in [Caller -> {"idle", "kick", "complete", "complete_return", "wait", "own"}]
  /\ use \in [Caller -> Caller \cup {None}]
  /\ kick \in [Caller -> CPU \cup {None}]
  /\ hp \in [CPU -> {"up", "inactive", "empty", "dead", "starting"}]
  /\ downs \in 0 .. MaxDown
  /\ lapsed \subseteq {"not reset", "pinned", "waking", "not moved"}

(* "__set_cpus_allowed_ptr() must block until the designated task is       *)
(* enqueued on an allowed CPU": a task that runs, is queued, wakes up or   *)
(* is pinned outside its mask still has a request installed, which a stop  *)
(* work or migrate_enable() serves; its WARN_ON_ONCE(!pending) does not    *)
(* fire.                                                                   *)
AllowedOrPending ==
  lapsed = {} /\ cpu \notin cpus_mask /\ (run # "blocked" \/ Pinned) =>
    migration_pending # None

\* Every stop work that is queued or executed, with its place.
Works(c) == Range(works[c]) \cup {stopper[c]}
Serves(w, k) == w.own = k /\ w.fn \in {"migration_cpu_stop", "chase"}

(* The WARN of migration_cpu_stop never fires: the request that a stop     *)
(* work was queued for is still the one installed, with stop_pending set.  *)
StopWorkHasPending ==
  \A c \in CPU, k \in Caller :
    (\E w \in Works(c) : Serves(w, k)) => migration_pending = k /\ pend[k].stop_pending

(* No cpu_stop_work is queued while it is still queued, on any stopper:    *)
(* the one of a request (stop_pending), of a runqueue (push_busy) and of   *)
(* balance_push (need_resched).                                            *)
StopWorkQueuedOnce ==
  /\ \A k \in Caller, c, d \in CPU : \A m \in DOMAIN works[c], n \in DOMAIN works[d] :
       Serves(works[c][m], k) /\ Serves(works[d][n], k) => c = d /\ m = n
  /\ \A c \in CPU, fn \in {"push_cpu_stop", "balance_push"} : \A m, n \in DOMAIN works[c] :
       works[c][m].fn = fn /\ works[c][n].fn = fn => m = n

(* A request lives on its caller's stack, its references are the callers   *)
(* that wait for it, and nobody holds it once its caller has returned: no  *)
(* stop work, no stopper about to complete it, no caller, not the task.    *)
RequestOutlivesUse ==
  \A k \in Caller :
    /\ pend[k].refs = Cardinality({j \in Caller : use[j] = k /\ pc[j] # "complete_return"})
    /\ pc[k] = "idle" =>
         /\ migration_pending # k /\ enable.ends # k
         /\ \A j \in Caller : use[j] # k
         /\ \A c \in CPU : \A w \in Works(c) : w.own # k

(* No region ended with all CPUs of the mask offline, cpus_ptr not reset.  *)
AlwaysReset == "not reset" \notin lapsed

(* Inside its migrate-disabled region the task stays where it is, whatever *)
(* the balancer, the stoppers and hotplug do; unless an earlier region     *)
(* ended with all CPUs of the mask offline and cpus_ptr was not reset.     *)
PinnedStays == [][ AlwaysReset /\ Pinned /\ Pinned' => cpu' = cpu ]_vars

(* With the same exception, nr_pinned, by which hotplug waits for the      *)
(* regions to end, counts them, and "Dying CPU not properly vacated!" is   *)
(* never printed.                                                          *)
DyingIsVacated ==
  AlwaysReset => \A c \in CPU :
    /\ nr_pinned[c] = IF Pinned /\ cpu = c THEN 1 ELSE 0
    /\ hp[c] = "dead" => nr_pinned[c] = 0 /\ (cpu = c => run = "blocked")

(* A caller of set_cpus_allowed_ptr() gets its answer, provided that the   *)
(* task leaves its migrate-disabled regions.                               *)
SetAffinityReturns == \A k \in Caller : pc[k] # "idle" ~> pc[k] = "idle"

-----------------------------------------------------------------------------
(* Statements of the comments that the code does not keep.                 *)

(* affine_move_task: "Either way, we really should have a @pending here",  *)
(* and the WARN behind it, reached from migrate_enable().                  *)
PendingAtEnable == Pinned /\ cpu \notin cpus_mask => migration_pending # None

(* migrate_enable: "Mustn't clear migration_disabled() until cpus_ptr      *)
(* points back at the regular cpus_mask".                                  *)
PtrPointsBack == ~Pinned => cpus_ptr = None
=============================================================================
