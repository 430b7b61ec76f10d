------------------------------- MODULE Affinity ------------------------------
(***************************************************************************)
(* CPU affinity, migrate_disable(), the stopper callbacks and CPU hotplug  *)
(* of kernel/core.c, around one user task P.                               *)
(*                                                                         *)
(* Any number of threads call set_cpus_allowed_ptr(P, mask); P enters and  *)
(* leaves migrate-disabled regions, blocks, is woken, preempted, balanced  *)
(* and pushed; CPUs go down and come up.  A section under p->pi_lock and   *)
(* rq->lock is one step; what the code does after it has dropped the locks *)
(* (queueing stop work, complete_all, waiting) are steps of their own.     *)
(***************************************************************************)
EXTENDS Integers, FiniteSets, Sequences

CONSTANTS
  CPU,
  Caller,   \* threads that call set_cpus_allowed_ptr(P, ...)
  Self,     \* the one of them that is P itself, or None
  None,     \* no CPU, no caller
  WakeLists, \* CPUs that ttwu_queue_cond() wakes over a wake list
  Execs,    \* TRUE: P calls sched_exec()
  Pushes,   \* TRUE: P is a realtime task, push_rt_task() may push it
  MaxNest,  \* bound on nested migrate_disable()
  MaxDown   \* bound on CPUs going down

ASSUME NoneAssumption == None \notin CPU \cup Caller
ASSUME CallersAssumption == IsFiniteSet(Caller)
ASSUME SelfAssumption == Self \in Caller \cup {None}
ASSUME WakeListsAssumption == WakeLists \subseteq CPU
ASSUME BoundsAssumption == MaxNest \in Nat /\ MaxDown \in Nat

VARIABLES
  \* P
  cpu,                \* task_cpu(P)
  run,                \* "running", "leaving" (current, about to be pushed),
                      \* "queued", "blocked", "waking" (on cpu's wake list)
  cpus_mask,
  cpus_ptr,           \* None: &P->cpus_mask; c: cpumask_of(c)
  migration_disabled,
  migration_pending,  \* the caller whose my_pending is installed, or None
  mdf_push,           \* MDF_PUSH
  enable,             \* migrate_enable() after its locked section: what it does next,
                      \* and the caller whose request it is to complete, or None
  exec,               \* P waits for the stop work of sched_exec()
  \* runqueues
  nr_pinned, push_busy,
  \* callers
  pend,               \* my_pending on each caller's stack
  pc,
  use,                \* the caller whose my_pending this one waits for
  kick,               \* the CPU whose stopper it is about to use
  \* stoppers
  works,              \* queue of cpu_stop_work of each CPU
  stopper,            \* the work each stopper executes
  \* hotplug
  hp,                 \* "up", "inactive", "empty", "dead", "starting"
  downs,
  lapsed              \* history: the ways a request has been dropped unserved

pVars == <<cpu, run, cpus_mask, cpus_ptr, migration_disabled, mdf_push, enable, exec>>
rqVars == <<nr_pinned, push_busy>>
callVars == <<pc, use, kick>>
stopVars == <<works, stopper>>
otherVars == <<hp, downs, lapsed>>
vars == <<pVars, migration_pending, rqVars, pend, callVars, stopVars, otherVars>>

NoPending == [refs |-> 0, stop_pending |-> FALSE, done |-> FALSE, dest |-> None]
NoWork == [fn |-> "none", own |-> None, dest |-> None]
Idle == [NoWork EXCEPT !.fn = "idle"]
Enabling(at, ends) == [at |-> at, ends |-> ends]

Init ==
  /\ cpu \in CPU /\ run = "queued"
  /\ cpus_mask = CPU /\ cpus_ptr = None
  /\ migration_disabled = 0 /\ migration_pending = None
  /\ mdf_push = FALSE /\ enable = Enabling("out", None) /\ exec = FALSE
  /\ nr_pinned = [c \in CPU |-> 0] /\ push_busy = [c \in CPU |-> FALSE]
  /\ pend = [k \in Caller |-> NoPending]
  /\ pc = [k \in Caller |-> "idle"]
  /\ use = [k \in Caller |-> None] /\ kick = [k \in Caller |-> None]
  /\ works = [c \in CPU |-> <<>>] /\ stopper = [c \in CPU |-> Idle]
  /\ hp = [c \in CPU |-> "up"] /\ downs = 0
  /\ lapsed = {}

-----------------------------------------------------------------------------
cpu_active == {c \in CPU : hp[c] = "up"}
cpu_online == {c \in CPU : hp[c] # "dead"}
cpu_dying == {c \in CPU : hp[c] \in {"inactive", "empty", "dead"}}

Ptr == IF cpus_ptr = None THEN cpus_mask ELSE {cpus_ptr}
OnCpu == run \in {"running", "leaving"}
Queued == run \in {"running", "leaving", "queued"}   \* p->on_rq
Pinned == migration_disabled > 0

\* P executes its own code, preemptible.
Executing == run = "running" /\ enable.at = "out"

is_cpu_allowed(c) ==
  c \in Ptr /\ c \in IF Pinned THEN cpu_online ELSE cpu_active

\* select_fallback_rq: some allowed CPU, after widening the mask if need be.
Fallback(c) ==
  IF \E d \in CPU : is_cpu_allowed(d)
    THEN is_cpu_allowed(c) /\ UNCHANGED cpus_mask
    ELSE cpus_ptr = None /\ c \in cpu_active /\ cpus_mask' = CPU

\* stop_one_cpu_nowait: without effect when the CPU's stopper is parked.
Stop(c, work) ==
  works' = IF hp[c] = "dead" THEN works ELSE [works EXCEPT ![c] = Append(@, work)]

MigrateWork(k) == [fn |-> "migration_cpu_stop", own |-> k, dest |-> None]

-----------------------------------------------------------------------------
(* P and the scheduler.                                                    *)

(* Faulty: without migrate_disable_switch.                                 *)
SwitchOutUnpinned(how) == run' = how /\ UNCHANGED cpus_ptr

\* migrate_disable_switch in __schedule, when P is switched out
SwitchOut(how) ==
  /\ run' = how
  /\ cpus_ptr' = IF Pinned /\ cpus_ptr = None THEN cpu ELSE cpus_ptr

Preempt ==
  /\ OnCpu /\ enable.at = "out"
  /\ SwitchOut("queued")
  /\ UNCHANGED <<cpu, cpus_mask, migration_disabled, mdf_push, enable, exec,
                 migration_pending, rqVars, pend, callVars, stopVars, otherVars>>

Block ==
  /\ Executing
  /\ Self \in Caller => pc[Self] \in {"idle", "wait", "own"}
  /\ SwitchOut("blocked")
  /\ UNCHANGED <<cpu, cpus_mask, migration_disabled, mdf_push, enable, exec,
                 migration_pending, rqVars, pend, callVars, stopVars, otherVars>>

\* P is picked; on a CPU that goes down balance_push() sends it away at once.
Resume ==
  /\ run = "queued" /\ works[cpu] = <<>> /\ stopper[cpu] = Idle
  /\ IF cpu \in cpu_dying /\ ~Pinned
       THEN run' = "leaving" /\ Stop(cpu, [NoWork EXCEPT !.fn = "balance_push"])
       ELSE run' = "running" /\ UNCHANGED works
  /\ UNCHANGED <<cpu, cpus_mask, cpus_ptr, migration_disabled, mdf_push, enable, exec,
                 migration_pending, rqVars, pend, callVars, stopper, otherVars>>

\* try_to_wake_up: the runqueue is locked, or P is left on a wake list.
Wake(c) ==
  /\ run = "blocked"
  /\ Fallback(c)
  /\ cpu' = c
  /\ run' \in {"queued"} \cup IF c \in WakeLists \cap cpu_active THEN {"waking"} ELSE {}
  /\ UNCHANGED <<cpus_ptr, migration_disabled, mdf_push, enable, exec,
                 migration_pending, rqVars, pend, callVars, stopVars, otherVars>>

\* the IPI that serves the wake list
TakeIpi ==
  /\ run = "waking" /\ stopper[cpu].fn # "migration_cpu_stop"
  /\ run' = "queued"
  /\ UNCHANGED <<cpu, cpus_mask, cpus_ptr, migration_disabled, mdf_push, enable, exec,
                 migration_pending, rqVars, pend, callVars, stopVars, otherVars>>

\* the load balancer
Balance(c) ==
  /\ run = "queued"
  /\ c \in (Ptr \cap cpu_active) \ {cpu}
  /\ cpu' = c
  /\ UNCHANGED <<run, cpus_mask, cpus_ptr, migration_disabled, mdf_push, enable, exec,
                 migration_pending, rqVars, pend, callVars, stopVars, otherVars>>

(* Faulty: push_busy is not looked at.                                     *)
PushableAnyway(c) == ~Pinned /\ Cardinality(cpus_mask) > 1

\* get_push_task
Pushable(c) == ~push_busy[c] /\ ~Pinned /\ Cardinality(cpus_mask) > 1

\* push_rt_task on the CPU that runs P: get_push_task, then push_cpu_stop
RtPush ==
  /\ Pushes /\ run = "running"
  /\ Pushable(cpu)
  /\ push_busy' = [push_busy EXCEPT ![cpu] = TRUE]
  /\ Stop(cpu, [NoWork EXCEPT !.fn = "push_cpu_stop"])
  /\ UNCHANGED <<pVars, migration_pending, nr_pinned, pend, callVars, stopper, otherVars>>

sched_exec(c) ==
  /\ Execs /\ Executing /\ ~exec /\ ~Pinned
  /\ Self \in Caller => pc[Self] = "idle"
  /\ c \in cpu_active \ {cpu}
  /\ exec' = TRUE
  /\ Stop(cpu, [fn |-> "migration_cpu_stop", own |-> None, dest |-> c])
  /\ UNCHANGED <<cpu, run, cpus_mask, cpus_ptr, migration_disabled, mdf_push, enable,
                 migration_pending, rqVars, pend, callVars, stopper, otherVars>>

-----------------------------------------------------------------------------
(* migrate_disable and migrate_enable                                      *)

InCode == Executing /\ ~exec /\ (Self \in Caller => pc[Self] = "idle")

migrate_disable ==
  /\ InCode /\ migration_disabled < MaxNest
  /\ migration_disabled' = migration_disabled + 1
  /\ nr_pinned' = IF Pinned THEN nr_pinned ELSE [nr_pinned EXCEPT ![cpu] = @ + 1]
  /\ UNCHANGED <<cpu, run, cpus_mask, cpus_ptr, mdf_push, enable, exec,
                 migration_pending, push_busy, pend, callVars, stopVars, otherVars>>

Unpinned == [nr_pinned EXCEPT ![cpu] = @ - 1]

\* The inner region ends, or P was not switched out since it entered.
EnableFast ==
  /\ InCode /\ Pinned
  /\ migration_disabled > 1 \/ cpus_ptr = None
  /\ migration_disabled' = migration_disabled - 1
  /\ nr_pinned' = IF migration_disabled > 1 THEN nr_pinned ELSE Unpinned
  /\ UNCHANGED <<cpu, run, cpus_mask, cpus_ptr, mdf_push, enable, exec,
                 migration_pending, push_busy, pend, callVars, stopVars, otherVars>>

(* Faulty: completes what the stop work will complete.                     *)
CompletesAnyway == migration_pending # None

\* affine_move_task: waiters, and no stop work that would complete them
Completes == migration_pending # None /\ ~pend[migration_pending].stop_pending

\* affine_move_task with SCA_MIGRATE_ENABLE where P may stay
EnableStay ==
  /\ cpu \in cpus_mask
  /\ LET push == mdf_push /\ ~push_busy[cpu]
     IN /\ push_busy' = [push_busy EXCEPT ![cpu] = @ \/ push]
        /\ migration_pending' = IF Completes THEN None ELSE migration_pending
        /\ enable' = Enabling(IF push THEN "push" ELSE IF Completes THEN "complete" ELSE "clear",
                              IF Completes THEN migration_pending ELSE None)
  /\ UNCHANGED <<pend, mdf_push>>

\* ... and where P has to leave; without a request there is the WARN, and P stays.
EnableMove ==
  /\ cpu \notin cpus_mask
  /\ IF migration_pending = None
       THEN enable' = Enabling("clear", None) /\ UNCHANGED <<pend, mdf_push>>
       ELSE /\ pend' = [pend EXCEPT ![migration_pending].stop_pending = TRUE]
            /\ mdf_push' = FALSE
            /\ enable' = Enabling(IF pend[migration_pending].stop_pending THEN "clear" ELSE "kick",
                                  None)
  /\ UNCHANGED <<push_busy, migration_pending>>

\* __set_cpus_allowed_ptr(P, SCA_MIGRATE_ENABLE), up to the unlock
EnableSlow ==
  /\ InCode /\ migration_disabled = 1 /\ cpus_ptr # None
  /\ IF cpus_mask \cap cpu_online = {}
       THEN /\ enable' = Enabling("clear", None) /\ lapsed' = lapsed \cup {"not reset"}
            /\ UNCHANGED <<cpus_ptr, mdf_push, push_busy, pend, migration_pending>>
       ELSE /\ cpus_ptr' = None /\ UNCHANGED lapsed
            /\ EnableStay \/ EnableMove
  /\ UNCHANGED <<cpu, run, cpus_mask, migration_disabled, exec,
                 nr_pinned, callVars, stopVars, hp, downs>>

\* After it: stop_one_cpu_nowait() with either work, complete_all().
EnablePush ==
  /\ enable.at = "push"
  /\ Stop(cpu, [NoWork EXCEPT !.fn = "push_cpu_stop"])
  /\ enable' = [enable EXCEPT !.at = IF enable.ends = None THEN "clear" ELSE "complete"]
  /\ UNCHANGED <<cpu, run, cpus_mask, cpus_ptr, migration_disabled, mdf_push, exec,
                 migration_pending, rqVars, pend, callVars, stopper, otherVars>>

EnableComplete ==
  /\ enable.at = "complete"
  /\ pend' = [pend EXCEPT ![enable.ends].done = TRUE]
  /\ enable' = Enabling("clear", None)
  /\ UNCHANGED <<cpu, run, cpus_mask, cpus_ptr, migration_disabled, mdf_push, exec,
                 migration_pending, rqVars, callVars, stopVars, otherVars>>

EnableKick ==
  /\ enable.at = "kick"
  /\ Stop(cpu, MigrateWork(migration_pending))
  /\ enable' = Enabling("clear", None)
  /\ UNCHANGED <<cpu, run, cpus_mask, cpus_ptr, migration_disabled, mdf_push, exec,
                 migration_pending, rqVars, pend, callVars, stopper, otherVars>>

\* preempt_enable() lets a stopper that has work here preempt P.
EnableClear ==
  /\ enable.at = "clear"
  /\ migration_disabled' = 0
  /\ run' = IF works[cpu] = <<>> THEN run ELSE "queued"
  /\ nr_pinned' = Unpinned
  /\ enable' = Enabling("out", None)
  /\ UNCHANGED <<cpu, cpus_mask, cpus_ptr, mdf_push, exec,
                 migration_pending, push_busy, pend, callVars, stopVars, otherVars>>

-----------------------------------------------------------------------------
(* set_cpus_allowed_ptr(P, M) by caller k                                  *)

\* k executes: it is not P, or P is on a CPU and not inside another call.
Runs(k) == k = Self => Executing /\ ~exec

Goes(k, where) == pc' = [pc EXCEPT ![k] = where]

\* P's CPU is in the new mask: complete what no stop work will complete.
AffineStay(k) ==
  IF Completes
    THEN /\ migration_pending' = None
         /\ use' = [use EXCEPT ![k] = migration_pending]
         /\ Goes(k, "complete_return")
         /\ UNCHANGED <<pend, kick, cpu>>
    ELSE UNCHANGED <<migration_pending, pend, callVars, cpu>>

(* Faulty: a request joined keeps its old destination.                     *)
JoinedOldDest(own, dest) ==
  [pend[own] EXCEPT !.refs = @ + 1, !.dest = IF pend[own].refs = 0 THEN dest ELSE @]

Joined(own, dest) == [pend[own] EXCEPT !.refs = @ + 1, !.dest = dest]

\* It is not: install a request or join the installed one, then have the
\* stopper move P if P runs or wakes up, and move it here if it does not.
AffineMove(k, dest) ==
  LET own == IF migration_pending = None THEN k ELSE migration_pending
      req == Joined(own, dest)
      stop == OnCpu \/ run = "waking"
      finish == ~stop /\ ~Pinned /\ ~req.stop_pending
  IN /\ use' = [use EXCEPT ![k] = own]
     /\ pend' = [pend EXCEPT ![own] = [req EXCEPT !.stop_pending = @ \/ stop]]
     /\ migration_pending' = IF finish THEN None ELSE own
     /\ cpu' = IF run = "queued" /\ ~Pinned THEN dest ELSE cpu
     /\ kick' = IF stop THEN [kick EXCEPT ![k] = cpu] ELSE kick
     /\ Goes(k, IF stop /\ ~req.stop_pending THEN "kick"
                ELSE IF finish THEN "complete" ELSE "wait")

set_cpus_allowed_ptr(k, M) ==
  /\ Runs(k) /\ pc[k] = "idle"
  /\ M # cpus_mask
  /\ ~(k = Self /\ Pinned /\ cpu \notin M)
  /\ cpus_mask' = M
  /\ \E dest \in M \cap (IF Pinned THEN cpu_online ELSE cpu_active) :
       IF cpu \in M THEN AffineStay(k) ELSE AffineMove(k, dest)
  /\ UNCHANGED <<run, cpus_ptr, migration_disabled, mdf_push, enable, exec,
                 rqVars, stopVars, otherVars>>

\* The locks are released; the stop work is queued, or the waiters are woken.
Kick(k) ==
  /\ Runs(k) /\ pc[k] = "kick"
  /\ Stop(kick[k], MigrateWork(use[k]))
  /\ Goes(k, "wait") /\ kick' = [kick EXCEPT ![k] = None]
  /\ UNCHANGED <<pVars, migration_pending, rqVars, pend, use, stopper, otherVars>>

Complete(k) ==
  /\ Runs(k) /\ pc[k] \in {"complete", "complete_return"}
  /\ pend' = [pend EXCEPT ![use[k]].done = TRUE]
  /\ IF pc[k] = "complete"
       THEN Goes(k, "wait") /\ UNCHANGED use
       ELSE Goes(k, "idle") /\ use' = [use EXCEPT ![k] = None]
  /\ UNCHANGED <<pVars, migration_pending, rqVars, kick, stopVars, otherVars>>

\* wait_for_completion, then the reference is dropped; the one who waited for
\* a request of its own stays until all references are.
Wait(k) ==
  /\ Runs(k) /\ pc[k] = "wait" /\ pend[use[k]].done
  /\ pend' = [pend EXCEPT ![use[k]].refs = @ - 1]
  /\ Goes(k, "own") /\ use' = [use EXCEPT ![k] = None]
  /\ UNCHANGED <<pVars, migration_pending, rqVars, kick, stopVars, otherVars>>

(* Faulty: the owner does not wait for the others.                         *)
ReleasedAtOnce(k) == TRUE

Released(k) == pend[k].refs = 0

Own(k) ==
  /\ Runs(k) /\ pc[k] = "own" /\ Released(k)
  /\ Goes(k, "idle")
  /\ pend' = [pend EXCEPT ![k] = NoPending]
  /\ UNCHANGED <<pVars, migration_pending, rqVars, use, kick, stopVars, otherVars>>

-----------------------------------------------------------------------------
(* The stopper of CPU c                                                    *)

\* It preempts whatever runs; migration_cpu_stop first flushes the wake list.
StopperStart(c) ==
  /\ works[c] # <<>> /\ stopper[c] = Idle
  /\ ~(OnCpu /\ cpu = c)
  /\ stopper' = [stopper EXCEPT ![c] = Head(works[c])]
  /\ works' = [works EXCEPT ![c] = Tail(@)]
  /\ run' = IF Head(works[c]).fn = "migration_cpu_stop" /\ cpu = c /\ run = "waking"
              THEN "queued" ELSE run
  /\ UNCHANGED <<cpu, cpus_mask, cpus_ptr, migration_disabled, mdf_push, enable, exec,
                 migration_pending, rqVars, pend, callVars, otherVars>>

Ends(c) == stopper' = [stopper EXCEPT ![c] = Idle]
Then(c, what) == stopper' = [stopper EXCEPT ![c].fn = what]

\* Uninstall the request k; the waiters are woken after the locks.  Three ways
\* lead here with P left outside its mask: it is pinned on another CPU, it is
\* on the wake list, or the destination is no longer active.
Finish(c, k) ==
  /\ migration_pending' = None
  /\ pend' = [pend EXCEPT ![k].stop_pending = FALSE]
  /\ Then(c, "complete")
  /\ lapsed' = lapsed \cup
       (IF cpu # c /\ cpu \notin cpus_mask THEN {"pinned"} ELSE {}) \cup
       (IF cpu = c /\ cpu \notin cpus_mask /\ run = "waking" THEN {"waking"} ELSE {}) \cup
       (IF cpu = c /\ cpu \notin cpus_mask /\ pend[k].dest \notin cpu_active
          THEN {"not moved"} ELSE {})

MoveIfAllowed(dest) ==
  cpu' = IF run = "queued" /\ is_cpu_allowed(dest) THEN dest ELSE cpu

(* Faulty: stop_pending stays set.                                         *)
BailOutBusy(k) == UNCHANGED pend

Bails == Pinned

BailOut(k) == pend' = IF k = None THEN pend ELSE [pend EXCEPT ![k].stop_pending = FALSE]

MigrationHere(c, k) ==
  /\ cpu = c
  /\ IF Bails
       THEN /\ BailOut(k)
            /\ Ends(c) /\ UNCHANGED <<cpu, migration_pending, lapsed>>
       ELSE IF k = None
       THEN /\ MoveIfAllowed(stopper[c].dest)
            /\ Ends(c) /\ UNCHANGED <<pend, migration_pending, lapsed>>
       ELSE /\ IF cpu \in cpus_mask THEN UNCHANGED cpu ELSE MoveIfAllowed(pend[k].dest)
            /\ Finish(c, k)

MigrationElsewhere(c, k) ==
  /\ cpu # c
  /\ UNCHANGED cpu
  /\ IF k = None THEN Ends(c) /\ UNCHANGED <<pend, migration_pending, lapsed>>
     ELSE IF cpu \in Ptr THEN Finish(c, k)
     ELSE Then(c, "chase") /\ UNCHANGED <<pend, migration_pending, lapsed>>

\* The locked section; sched_exec() waits for the work to end.
migration_cpu_stop(c) ==
  /\ stopper[c].fn = "migration_cpu_stop"
  /\ MigrationHere(c, stopper[c].own) \/ MigrationElsewhere(c, stopper[c].own)
  /\ exec' = (exec /\ stopper[c].own # None)
  /\ UNCHANGED <<run, cpus_mask, cpus_ptr, migration_disabled, mdf_push, enable,
                 rqVars, callVars, works, hp, downs>>

\* ... and after it: complete_all, or the work is queued where P is now.
StopperComplete(c) ==
  /\ stopper[c].fn = "complete"
  /\ pend' = [pend EXCEPT ![stopper[c].own].done = TRUE]
  /\ Ends(c)
  /\ UNCHANGED <<pVars, migration_pending, rqVars, callVars, works, otherVars>>

StopperChase(c) ==
  /\ stopper[c].fn = "chase"
  /\ Stop(cpu, MigrateWork(stopper[c].own))
  /\ Ends(c)
  /\ UNCHANGED <<pVars, migration_pending, rqVars, pend, callVars, otherVars>>

\* sched_class->find_lock_rq, with rq->lock held: a CPU for a task that is still
\* queued, or none.
find_lock_rq == IF run = "queued" THEN cpus_mask \cap cpu_active ELSE {}

push_cpu_stop(c) ==
  /\ stopper[c].fn = "push_cpu_stop"
  /\ push_busy' = [push_busy EXCEPT ![c] = FALSE]
  /\ mdf_push' = IF cpu = c THEN Pinned ELSE mdf_push
  /\ cpu' \in {cpu} \cup IF cpu = c /\ ~Pinned THEN find_lock_rq ELSE {}
  /\ Ends(c)
  /\ UNCHANGED <<run, cpus_mask, cpus_ptr, migration_disabled, enable, exec,
                 migration_pending, nr_pinned, pend, callVars, works, otherVars>>

balance_push_cpu_stop(c) ==
  /\ stopper[c].fn = "balance_push"
  /\ IF cpu = c /\ run = "queued"
       THEN \E d \in CPU : Fallback(d) /\ cpu' = d
       ELSE UNCHANGED <<cpu, cpus_mask>>
  /\ Ends(c)
  /\ UNCHANGED <<run, cpus_ptr, migration_disabled, mdf_push, enable, exec,
                 migration_pending, rqVars, pend, callVars, works, otherVars>>

-----------------------------------------------------------------------------
(* CPU hotplug                                                             *)

Hotplug(c, from, to) == hp[c] = from /\ hp' = [hp EXCEPT ![c] = to]
NotHp == <<pVars, migration_pending, rqVars, pend, callVars, stopVars, lapsed>>

sched_cpu_deactivate(c) ==
  /\ Hotplug(c, "up", "inactive")
  /\ downs < MaxDown /\ downs' = downs + 1
  /\ cpu_active # {c}
  /\ UNCHANGED NotHp

\* the cpuset refuses: deactivation is rolled back
CpusetRefuses(c) == Hotplug(c, "inactive", "up") /\ UNCHANGED <<downs, NotHp>>

(* Faulty: a task that sleeps in its region is overlooked.                 *)
VacatedButPinned(c) == ~(cpu = c /\ run # "blocked")

\* Nothing but the hotplug thread is queued, and no task is pinned here.
Vacated(c) == VacatedButPinned(c) /\ nr_pinned[c] = 0

sched_cpu_wait_empty(c) ==
  /\ Hotplug(c, "inactive", "empty")
  /\ Vacated(c)
  /\ UNCHANGED <<downs, NotHp>>

sched_cpu_dying(c) ==
  /\ Hotplug(c, "empty", "dead")
  /\ works[c] = <<>> /\ stopper[c] = Idle
  /\ UNCHANGED <<downs, NotHp>>

sched_cpu_starting(c) == Hotplug(c, "dead", "starting") /\ UNCHANGED <<downs, NotHp>>
sched_cpu_activate(c) == Hotplug(c, "starting", "up") /\ UNCHANGED <<downs, NotHp>>

-----------------------------------------------------------------------------
Scheduling ==
  \/ Preempt \/ Block \/ Resume \/ TakeIpi \/ RtPush
  \/ \E c \in CPU : Wake(c) \/ Balance(c) \/ sched_exec(c)

EnableRest == EnablePush \/ EnableComplete \/ EnableKick \/ EnableClear
Migrate == migrate_disable \/ EnableFast \/ EnableSlow \/ EnableRest

Call(k) ==
  \/ \E M \in (SUBSET CPU) \ {{}} : set_cpus_allowed_ptr(k, M)
  \/ Kick(k) \/ Complete(k) \/ Wait(k) \/ Own(k)

Stopper(c) ==
  \/ StopperStart(c) \/ migration_cpu_stop(c) \/ StopperComplete(c) \/ StopperChase(c)
  \/ push_cpu_stop(c) \/ balance_push_cpu_stop(c)

HotplugStep(c) ==
  \/ sched_cpu_deactivate(c) \/ CpusetRefuses(c) \/ sched_cpu_wait_empty(c)
  \/ sched_cpu_dying(c) \/ sched_cpu_starting(c) \/ sched_cpu_activate(c)

Next ==
  \/ Scheduling \/ Migrate
  \/ \E k \in Caller : Call(k)
  \/ \E c \in CPU : Stopper(c) \/ HotplugStep(c)

Spec == Init /\ [][Next]_vars

(* Stoppers and interrupts run; a woken caller gets the CPU.  P gets it    *)
(* again and again although it may be preempted at any time, and what      *)
(* blocks it or pins it ends: its sleeps are woken, its regions are left.  *)
Fairness ==
  /\ \A c \in CPU : WF_vars(Stopper(c))
  /\ \A k \in Caller : SF_vars(Kick(k) \/ Complete(k) \/ Wait(k) \/ Own(k))
  /\ WF_vars(TakeIpi) /\ WF_vars(\E c \in CPU : Wake(c))
  /\ WF_vars(Preempt /\ works[cpu] # <<>>) /\ SF_vars(Resume)
  /\ SF_vars(EnableFast) /\ SF_vars(EnableSlow)
  /\ WF_vars(EnableRest)

FairSpec == Spec /\ Fairness
=============================================================================
