# Verification of the assignment 1 and 2 kernel code

TLA+ models, TLC runs and TLAPS proofs of the code in this repository: the
`kernel/core.c` scheduler that assignment 1 instruments, the `hw1` module that
prints what it records, and the two `hw2` modules of assignment 2.

Contents: [inventory](#inventory), [plan](#plan), [the modules and the code](#the-modules-and-the-code),
[runs and bounds](#runs-and-bounds), [fairness](#fairness), [proofs](#proofs),
[where the code differs from what it says](#where-the-code-differs-from-what-it-says),
[what is not modelled](#what-is-not-modelled).

## Inventory

`code/` below is `Assignment1/code/`. `hw1_2017147581/` holds identical copies of
its kernel and module files, `assignment_1_patch` the same change as a patch.
`kernel/core.c` is the core of the Linux 6.2 scheduler with some twenty lines
added; the scheduling classes it calls (CFS, RT, deadline), the load balancer, the
timers and `seq_file` are not in the repository.

| Component | State | Operations | Interacts with |
|---|---|---|---|
| schedule() tracer: recorder in `__schedule()` (core.c 6480-6653), `struct hw1_schedule_info` (sched.h 315-332) | ring `hw1_recent_schedules`, `hw1_recent_schedules_index` | store cpu, prev, next; advance the index | all CPUs share ring and index, each under its own rq lock only |
| `/proc/hw1` (code/module/hw1.c) | loop variable, local index, seq_file buffer, module loaded or not | open, read (show, rerun on overflow), close, load, unload | reads ring and index without a lock; unload waits for readers |
| Blocking and waking (core.c 3687-4270, 4769-4815, 5139-5220, 6531-6700) | `__state`, `on_rq`, `on_cpu`, `cpu`, load flags of each task; `curr`, queue, counters, wake list of each runqueue; `pi_lock`, rq lock | `__schedule`, `finish_task_switch`, `try_to_wake_up`, `sched_ttwu_pending`, `wake_up_new_task`, `do_task_dead`, `move_queued_task` | CPUs wake each other's tasks, directly or by IPI |
| `hw2` of 2017147581 (task history) | ring `task_history`, `current_index`, `task_count`, timer, tasklet | timer callback, tasklet (walk, copy), open, show, load, unload | processes that are forked, exit and hold their `mmap_lock` |
| `hw2` of 2019147604 (page-table archive) | `arc`, `cur_reside`, `entries` of `/proc/hw2`, the globals `i` and `buf` | timer callback, tasklet (remove files, create files, fill), seq_file iterator, load, unload | tasklet, readers and rmmod all count with `i` |
| Affinity, migration, stopper (core.c 2204-3336, 3560-3620, 5495-5530) and CPU hotplug (9350-9775) | `cpus_mask`, `cpus_ptr`, `migration_disabled`, `migration_pending` of a task; `set_affinity_pending` on each caller's stack; `nr_pinned`, `push_busy` of each runqueue; the stop works; `cpu_active`, `cpu_online` | `set_cpus_allowed_ptr`, `migrate_disable`, `migrate_enable`, `migration_cpu_stop`, `push_cpu_stop`, `balance_push`, `sched_exec`, `sched_cpu_*` | callers wait for the stopper of another CPU; hotplug waits for pinned tasks; wakeups pick CPUs by the same masks |
| Utilisation clamping (core.c 1292-2030, 7642-7806, 10270-10710) | each task's `uclamp_req`, `uclamp`, policy; buckets, clamp values and idle flag of each runqueue; three sysctls and `uclamp_default`; `uclamp_req`, `uclamp` of each task group | enqueue, dequeue, class change, priority inheritance, `sched_setattr`, fork, cgroup moves and creation, writes to `cpu.uclamp.*` and to the sysctls | callers without a lock, task_rq_lock sections and holders of `uclamp_mutex` interleave |
| Deferred wakeups (core.c 933-1018) | `wake_q` lists | add, wake up | relies on `try_to_wake_up` |
| Scheduling parameters (core.c 7163-7641, 7834-8300) | priorities, nice values | `set_user_nice`, checks of `sched_setattr` | dequeue and requeue a task |
| Ticks (core.c 762-870, 5557-5735) | hrtick, remote tick state | start, stop, run | CPU isolation, hotplug |
| Preemption and resched (core.c 1026-1200, 6840-6960, 8520-8815) | `NEED_RESCHED`, polling, dynamic mode | `resched_curr`, preempt entry points | idle loop |
| Core scheduling (core.c 157-444, 539-607, 5951-6425) | the static key, the reference count, `core_enabled`; each runqueue's leader `core`; cookies and the trees of tasks that have one; the stored picks, `core_cookie`, the sequence numbers and the forced idle count of the leader | lock and unlock a runqueue or two, `sched_core_get`, `sched_core_put`, `__sched_core_flip`, enqueue, dequeue, `pick_next_task`, cookie stealing, `sched_core_cpu_*` | siblings share the leader's lock and state; hotplug changes the leader |
| Task groups, bandwidth files (core.c 10284-11020) | attributes | read, write | code outside the repository |

**What is hard about it.** Everything runs on several CPUs at once. The tracer and both
`hw2` modules share data between contexts without any lock. The wakeup path replaces
locks by ordered accesses to `__state`, `on_rq` and `on_cpu`. Readers may overlap
with unloading; seq_file may run `show` twice; timers, tasklets and rmmod race;
counters that are incremented on one CPU are decremented on another. A call that changes a
task's mask hands the work to a stopper on whatever CPU the task happens to be, keeps its
request on its own stack and may be joined by other callers, while the task pins
itself, sleeps, is woken elsewhere, or its CPU goes down. Clamps are checked before the
locks are taken, inherited through a tree that is walked group by group, and counted per
runqueue under a switch that is turned on while tasks run. Under core scheduling the lock of a
runqueue becomes another one while CPUs wait for it, and a CPU picks tasks for its siblings, who take
them later, when the tasks, the leader or the switch may have changed.

**What makes each component correct**

- Tracer: the ring holds the last N switches in order, each entry from one switch; the
  index never leaves the array; on each CPU the `next` of a switch is the `prev` of its
  following one; a show is not staler than the moment it began.
- Blocking and waking: no wakeup is lost; a task runs on one CPU at most and is queued once,
  where its `cpu` says; the load counters agree with the tasks; a dead task is released
  once; the WARNs and BUGs of the code do not fire; wakeups complete.
- Task history: the ring holds the last samples; the process recorded is the latest; unloading
  leaves nothing behind, waits for readers and returns; sampling goes on.
- Affinity: a caller of `set_cpus_allowed_ptr()` gets its answer; when it has it, the task is on an
  allowed CPU; a pinned task stays; a request on a stack is not used after its caller has
  returned; a CPU that goes down is empty.
- Clamping: the buckets count the runnable tasks; the runqueue shows the largest clamp; a task's
  request is what its user or its policy says; a group's effective clamps are those of its path;
  runnable tasks respect both once an update is over.
- Core scheduling: all CPUs agree on what runqueue has what lock, and nobody waits in a circle; a
  cookie finds core scheduling on; tasks of different cookies do not run side by side; a stored pick is
  queued where it is taken.
- Page-table archive: the files are those of the resident list; a page shows one sample; a
  read ends; unloading ends.

## Plan

1. Tracer, its abstract log, the refinement and the proofs. *Done:* `SchedTrace`,
   `SchedTraceProps`, `ScheduleLog`, `SchedTraceProofs`.
2. Blocking and waking, the path everything else in core.c leans on. *Modelled, checked, its
   safety properties proved:* `Wakeup`, `WakeupProps`, `WakeupProofs`.
3. The two modules of assignment 2. *Modelled, checked, their safety properties proved:*
   `TaskHistory`, `TaskHistoryProofs`, `PageArchive`, `PageArchiveProofs`.
4. Affinity, `migrate_disable`, the stopper and hotplug. *Modelled, checked, its safety properties
   proved:* `Affinity`, `AffinityProofs`.
5. Utilisation clamping with its cgroup tree, sysctls and system calls. *Modelled, checked, its
   properties proved:* `Uclamp`, `UclampProofs`.
6. Core scheduling, locks first, then the selection. *Modelled, checked, its properties proved:*
   `CoreLock`, `CoreLockProofs`, `CoreSched`, `CoreSchedProofs`.
7. *Open:* an abstract specification of `try_to_wake_up` (a task with a true condition
   becomes runnable, exactly once), refined by `Wakeup`; `wake_q` on top of it;
   `resched_curr` with the polling idle loop; the remote tick's state machine.

`Wakeup` comes before affinity because `set_cpus_allowed` and the stopper are written
against its `on_rq`/`on_cpu` protocol.

## The modules and the code

Each component has its model `X.tla`, its properties `XProps.tla` and `MCX.tla`
with the definitions TLC needs for an instance. Operators introduced by a comment "Faulty"
are wrong variants of the operator that follows; they are not part of the specification and serve
to see that a property notices the mistake.

### SchedTrace, ScheduleLog

Writer: `PickNext(c)` is `pick_next_task()` and the address of the slot, `StoreField` the
three groups of stores into it, `LoadIndex` and `StoreIndex` the halves of
`index = (index + 1) % 20`. The accesses are plain C, so the load may be folded with the
earlier one: `LoadIndex` takes the current index or the one the slot was
addressed with. Reader: `Open`, `StartShow`, `ReadIndex` (the index is read again for every
entry), `ReadField`, `FinishShow` (with seq_file's rerun in a buffer twice as
large), `Close`. Module: `ModuleInit`, `ModuleExit`, `ModuleExited`, the last of which is the
second half of `remove_proc_entry`: it waits for a running show and releases open files.

The calls of `__schedule()` are numbered and a ring field holds the number of
the call it was copied from; this keeps apart what the properties must tell
apart (which call, which field) and drops names and pids. `calls`, `done`, `raced` and `base`
are history variables.

`ScheduleLog` is the promise: a log of the last M switches, each appended in one
step; it has no run of its own, its chain is checked and proved through
`SchedTrace`, which implements it with M = N - 1 (the slot at the index may be half written) until two CPUs have been inside the recording code at once.

### Wakeup

A CPU runs one operation at a time, in the steps that other CPUs can tell apart. A
section under a lock that touches only what that lock protects is one step.

| Model | Code |
|---|---|
| `SetState`, `CheckCondition` | the wait loop: `set_current_state`, test, `schedule()`; with `io_schedule()` for `IoTask` |
| `EnterSchedule`, `LockSchedule`, `Block`, `Switch` | `__schedule()` |
| `ReadPrevState`, `FinishTask`, `UnlockSchedule` | `finish_task_switch()` |
| `StartWake`, `Match`, `ReadOnRq`, `ReadTaskRq`, `WakeRunnable`, `SetWaking`, `ReadOnCpu`, `SelectCpu`, `QueueWoken`, `AddToWakeList` | `try_to_wake_up()` |
| `TakeIpi`, `LockPending`, `WakePending`, `FinishPending` | `sched_ttwu_pending()` |
| `StartNew`, `QueueNew`, `Exit` | `wake_up_new_task()`, `do_task_dead()` |
| `DetachQueued`, `AttachQueued` | `move_queued_task()`, also as the load balancer does it |

Which queued task is picked and which allowed CPU a woken task goes to is left open, as the
scheduling classes decide it. Memory is sequentially consistent: the model
takes the barriers that the comments of core.c discuss to work and checks the protocol
on top of them. A sleeping task that starts out blocked has its flags as
`__schedule()` would have left them.

`Block` is lines 6588-6608 in one step, though the code stores several fields: the counters and flags
are read elsewhere only under the rq lock or after `on_rq = 0` has been seen; `try_to_wake_up()`, which
reads `__state` and `on_rq` under `pi_lock` alone, can see one read and one store of this section. A
`nr_iowait` that is given back comes later than the increment, because the waker either needs this rq lock
or waits for `on_cpu`, which is cleared afterwards.

`UseWakeList` is `ttwu_queue_wakelist()` with its tests: the scheduler feature `TTWU_QUEUE` and
the set `Active` of CPUs (`cpu_active()`) are constants, the domains of caches the function `Llc`. Without the feature
a waker always spins on `p->on_cpu` (core.c:4258).

### TaskHistory

`TimerFire`, `CallbackSchedule`, `CallbackRearm` are the timer; `TaskletStart`, `Visit`,
`WalkEnd` the walk of `find_latest_task`; `StoreArea` (lines 78-115), `StoreStack`
(118-136), `StoreIndex`, `StoreCount` are `add_task_to_history`; `ShowCond`, `ShowSlot`,
`ShowArea`, `ShowStack` are the loop of `proc_show`, with its loads of `task_count`
and `current_index` apart; `ModuleInit`, `RemoveEntry`, `EntryRemoved`, `DeleteTimer`,
`KillClaim`, `KillDone` are load and unload. A record has two halves, each holding the number of the
sample it was copied from. The two halves need not be of one sample: `StoreStack` writes the stack only if a
VMA contains `start_stack` (hw2.c:126), else the entry keeps the stack of the sample that used it before, or none;
`stacked` is the history of the samples that found theirs. `IsStackOf` says which stack an entry may then show: the last one found
for this entry, and none that is newer than the sample. `tasklet_schedule`, `tasklet_kill`, `timer_delete` and
`remove_proc_entry` are modelled from how they are used here: the SCHED bit and the
queue entry are two variables, `timer_delete` does not wait for a running callback,
`remove_proc_entry` does wait for a running show.

### PageArchive

The tasklet (`TaskletStart`, the removal loop, `TaskletReset`, `Visit`, `CreateEntry`,
`AddResident`, `FillHead`, `FillBody`, `TaskletEnd`), the reader (`SeqStart`, `BarLoad`,
`FirstBar`, `SecondBar`, `ShowHead`, `ShowBody`) and `hello_exit` (`ModuleExit`,
`KillClaim`, `KillDone`, `DeleteTimer`, the removal loop again, `RemoveDir`). The loop
`for (i = 0; ...; i++)` over the global `i` is written once, `Loop(a)`, for
tasklet and rmmod; `i++` is a load and a store. `buf` is a variable because tasklet and rmmod both
print names into it. The tasklet may run on a CPU of its own or on top of a
reader (`over`), which then stands still. Of the nine bars of a page two are kept. `FillHead` and `FillBody` are two
halves of a record; each may end in an oops, the first when the process has no memory left (hw2.c:317),
the second also when no VMA is found for an address (388-389), and what precedes the
oops in the code has been written then.
`cnt` starts at 1 here, so that 0 can stand for a record never filled.

A sleeping function called from a tasklet (`remove_proc_entry` waiting for
readers, `proc_create`) is modelled as waiting; that the kernel may refuse to sleep there is not.

### Affinity

One task `P` and everything that may move it. A section under `p->pi_lock` and the rq lock is
one step; what follows the unlock is a step of its own, because there the code is exposed:
queueing a work (`Kick`, `EnablePush`, `EnableKick`, `StopperChase`), waking the waiters (`Complete`,
`EnableComplete`, `StopperComplete`), waiting (`Wait`, `Own`) and clearing `migration_disabled`
(`EnableClear`).

| Model | Code |
|---|---|
| `set_cpus_allowed_ptr`, `AffineStay`, `AffineMove`, `Kick`, `Complete`, `Wait`, `Own` | `__set_cpus_allowed_ptr()`, `affine_move_task()` by a caller |
| `migrate_disable`, `EnableFast`, `EnableSlow` (`EnableStay`, `EnableMove`), `EnablePush`, `EnableComplete`, `EnableKick`, `EnableClear` | `migrate_disable()`, `migrate_enable()` and `affine_move_task()` with `SCA_MIGRATE_ENABLE` |
| `StopperStart`, `migration_cpu_stop`, `StopperComplete`, `StopperChase` | the stopper thread and `migration_cpu_stop()` |
| `push_cpu_stop`, `RtPush`, `balance_push_cpu_stop`, `sched_exec` | the other works and who queues them |
| `Wake`, `Fallback`, `TakeIpi`, `Balance`, `Preempt`, `Block`, `Resume` | wakeup with `select_fallback_rq()`, the balancer, `__schedule()` with `migrate_disable_switch()` |
| `sched_cpu_*`, `CpusetRefuses` | the hotplug callbacks in the order of the hotplug states |

A set_affinity_pending is a record in `pend`, named by the caller on whose stack it lies.
`push_cpu_stop` asks only whether the task is still on this runqueue; `find_lock_rq` stands for what the class's
function of that name, which is not in the repository, makes of it.
The stopper runs when it has work and preempts what runs on its CPU; a kernel with
`CONFIG_PREEMPTION` is assumed where `preempt_enable()` lets it in.

`lapsed` is a history variable. The code drops a request while the task is outside its mask in
four situations, named there: `"pinned"` (a late stop work takes the CPU the task is pinned on
for an allowed one), `"waking"` (the task is put on the wake list again after the flush),
`"not moved"` (the destination is no longer active) and `"not reset"` (no CPU of the mask is
online when the region ends). `AllowedOrPending` speaks of the executions in which none of them has
happened, `PinnedStays` and `DyingIsVacated` of those without `"not reset"` (`AlwaysReset`): after it
`cpus_ptr` names a CPU that the task is no longer tied to, and with two CPUs going down one after
the other a later region is counted on one CPU and left on another.

### Uclamp

`Enqueue` and `Dequeue` are `enqueue_task()` and `dequeue_task()` with the accounting of
`uclamp_rq_inc()` and `uclamp_rq_dec()` written out (`uclamp_rq_inc_id`, `uclamp_rq_dec_id`,
`uclamp_rq_max_value`); `rt_mutex_setprio` is a change of class without a change of request.
`SetAttrCheck` is `uclamp_validate()`, which reads the request without a lock and enables
clamping; the call it lets through waits in `setattr` until `SetAttr` applies it in the locked section of
`__sched_setscheduler()`. `SetPolicy` is a call without clamps. `Fork` and `uclamp_post_fork` are the
two halves of fork between which the child is visible. `uclamp_update_util_min_rt_default()` tests `rt_task(p)`
without a lock (core.c:1448) and takes the locks afterwards: the test is `uclamp_post_fork` or `SyncTest`, the
write `PostForkSync` or `SyncTask`, and anything may happen to the task in between. `GroupAlloc`, `GroupOnline`, `GroupUpdate` are
the creation of a cgroup, the last with `uclamp_mutex`; `cpu_uclamp_write` and the sysctl
handler (`SysctlWrite`: `proc_dointvec()` stores first; then `SysctlUndo`, `SysctlDefault` or
`SysctlRtDefault`) take it too, and `op` says what its holder does next: `WalkGroup` and
`WalkStore` are one group of `cpu_util_update_eff()` (its two clamps are two stores), `WalkTask` one task of
`uclamp_update_active_tasks()`, `SyncTest` and `SyncTask` one of `uclamp_sync_util_min_rt_default()`. `rt_mutex_setprio` boosts a
task to the realtime or the deadline class.

`Scale` is `SCHED_CAPACITY_SCALE`, `Width` what fits into the bit field `uclamp_se::value`; a
value is stored modulo `Width` after its bucket has been computed, as the code does. `astray`, `wrapped` and
`overtaken` are history: why a default request may differ from the default of the task's policy, whether a
request has been stored that does not fit the bit field, and which tasks were changed between a call's check and its
use. `astray` has four values: `"kept"` (a policy changed by a call that kept the request), `"unchecked"` (the sysctl was
read before it was checked), `"boosted"` (`rt_task()` asks the inherited priority) and `"raced"` (the task was made
fair between the test and the write). Each is something the code does.

### CoreLock, CoreSched

One core with its siblings. `CoreLock` models how locks are taken; `CoreSched` what is done under
them, where a section under the lock of the core is one step.

| CoreLock | Code |
|---|---|
| `raw_spin_rq_lock`, `Spin`, `Acquire`, `raw_spin_rq_unlock` | `raw_spin_rq_lock_nested()`: look up the lock, spin, look again; `raw_spin_rq_unlock()` |
| `raw_spin_rq_trylock` | `raw_spin_rq_trylock()` |
| `double_rq_lock`, `SecondLock` | `double_rq_lock()` and `rq_order_less()` |
| `sched_core_lock`, `sched_core_unlock` | all locks of a core, one after another |
| `sched_core_get`, `GetLocks`, `GetDone`, `EnableKey`, `synchronize_rcu`, `FlipStart`, `__sched_core_flip` | the first cookie turns the switch on |
| `sched_core_put`, `__sched_core_put`, `PutLocks`, `DisableKey` | the last reference is left to a work, which turns it off |
| `Deactivate`, `sched_core_cpu_*`, `Refused`, `Dead`, `Start` | the hotplug callbacks that change the leader |

`plain` says that a CPU has passed the test of the static key in `raw_spin_rq_lock_nested()`:
`synchronize_rcu()` waits for such CPUs, which have preemption off. A CPU may lock any runqueue, that of a dead or a
starting CPU included (a sleeping task may have run there last). `raw_spin_rq_trylock` takes a second runqueue if its lock is free, in any order, and never waits; its caller,
`_double_lock_balance()`, is not in the repository. The mutex is free when `step` is
`"none"`; otherwise `step` is what its holder does next.

In `CoreSched`, `activate_task`, `deactivate_task` are `enqueue_task()` and `dequeue_task()` with
`sched_core_enqueue()` and `sched_core_dequeue()`; `__schedule` is `__schedule()` with one of the ways
through `pick_next_task()`: `PickAlone` (switched off), `PickOffline`, `PickStored` (a pick that a sibling
made), `PickUncookied` and `PickCoreWide`. `try_steal_cookie` and `BalanceEnds` are the balance
callback, `Enable` and `Disable` the flip, `sched_core_cpu_*` the hotplug callbacks. The sequence numbers
are only compared, so two booleans stand for them: `picked` (pick equals task sequence) and `unsched` (the
CPU's own number differs). Which task is picked first and whose cookie wins is left open, as
`prio_less()` and the scheduling classes decide it. `stale` is a history variable: a selection was
stored while core scheduling was turned off and on again (see [below](#where-the-code-differs-from-what-it-says)).

`core_sched.c`, which gives tasks their cookies, `rq_lockp()` and `cpu_smt_mask()` are not in the
repository and are modelled from how core.c uses them.

## Runs and bounds

| Run | Question | Bounds, and why they are enough |
|---|---|---|
| `trace_two_cpus` | ring, chain and refinement while two CPUs record | 2 CPUs, 3 tasks, 3 slots, 4 calls: the ring wraps, and recorders overlap at every step |
| `trace_show` | what a reader sees, unload | 1 CPU, 3 slots, 5 calls, first buffer of 2 entries: one rerun, the ring wraps during a show |
| `wakeup_two_tasks` | lost wakeups, double runs, wake lists, death, `nr_uninterruptible`, `nr_iowait` | 2 CPUs that share a cache, 2 tasks that wait for I/O, one of them moved and exiting (a fork is in `wakeup_live`); unbounded behaviour: the state space is finite and complete; counters wrap modulo 4, more than the number of tasks (`FiniteAssumption`); symmetric in the CPUs |
| `wakeup_live` | wakeups complete | 2 CPUs that share a cache, 2 tasks, one forked, moved and run anywhere, the other tied to a CPU. A woken task whose old CPU has become empty goes to a wake list; if another task is queued there the waker spins on `p->on_cpu` (core.c:4258); the move makes it lock a runqueue that the task has left. If a waker spun for ever, or the other CPU waited for ever for a lock, the wakeup would not complete. Excepted are behaviours in which some waker finds its task moved again and again (`Chased`): `__task_rq_lock()` has no bound on its retries, and the CPU that is to take the IPI may be the one that retries |
| `task_history` | ring, quiet shows, the walk, unload at every moment | 2 processes, the one later in the list started first; 2 slots, 3 samples (the ring wraps, and an entry is used a second time with or without its stack), first buffer of 1 entry (one rerun), loads and unloads. A process takes its `mmap_lock` only where somebody wants it (`WriterMatters`); earlier it would disturb nothing |
| `page_archive_unload` | files against resident list, pages, unload; unloading ends | 1 process, 1 reader, bars of 1 (still a store of `i` by the reader between two of the loops), 2 runs, an oops in either half of a record |
| `affinity_live` | callers get their answer; a stop work is queued once; a pinned task stays | 2 CPUs, 2 callers of which one is the task itself, regions nested twice, `sched_exec`, realtime pushes; no hotplug |
| `affinity_hotplug` | requests, references and hotplug | 2 CPUs, 2 callers, regions nested twice, wake lists, a CPU goes down once and may come up again |
| `uclamp` | buckets, requests, effective clamps, bounds | 1 CPU, 2 tasks of which one may be forked, a path of 3 groups of which one is created, 2 calls by users, 2 by administrators (sysctl writes, group writes, moves, creations), scale 2, 2 buckets; one value of the realtime sysctl does not fit the bit field (`Width` 4) |
| `core_lock` | agreement on locks, no circle of waiting, cookies against the switch | 3 siblings, each locking any runqueue, so that a pair of locks excludes a third CPU; 2 of them are hotplugged, so that the leader changes while another one is down; 1 cookie, allocated and freed repeatedly: the count passes 1 in both directions |
| `core_sched` | cookies side by side, stored picks, trees | 2 siblings, 3 tasks, 1 cookie, the leader goes down and returns; symmetric in the tasks; what follows `stale` is not explored (`NotStale`) |
| `core_stale_pick` | stored picks over a flip; violated | 2 siblings, 2 tasks, no hotplug |

Two clamp values and two buckets are enough for a bucket that holds two different values, and scale 2
for a minimum strictly between none and full. Runqueues do not interact in `Uclamp` (each change is under
one rq lock and a task moves between them by leaving one and entering the other), so one is checked.
Three callers of `set_cpus_allowed_ptr()` would add only a second one who joins a request. In `CoreSched` no
cookie is a cookie of its own that matches only itself, so one cookie gives two kinds of tasks; the proofs are
for any number.

`TypeOK` of the tracer is a property of a run, because there the types are at stake (an unlocked
index into an array); the `TypeOK` of the other modules state the types for a reader and hold in
the same instances; all are proved, that of `Uclamp` as far as its proofs need it.

`MaxUser`, `MaxAdmin`, `MaxNest` and `MaxDown` bound calls, nested regions and hotplug;
`MaxCalls`, `MaxSamples` and `MaxRuns` bound how often the tracer records and the timers
fire; `FirstRoom` scales seq_file's page to the shorter output; `BarLen` stands for 80 and
`MAX_TASKS`, `N`, `MAX_RESIDE` for 5, 20, 1000. `UnintMod` stands for 2^32. `Wakeup`
needs no other bound. Deadlock is checked in the runs of `Wakeup` and in `core_lock`; the other
systems stop when their bound is reached, or after an oops.

In `PageArchive` the two properties about files and pages are conditional on history
variables, because the code does not keep them otherwise: `shared` (somebody used `i`
during a removal loop) and `refired` (the timer fired after `tasklet_kill`). The conditions
name exactly the race that breaks each property; without the first a file is left behind for
good, without the second a file is created under another process's name.

## Fairness

- `SchedTrace`: weak fairness of a CPU that is inside `__schedule()` (interrupts are off), of a
  reader inside show and of rmmod (runnable tasks). Nobody has to open, load or call.
- `Wakeup` (`wakeup_live`; with `WakeupSpin.cfg`, which is not a run, `OperationsEnd` says the same of every operation
  where wake lists are off): strong fairness of an operation under way, because the kernel's spin locks
  are queued and a CPU cannot be overtaken at one for ever, and of taking an IPI, which a CPU
  does whenever its interrupts are on. No task need block, no waker wake.
- `TaskHistory` (`SamplingGoesOn` and `UnloadCompletes`, which `TaskHistoryLive.cfg` checks and which are not
  among the runs): weak fairness of timer, callback, show and the release of `mmap_lock`;
  strong fairness of the tasklet (a reader of an rwsem queues behind the
  writer and is not overtaken) and of rmmod (`tasklet_kill` retries until the bit is free).
- `PageArchive`: the same, without the timer: only what was started must end.
- `Affinity`: weak fairness of stoppers, IPIs, wakeups and of `migrate_enable()` once begun; strong
  fairness of the callers (threads that get a CPU again and again), of the task being picked, and of
  leaving a migrate-disabled region, which the code requires ("must be short"): a task that
  stays pinned for ever blocks callers by design. A running task is preempted by a stopper with work.
- `Uclamp` has no liveness property: every loop is over a finite list. Nor have `CoreLock` and `CoreSched`:
  that nobody waits in a circle is the safety property `HoldersGoOn`.

## Proofs

All are for any number of CPUs, tasks and slots, and any bounds.

Of the tracer. Assumptions: the constants named in `SchedTrace` (`N` and `FirstRoom` positive, `MaxCalls` a number), and
that `None` is not a switch.

- `SchedTraceProofs!TypeCorrect`, `TypesHold`: `TypeOK`. Inductive invariant `TypeInv`: the
  types, that a recording CPU's call is in the history (else the task it switches to has no
  type) and that show inside an entry is inside its loop. The point is the index: no
  interleaving of the unlocked increments leaves the array.
- `SerialRing`, `RingHolds`: until two recorders overlap the ring is the last N
  calls. `RingHoldsLastCalls` speaks of idle states only and is not inductive; `SerialInv`
  adds that a single recorder works at the slot of the index with the next call's number, and
  describes the slot half way.
- `ShowBounded`, `ShowNotStale`: until an overlap a show prints nothing older than what stood at
  the same place when it began. `ShowInv` carries the bound over the slot being
  printed, which can only get newer.
- `QuietShowHolds`: `QuietShowIsLog`. `QuietInv` says that, while no call has begun since the present run of
  show did, the lines printed and the fields under way are those of the log. With `SerialInv`, no CPU is
  recording then, so what is read next stands in the ring as the log has it. A rerun in a larger
  buffer starts both anew.
- `ImplementsLog`: initial states map to initial states, each step
  to an append or a stutter, until an overlap.
- `LogChained` and `ChainHolds`: an append keeps any log chained (`AppendChains`); that gives the chain for the
  abstract log, and through the refinement for the ring.

Of blocking and waking, for any number of CPUs and tasks and every assignment of allowed CPUs and sleeping
states. Assumptions: `IdleAssumption`, `NoCpuAssumption` (names), `AllowedAssumption`, `SleepAssumption`
(types) and, for the counters, `UnintModAssumption` and `FiniteAssumption`: finitely many tasks, fewer than
the values of an `unsigned int`. All follow from `InvariantsHold`, an inductive invariant in two layers.

- `WakingInv` says for every program point of every CPU who owns what. `LockInv`: which locks a CPU holds.
  `PlaceInv`: a task is `on_cpu` exactly while it is current or being switched away from, and a runqueue
  holds the tasks whose `on_rq` and `task_cpu` say so. `StateInv` and `WakeInv`: a task that is not queued is
  blocked, or new, or in the hands of one waker, or on one wake list whose CPU `task_cpu` names; a batch
  being woken leaves the queue non-empty. `MoveInv`: a migrating task is one CPU's business. `LocInv`,
  `DropInv`: where a task is in its wait loop and exit. `HandledInv` is the heart of `NoLostWakeup`: a
  task that is going to sleep with its condition true has a waker that has not tested its state yet,
  or has tested it and found it asleep. `NoLostWakeup` itself speaks only of tasks off the runqueue and is
  not inductive: the wakeup that will matter starts while the task is still running.
- `CountInv` says what the counters count: `nr_iowait` the tasks that block for I/O less those for whom a
  migrating wakeup has given it back already (`Given`); the sum of `nr_uninterruptible` the blocked tasks,
  up to a multiple of the modulus. Cardinalities are finite-set lemmas of the library; for sums over the CPUs
  `SumsStep`, `SumChange` and `SumOfParts` are proved first, by an induction stated with sets of naturals
  (`NatInduct`), because the library's induction theorems cannot be instantiated.
- `PlacesHold`, `CurrentHolds`, `NoWakeupIsLost`, `DeadHolds`, `CountersHold` and the action property
  `PendingHolds` follow; `WakeupTypes` is `TypeOK`.

Of the task history of assignment 2, for any number of processes, slots and samples:

- `TaskHistoryProofs!HistoryTypes`, `RingIsRight`: `TypeOK` and `RingHoldsLastSamples`, from an invariant
  that says which sample each half of each slot holds while `add_task_to_history` is at work: the area that of
  the slot's last sample, the stack that of the last sample of this slot whose VMA was found
  (`IsStackOf`), which may be an earlier one or none.
- `QuietShowIsRight`: `QuietShowIsHistory`, with the same meaning of an entry. The invariant relates the lines printed so far to the ring, as
  long as no sample has come in between (`Undisturbed`), over every rerun of seq_file in a larger buffer.
- `RecordIsRight`: `RecordIsLatest`. While the list is walked, no process already passed that was there from
  the beginning started later than the latest so far.
- `UnloadIsRight`: `UnloadIsClean`, conditional like the property on no callback running at `timer_delete`.

Of the page-table archive, for any number of processes, readers and runs. Assumptions: `ProcsAssumption`,
`ReadersAssumption` (names), `ResideAssumption` (the processes fit into `cur_reside`). All follow from
`ArchiveHolds`, whose `ArchiveInv` is inductive:

- `EntriesStayResidents`: `EntriesAreResidents`. In the removal loop the files are among those of the list from
  the loop's own place on (`ToUnlink`); `LoopInv` says that `i` is the loop's own copy as long as `shared` does
  not say otherwise. In the walk, files and list differ by the process whose file has been
  made and whose number has not been stored (`Agrees`).
- `QuietPageHolds`: `QuietPageIsLastSample`. `ArcInv` says which halves of which records are of the run under way
  and that between runs every file, and the one rmmod has unlinked and waits for, shows the last.
- `UnloadStaysClean`: `UnloadIsClean`. `LifeInv` follows timer and tasklet through `hello_exit`, `FileInv` says
  that a reader has a file that is there or that a removal loop waits for.
- `ArchiveTypes` is `TypeOK`; `ListInv` has the reason why the list fits: it never has more members than the
  walk has passed.

Of affinity, for any number of CPUs, regions and CPUs going down. Assumptions: `NoneAssumption` (a name),
`BoundsAssumption` and, for the reference counts, `CallersAssumption` (finitely many callers). All follow from
`AffinityHolds`, whose `AffinityInv` is inductive:

- `StopInv` and `OneInv` are the life of a stop work. It is about to be queued by the caller or by
  `migrate_enable()`, or queued, or in the hands of a stopper, one of these on one CPU, and only while its
  request is installed with `stop_pending`. `StopWorkHasPending` says this of the last two alone and is
  not inductive: between the unlock and `stop_one_cpu_nowait()` the work is nowhere. `StopWorkIsExpected` and,
  with `PushInv` (`push_busy` stands for `push_work`, wherever it is, or for the one `migrate_enable()` is about to queue), `StopWorkIsOnce` follow.
- `LiveInv`, `EndInv` and `RefInv` are the life of a request: installed only while its owner waits for it;
  completed by one stopper, one caller or one `migrate_enable()` (`EndOnce`, `EnableEndsOnce`), which picks it under the lock
  and completes it after the unlock; its `refs` the number of callers who wait; left by its owner only when
  that number is zero. Hence `RequestsOutliveUse`.
- `MaskInv`: a task outside its mask has a request, and the destination of that is in the mask, which
  gives the next move of the stopper its place. `RequestIsInstalled` follows, conditional like the property on
  `lapsed`.
- `EnableInv` and `PinInv` say where a pinned task is: on the CPU `cpus_ptr` names, or still running where it
  called `migrate_disable()`; that CPU alone counts it in `nr_pinned`, and a CPU that has come through
  `balance_hotplug_wait()` neither runs nor queues it nor has it pinned there. `DyingCpusAreVacated` follows, and
  the action property `PinnedTaskStays`, whose proof goes through every action that writes `cpu`.
- `AffinityTypes` is `TypeOK`; `WorksOK` says what lies in a queue, which the steps of the stoppers need.

Of clamping:

- `UclampProofs!EffectiveStaysCurrent`: `EffectiveIsCurrent` for every tree of groups, all
  tasks, scales, arguments and bounds. It speaks of the moments when the mutex is free; the inductive
  `TreeInv` says what the pruned walk preserves in between: every child of a group left to visit is left
  to visit (`Closed`), and a group that is out of date is either the next on its path (`Fresh`, `Due`)
  or the one whose second clamp is about to be stored, whose children are all next (`StoreInv`). Assumptions:
  `GroupAssumption`, `AncestorsAssumption` (the tree is one), `OnlineAssumption`, `ScaleAssumption`,
  `InputAssumption`.
- `UserStaysOrdered`: `UserOrdered` for any number of tasks and calls in progress.
  `UserInv` adds that a call that has been checked and not overtaken still agrees with the request
  (`Checked`): only the kernel's own default may have changed, on which no
  comparison of two user clamps relies; and that user clamps are in range, so that storing them
  in the bit field does not change them.
- `AccountingIsRight`: `AccountingHolds`, whatever is written to the sysctls; `BucketAssumption` puts every value in
  a bucket. The counters, the idle flag and what happens when the last runnable task leaves are right in any case;
  the clamp shown covers the tasks until a request has been stored that does not fit the bit field (`wrapped`), after which it
  need not ("this should never happen", below). The invariant is stated for
  one runqueue and one clamp (counters, value, idle flag); `IncKeeps`, `DecKeeps` and `ReincKeeps` say
  what `uclamp_rq_inc_id()`, `uclamp_rq_dec_id()` and the two in a row do to it, and every action that enqueues, dequeues,
  moves or updates a task cites them.
- `DefaultsFollowPolicy`: `RequestFollowsPolicy`. The property speaks of moments at rest; `FollowInv` says
  of a task with a stale default who will still give it the present one: the sweep of the sysctl handler that has
  not come to it or has tested it and not yet written (`Awaits`), or its own fork, which has still to go through
  `uclamp_post_fork()`.
- `BoundsHold`: `BoundsRespected`. `LeastEverywhere` unrolls `EffectiveIsCurrent` along a path of any
  length, by an induction over the number of ancestors stated with a set of naturals; it
  needs paths to be finite, which `AncestorsAssumption` says. `DefaultInv` ties the system defaults to the root group and the
  sysctls; `GrantInv` and `BoundsInv` say that every counted task has what it is granted except those the
  holder of the mutex has still to update (`Exempt`).

Of core scheduling, for any number of siblings, tasks, cookies and hotplugged CPUs. Assumptions:
`CpuAssumption` (finitely many CPUs, which are numbers), `NameAssumption` (`None`, `All`, `Idle` are none of the
others) and, for the count, `CookieAssumption` (finitely many cookies).

- `CoreLockProofs!RqLockStaysHeld` and `CountStaysRight`, from the inductive `LockingInv`. `RqLockHeld`
  speaks of sections only; `LockInv` says for every program point which locks a CPU holds, as locks of
  runqueues by the present leader and switch. That neither changes under a section needs `SwitchInv` (after
  `synchronize_rcu()` no CPU is left that skipped the second look) and `LeaderInv` (the CPUs that are up
  have one leader, which is up). `CountInv` is the count with what a work under way owes.
- `NobodyWaitsInCircle` adds `OrderInv`: a CPU waits for a second lock only while core scheduling is off,
  and that lock is the higher one; all locks of the core are taken from the lowest on. Then the holder of
  the highest lock that is held waits for nobody, or all locks are one.
- `CoreSchedProofs!CookiesStayMatched` and `PicksAndTrees`, from the inductive `SelectionInv`.
  `CookiesMatch` compares what runs; `SyncInv` says why it holds later: while a pick is
  stored, it fits the core's cookie and so do all tasks that run and are not told to reschedule;
  while the core has no cookie and no forced idle CPU, none of these has a cookie. `PlaceInv` (a task is
  in one queue, the trees hold what is queued), `LeadInv` (one leader, from whom the siblings read the selection) and `RunInv` (what runs or is picked is
  queued, a CPU that comes up has no pick) carry it over dequeues, steals and hotplug.

Every safety property that a run checks is proved. Only model-checked: all liveness (fairness and ENABLED are
outside the prover's reach).

## Where the code differs from what it says

`core_stale_pick` is a run of its own:

- `PicksAreValid`: `pick_next_task()` takes a stored pick when there "were no {en,de}queues since we
  picked (IOW, the task pointers are all still valid)" (core.c:6017). `enqueue_task()` and `dequeue_task()`
  advance `core_task_seq` only while core scheduling is on (2069, 2075), and `__sched_core_flip()` leaves
  `core_pick` as it is. A CPU that has not taken its pick when core scheduling is turned off keeps it;
  the task blocks or moves; the next cookie turns core scheduling on, the numbers still agree, and the CPU
  runs a task that is not queued there. Between, the sibling must not have gone through
  `pick_next_task()` with core scheduling on. `core_sched` and the proofs are conditional on `stale`,
  which is exactly this.

The other statements below are defined in the property modules and have a configuration each
(`AffinityPendingWarn.cfg`, `SchedTraceAscending.cfg`, `SchedTraceReportedChain.cfg`, `WakeupIdleCpu.cfg`,
`TaskHistoryExit.cfg`, `AffinityPtr.cfg`, `UclampRace.cfg`, `UclampWarn.cfg`), with which TLC shows a trace; they are not among the runs.

- `PendingAtEnable`: the comment and the `WARN_ON_ONCE(!pending)` in `affine_move_task()` expect a
  request whenever a task leaves its region outside its mask. A stop work that arrives late, when the
  task is pinned on another CPU, completes the request because the test at core.c:2466 asks `cpus_ptr`,
  which names that CPU; `migrate_enable()` then finds no request and the task stays.
- `PtrPointsBack`: "Mustn't clear migration_disabled() until cpus_ptr points back" (core.c:2263). When
  every CPU of the mask went offline while the task was pinned, the reset fails, `migrate_enable()`
  ignores the error and goes on.
- `ShowAscending`: hw1.c:27-29 expects ascending order from starting at the shared index; the loop
  reads the index again in every iteration, so a switch in between puts a newer entry before
  older ones.
- `ReportedChain`: the report (line 118) takes the chain of switches per CPU as the sign that the
  tracer works; two CPUs that record at once overwrite each other's entry.
- `IdleCpuCorrect`: the comment in `sched_ttwu_pending()` says that `idle_cpu()` is always
  correct though `ttwu_pending` is cleared while another task is on the wake list; the woken
  task may have run and blocked again before the IPI for the other one is served.
- `ValidMemoryDescriptor`: `find_latest_task` checks that the process has a memory descriptor,
  and uses it after the RCU section, when the process may have exited.

Of `Uclamp`, described by history variables and by properties that no run states:

- `KnobAffectsRtOnly`: the knob for realtime tasks "only affects RT tasks" (core.c:1322). A realtime task
  passes `rt_task()` at 1448, `__sched_setscheduler()` makes it fair and resets its boost to 0, then the locks are
  taken at 1452 and `__uclamp_update_util_min_rt_default()`, which asks only for `user_defined`, gives it the realtime
  default (`"raced"`). `UclampRace.cfg` has one task, two calls, one write and no priority inheritance.
- `BucketNeverAboveRq`: "Defensive programming: this should never happen" (core.c:1622).
  `proc_dointvec()` stores any number before it is checked; a task made realtime meanwhile
  takes it, its bucket is computed from the number and the value cut off by `uclamp_se::value` (`wrapped`). The highest
  bucket then holds a low value, the runqueue shows that, and a bucket below is left with a higher one. `UclampWarn.cfg`
  needs three tasks and scale 4.
- `AllClampsBounded`: `uclamp_default` is said to bound all clamps (core.c:1329). Lowering the
  default minimum changes the root group's effective clamps; the walk updates the tasks of groups
  whose own clamps change, and runnable tasks of an unchanged child group keep their value until
  they are next enqueued.
- Two more ways in which the knob affects a fair task: one made realtime, then fair
  again by a call with another clamp, keeps the default (`"kept"`), and one boosted by
  priority inheritance may be given it (`"boosted"`). A sysctl value that is going to be rejected is visible
  meanwhile (`"unchecked"`).
- Two concurrent calls of `sched_setattr()`, each valid when checked, may together leave a minimum
  above the maximum (`overtaken`).

Of `Affinity`: the four ways in `lapsed`; and a CPU that goes down between the unlock and
`stop_one_cpu_nowait()` (core.c:2874) loses the work, so that the callers wait for ever. Liveness is
checked without hotplug for that reason.

No run is about one more: `proc_show` of the task history prints "from the oldest to the
latest" (hw2.c:186) but reads index and count for each entry while the tasklet changes them, as
the tracer does; `QuietShowIsHistory` says when the order can be relied on.

## What is not modelled

- Deferred wakeups, nice values and parameter checks, ticks, preemption points, `resched_curr`,
  `wait_task_inactive` and the bandwidth files: see [Inventory](#inventory). Most of
  their counterpart (idle loop, tick code, classes, architecture code) is not in the repository;
  the files parse and validate attributes.
- Of core scheduling: `prio_less()` and the accounting of forced idle time, whose outcomes are left open;
  the locks of several cores at once; how tasks get their cookies (`core_sched.c`).
- The two branches of the static key that enables clamping are patched in one step.
- In `Affinity`, a second task, and deadline tasks' admission control.
- Weak memory. `Wakeup` assumes the barriers work.
- A tasklet that interrupts the holder of the `mmap_lock` it then waits for (hw2.c:122): the model
  does not say on which CPU a lock is held.
- Page-table pointers stored in a record and followed by `proc_show` after the process is gone:
  addresses are abstracted.
- Process numbers beyond `arc[70000]`, and more user processes than `cur_reside` holds: the
  model assumes that they fit (`ResideAssumption`).
- `lseek` on the proc files, allocation failures, and the text that is printed.
