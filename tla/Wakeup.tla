------------------------------- MODULE Wakeup -------------------------------
(***************************************************************************)
(* Blocking, waking, forking and exiting tasks in kernel/core.c:           *)
(* __schedule(), finish_task_switch(), try_to_wake_up(), the wake lists    *)
(* that remote CPUs serve from an IPI, wake_up_new_task() and the moves of *)
(* queued tasks between runqueues.                                         *)
(*                                                                         *)
(* Every CPU executes one operation at a time, in the steps the other CPUs *)
(* can tell apart; all operations run with interrupts off, so a CPU takes  *)
(* an IPI only between them.  A section under a lock that touches nothing  *)
(* read outside the lock is one step.  Memory is sequentially consistent:  *)
(* the barriers of the code are taken to work.                             *)
(***************************************************************************)
EXTENDS Integers, FiniteSets

CONSTANTS
  CPU, Task,
  Idle,      \* stands for each CPU's idle task, which never blocks
  NoCpu,     \* owner of a free lock
  Allowed,   \* Allowed[t]: p->cpus_ptr
  Llc,       \* Llc[c]: sd_llc_id, the cache domain of CPU c
  Sleep,     \* Sleep[t]: the state task t blocks in
  IoTask,    \* tasks that block through io_schedule()
  Movable,   \* tasks the load balancer may move
  Mortal,    \* tasks that may exit
  Unborn,    \* tasks that are forked during the run
  TTWU_QUEUE,\* sched_feat(TTWU_QUEUE): wake lists are used
  Active,    \* cpu_active(): the CPUs that are not on their way up or down
  UnintMod   \* nr_uninterruptible is unsigned and wraps at UnintMod

Sleeping == {"INTERRUPTIBLE", "UNINTERRUPTIBLE"}
NotRunning == Sleeping \cup {"WAKING", "NEW", "DEAD"}   \* nonzero p->__state

ASSUME IdleAssumption == Idle \notin Task
ASSUME NoCpuAssumption == NoCpu \notin CPU
ASSUME AllowedAssumption == Allowed \in [Task -> SUBSET CPU]
ASSUME SleepAssumption == Sleep \in [Task -> Sleeping]
ASSUME UnintModAssumption == UnintMod \in Nat \ {0}
ASSUME TtwuQueueAssumption == TTWU_QUEUE \in BOOLEAN /\ Active \subseteq CPU
\* Task ids are far fewer than the values of an unsigned int.
ASSUME FiniteAssumption == IsFiniteSet(CPU) /\ IsFiniteSet(Task) /\ Cardinality(Task) < UnintMod

VARIABLES
  \* tasks
  state,     \* p->__state
  onRq,      \* p->on_rq: "off", "queued" or "migrating"
  onCpu,     \* p->on_cpu
  taskCpu,   \* task_cpu(p)
  contrib,   \* p->sched_contributes_to_load
  iowait,    \* p->in_iowait
  remote,    \* p->sched_remote_wakeup
  cond,      \* the CONDITION the task waits for
  signal,    \* TIF_SIGPENDING
  loc,       \* where the task is in its wait loop
  drops,     \* how often finish_task_switch() dropped the task's last reference
  piLock,    \* owner of p->pi_lock
  \* runqueues
  curr,      \* rq->curr
  queue,     \* tasks enqueued, the running one included
  nrRunning, \* rq->nr_running
  nrUnint,   \* rq->nr_uninterruptible
  nrIowait,  \* rq->nr_iowait
  wakeList,  \* the call-single queue of wakeups for this CPU
  pending,   \* rq->ttwu_pending
  rqLock,    \* owner of rq->lock
  \* what each CPU is doing
  pc,
  tgt,       \* the task it works on: prev, or p of a wakeup
  seen,      \* the task state it has read
  atCpu,     \* the CPU whose runqueue it works on
  mask,      \* states a wakeup may wake
  moved,     \* WF_MIGRATED
  batch      \* llist of sched_ttwu_pending()

flags == <<contrib, iowait, remote>>
user == <<cond, signal, loc>>
counts == <<nrRunning, nrUnint, nrIowait>>
locals == <<tgt, seen, atCpu, mask, moved, batch>>
vars == <<state, onRq, onCpu, taskCpu, flags, user, drops, piLock, curr, queue,
          counts, wakeList, pending, rqLock, pc, locals>>

Init ==
  /\ state = [t \in Task |-> IF t \in Unborn THEN "NEW" ELSE Sleep[t]]
  /\ onRq = [t \in Task |-> "off"]
  /\ onCpu = [t \in Task |-> FALSE]
  /\ taskCpu \in {f \in [Task -> CPU] : \A t \in Task : f[t] \in Allowed[t]}
  /\ contrib = [t \in Task |-> t \notin Unborn /\ Sleep[t] = "UNINTERRUPTIBLE"]
  /\ iowait = [t \in Task |-> t \in IoTask \ Unborn]
  /\ remote = [t \in Task |-> FALSE]
  /\ cond = [t \in Task |-> FALSE]
  /\ signal = [t \in Task |-> FALSE]
  /\ loc = [t \in Task |-> IF t \in Unborn THEN "work" ELSE "back"]
  /\ drops = [t \in Task |-> 0]
  /\ piLock = [t \in Task |-> NoCpu]
  /\ curr = [c \in CPU |-> Idle]
  /\ queue = [c \in CPU |-> {}]
  /\ nrRunning = [c \in CPU |-> 0]
  /\ nrUnint = [c \in CPU |-> Cardinality({t \in Task : contrib[t] /\ taskCpu[t] = c})]
  /\ nrIowait = [c \in CPU |-> Cardinality({t \in Task : iowait[t] /\ taskCpu[t] = c})]
  /\ wakeList = [c \in CPU |-> {}]
  /\ pending = [c \in CPU |-> FALSE]
  /\ rqLock = [c \in CPU |-> NoCpu]
  /\ pc = [c \in CPU |-> "run"]
  /\ tgt = [c \in CPU |-> Idle]
  /\ seen = [c \in CPU |-> "RUNNING"]
  /\ atCpu = [c \in CPU |-> c]
  /\ mask = [c \in CPU |-> {}]
  /\ moved = [c \in CPU |-> FALSE]
  /\ batch = [c \in CPU |-> {}]

-----------------------------------------------------------------------------
(* Helpers *)

Free(lock) == lock = NoCpu
Goto(c, label) == pc' = [pc EXCEPT ![c] = label]

\* The operation of CPU c is over and its locals are dead.
Return(c) ==
  /\ Goto(c, "run")
  /\ tgt' = [tgt EXCEPT ![c] = Idle]
  /\ seen' = [seen EXCEPT ![c] = "RUNNING"]
  /\ atCpu' = [atCpu EXCEPT ![c] = c]
  /\ mask' = [mask EXCEPT ![c] = {}]
  /\ moved' = [moved EXCEPT ![c] = FALSE]
  /\ UNCHANGED batch

\* activate_task and deactivate_task on runqueue r
Enqueue(t, r) ==
  /\ queue' = [queue EXCEPT ![r] = @ \cup {t}]
  /\ nrRunning' = [nrRunning EXCEPT ![r] = @ + 1]
  /\ onRq' = [onRq EXCEPT ![t] = "queued"]

Dequeue(t, r, to) ==
  /\ queue' = [queue EXCEPT ![r] = @ \ {t}]
  /\ nrRunning' = [nrRunning EXCEPT ![r] = @ - 1]
  /\ onRq' = [onRq EXCEPT ![t] = to]

(* Faulty: nr_uninterruptible is left to the old runqueue of a migration.  *)
WakeOnUncounted(t, r, migrated) ==
  /\ nrUnint' = [nrUnint EXCEPT ![r] =
                   IF ~migrated /\ contrib[t] THEN (@ - 1) % UnintMod ELSE @]
  /\ nrIowait' = [nrIowait EXCEPT ![r] = IF ~migrated /\ iowait[t] THEN @ - 1 ELSE @]
  /\ Enqueue(t, r)
  /\ state' = [state EXCEPT ![t] = "RUNNING"]

set_task_cpu(t, r) == [taskCpu EXCEPT ![t] = r]

(* ttwu_do_activate and ttwu_do_wakeup; a migrating wakeup has already     *)
(* given back the nr_iowait of the old runqueue.                           *)
WakeOn(t, r, migrated) ==
  /\ nrUnint' = [nrUnint EXCEPT ![r] = IF contrib[t] THEN (@ - 1) % UnintMod ELSE @]
  /\ nrIowait' = [nrIowait EXCEPT ![r] = IF ~migrated /\ iowait[t] THEN @ - 1 ELSE @]
  /\ Enqueue(t, r)
  /\ state' = [state EXCEPT ![t] = "RUNNING"]

\* ttwu_queue_wakelist, ttwu_queue_cond: CPU c leaves the activation of t to CPU r.
UseWakeList(c, t, r) ==
  /\ TTWU_QUEUE
  /\ r \in Active \cap Allowed[t]
  /\ Llc[c] # Llc[r] \/ (r # c /\ nrRunning[r] = 0)

\* __ttwu_queue_wakelist, up to the addition to the list
PutOnWakeList(c, t, r, migrated) ==
  /\ remote' = [remote EXCEPT ![t] = migrated]
  /\ pending' = [pending EXCEPT ![r] = TRUE]
  /\ atCpu' = [atCpu EXCEPT ![c] = r]
  /\ Goto(c, "w_list")

-----------------------------------------------------------------------------
(* The wait loop a blocking task runs:                                     *)
(*   set_current_state(S); if (CONDITION) break; schedule();  and again    *)

Running(c, t) == pc[c] = "run" /\ curr[c] = t

SetState(c, t) ==
  /\ Running(c, t) /\ loc[t] \in {"work", "back"}
  /\ state' = [state EXCEPT ![t] = Sleep[t]]
  /\ loc' = [loc EXCEPT ![t] = "check"]
  /\ iowait' = [iowait EXCEPT ![t] = FALSE]   \* io_schedule_finish
  /\ UNCHANGED <<onRq, onCpu, taskCpu, contrib, remote, cond, signal, drops,
                 piLock, curr, queue, counts, wakeList, pending, rqLock, pc, locals>>

Interrupted(t) == Sleep[t] = "INTERRUPTIBLE" /\ signal[t]

CheckCondition(c, t) ==
  /\ Running(c, t) /\ loc[t] = "check"
  /\ IF cond[t] \/ Interrupted(t)
       THEN /\ state' = [state EXCEPT ![t] = "RUNNING"]
            /\ loc' = [loc EXCEPT ![t] = "work"]
            /\ cond' = [cond EXCEPT ![t] = FALSE]
            /\ signal' = [signal EXCEPT ![t] = FALSE]
            /\ UNCHANGED iowait
       ELSE /\ loc' = [loc EXCEPT ![t] = "sched"]
            /\ iowait' = [iowait EXCEPT ![t] = t \in IoTask]  \* io_schedule_prepare
            /\ UNCHANGED <<state, cond, signal>>
  /\ UNCHANGED <<onRq, onCpu, taskCpu, contrib, remote, drops, piLock, curr,
                 queue, counts, wakeList, pending, rqLock, pc, locals>>

\* do_task_dead: set_special_state takes pi_lock around the store.
Exit(c, t) ==
  /\ Running(c, t) /\ loc[t] = "work" /\ t \in Mortal
  /\ Free(piLock[t])
  /\ state' = [state EXCEPT ![t] = "DEAD"]
  /\ loc' = [loc EXCEPT ![t] = "dead"]
  /\ UNCHANGED <<onRq, onCpu, taskCpu, flags, cond, signal, drops, piLock, curr,
                 queue, counts, wakeList, pending, rqLock, pc, locals>>

-----------------------------------------------------------------------------
(* __schedule() *)

\* Interrupts off.  `mask' tells a voluntary call from a preemption.
EnterSchedule(c, voluntary) ==
  /\ pc[c] = "run"
  /\ IF curr[c] = Idle
       THEN voluntary /\ queue[c] # {} /\ UNCHANGED loc
       ELSE IF voluntary
         THEN /\ loc[curr[c]] \in {"sched", "dead"}
              /\ loc' = [loc EXCEPT ![curr[c]] = IF @ = "sched" THEN "back" ELSE "gone"]
         ELSE loc[curr[c]] # "dead" /\ UNCHANGED loc
  /\ Goto(c, "s_lock")
  /\ tgt' = [tgt EXCEPT ![c] = curr[c]]
  /\ mask' = [mask EXCEPT ![c] = IF voluntary THEN NotRunning ELSE {}]
  /\ UNCHANGED <<state, onRq, onCpu, taskCpu, flags, cond, signal, drops, piLock,
                 curr, queue, counts, wakeList, pending, rqLock,
                 seen, atCpu, moved, batch>>

\* Take rq->lock, then load prev->__state once.
LockSchedule(c) ==
  /\ pc[c] = "s_lock" /\ Free(rqLock[c])
  /\ rqLock' = [rqLock EXCEPT ![c] = c]
  /\ seen' = [seen EXCEPT ![c] = IF tgt[c] = Idle THEN "RUNNING" ELSE state[tgt[c]]]
  /\ Goto(c, "s_block")
  /\ UNCHANGED <<state, onRq, onCpu, taskCpu, flags, user, drops, piLock, curr,
                 queue, counts, wakeList, pending, tgt, atCpu, mask, moved, batch>>

\* Block prev unless it was preempted, is runnable again or has a signal.
Block(c) ==
  LET t == tgt[c] IN
  /\ pc[c] = "s_block"
  /\ Goto(c, "s_switch")
  /\ IF seen[c] \notin mask[c]
       THEN UNCHANGED <<state, onRq, contrib, queue, counts>>
       ELSE IF seen[c] = "INTERRUPTIBLE" /\ signal[t]
         THEN /\ state' = [state EXCEPT ![t] = "RUNNING"]
              /\ UNCHANGED <<onRq, contrib, queue, counts>>
         ELSE /\ contrib' = [contrib EXCEPT ![t] = seen[c] = "UNINTERRUPTIBLE"]
              /\ nrUnint' = [nrUnint EXCEPT ![c] =
                               IF seen[c] = "UNINTERRUPTIBLE"
                                 THEN (@ + 1) % UnintMod ELSE @]
              /\ Dequeue(t, c, "off")
              /\ nrIowait' = [nrIowait EXCEPT ![c] = IF iowait[t] THEN @ + 1 ELSE @]
              /\ UNCHANGED state
  /\ UNCHANGED <<onCpu, taskCpu, iowait, remote, user, drops, piLock, curr,
                 wakeList, pending, rqLock, locals>>

\* pick_next_task, rq->curr = next, prepare_task, switch_to
Switch(c) ==
  /\ pc[c] = "s_switch"
  /\ \E next \in IF queue[c] = {} THEN {Idle} ELSE queue[c] :
       /\ curr' = [curr EXCEPT ![c] = next]
       /\ onCpu' = IF next = Idle THEN onCpu ELSE [onCpu EXCEPT ![next] = TRUE]
       /\ Goto(c, IF next = tgt[c] THEN "s_unlock" ELSE "s_finish")
  /\ seen' = [seen EXCEPT ![c] = "RUNNING"]
  /\ UNCHANGED <<state, onRq, taskCpu, flags, user, drops, piLock, queue, counts,
                 wakeList, pending, rqLock, tgt, atCpu, mask, moved, batch>>

\* finish_task_switch: load prev->__state ...
ReadPrevState(c) ==
  /\ pc[c] = "s_finish"
  /\ seen' = [seen EXCEPT ![c] = IF tgt[c] = Idle THEN "RUNNING" ELSE state[tgt[c]]]
  /\ Goto(c, "s_clear")
  /\ UNCHANGED <<state, onRq, onCpu, taskCpu, flags, user, drops, piLock, curr,
                 queue, counts, wakeList, pending, rqLock, tgt, atCpu, mask, moved, batch>>

\* ... then clear prev->on_cpu: from here on prev may run elsewhere.
FinishTask(c) ==
  /\ pc[c] = "s_clear"
  /\ onCpu' = IF tgt[c] = Idle THEN onCpu ELSE [onCpu EXCEPT ![tgt[c]] = FALSE]
  /\ Goto(c, "s_unlock")
  /\ UNCHANGED <<state, onRq, taskCpu, flags, user, drops, piLock, curr, queue,
                 counts, wakeList, pending, rqLock, locals>>

(* Faulty: prev->__state is read after on_cpu was cleared.                 *)
UnlockScheduleLate(c) ==
  /\ pc[c] = "s_unlock"
  /\ rqLock' = [rqLock EXCEPT ![c] = NoCpu]
  /\ drops' = IF tgt[c] # Idle /\ state[tgt[c]] = "DEAD"
              THEN [drops EXCEPT ![tgt[c]] = @ + 1]
              ELSE drops
  /\ Return(c)
  /\ UNCHANGED <<state, onRq, onCpu, taskCpu, flags, user, piLock, curr, queue,
                 counts, wakeList, pending>>

\* finish_lock_switch; drop the reference of a task that is gone
UnlockSchedule(c) ==
  /\ pc[c] = "s_unlock"
  /\ rqLock' = [rqLock EXCEPT ![c] = NoCpu]
  /\ drops' = IF seen[c] = "DEAD" THEN [drops EXCEPT ![tgt[c]] = @ + 1] ELSE drops
  /\ Return(c)
  /\ UNCHANGED <<state, onRq, onCpu, taskCpu, flags, user, piLock, curr, queue,
                 counts, wakeList, pending>>

-----------------------------------------------------------------------------
(* try_to_wake_up() *)

(* The waker makes CONDITION true, or sets TIF_SIGPENDING, and calls       *)
(* try_to_wake_up.  When p is the waker's own current task, no lock is     *)
(* taken: only the state is put back.                                      *)
StartWake(c, t, bySignal) ==
  /\ pc[c] = "run" /\ state[t] # "NEW"
  /\ bySignal => Sleep[t] = "INTERRUPTIBLE"
  /\ IF bySignal
       THEN signal' = [signal EXCEPT ![t] = TRUE] /\ UNCHANGED cond
       ELSE cond' = [cond EXCEPT ![t] = TRUE] /\ UNCHANGED signal
  /\ LET m == IF bySignal THEN {"INTERRUPTIBLE"} ELSE Sleeping IN
     IF curr[c] = t
       THEN /\ state' = [state EXCEPT ![t] = IF @ \in m THEN "RUNNING" ELSE @]
            /\ UNCHANGED <<pc, tgt, mask>>
       ELSE /\ Goto(c, "w_match")
            /\ tgt' = [tgt EXCEPT ![c] = t]
            /\ mask' = [mask EXCEPT ![c] = m]
            /\ UNCHANGED state
  /\ UNCHANGED <<onRq, onCpu, taskCpu, flags, loc, drops, piLock, curr, queue,
                 counts, wakeList, pending, rqLock, seen, atCpu, moved, batch>>

(* Faulty: the state is tested without pi_lock.                            *)
MatchUnlocked(c) ==
  LET t == tgt[c] IN
  /\ pc[c] = "w_match"
  /\ IF state[t] \in mask[c]
       THEN /\ piLock' = [piLock EXCEPT ![t] = c]
            /\ Goto(c, "w_on_rq")
            /\ UNCHANGED locals
       ELSE Return(c) /\ UNCHANGED piLock
  /\ UNCHANGED <<state, onRq, onCpu, taskCpu, flags, user, drops, curr, queue,
                 counts, wakeList, pending, rqLock>>

\* Take pi_lock, ttwu_state_match.
Match(c) ==
  LET t == tgt[c] IN
  /\ pc[c] = "w_match" /\ Free(piLock[t])
  /\ IF state[t] \in mask[c]
       THEN /\ piLock' = [piLock EXCEPT ![t] = c]
            /\ Goto(c, "w_on_rq")
            /\ UNCHANGED locals
       ELSE Return(c) /\ UNCHANGED piLock
  /\ UNCHANGED <<state, onRq, onCpu, taskCpu, flags, user, drops, curr, queue,
                 counts, wakeList, pending, rqLock>>

\* Load p->on_rq, after the state.
ReadOnRq(c) ==
  /\ pc[c] = "w_on_rq"
  /\ Goto(c, IF onRq[tgt[c]] = "off" THEN "w_waking" ELSE "w_task_rq")
  /\ UNCHANGED <<state, onRq, onCpu, taskCpu, flags, user, drops, piLock, curr,
                 queue, counts, wakeList, pending, rqLock, locals>>

\* __task_rq_lock: which runqueue?  It spins while p is migrating.
ReadTaskRq(c) ==
  /\ pc[c] = "w_task_rq" /\ onRq[tgt[c]] # "migrating"
  /\ atCpu' = [atCpu EXCEPT ![c] = taskCpu[tgt[c]]]
  /\ Goto(c, "w_runnable")
  /\ UNCHANGED <<state, onRq, onCpu, taskCpu, flags, user, drops, piLock, curr,
                 queue, counts, wakeList, pending, rqLock,
                 tgt, seen, mask, moved, batch>>

(* Faulty: a queued task is taken to need no wakeup.                       *)
WakeRunnableNoState(c) ==
  LET t == tgt[c] IN
  /\ pc[c] = "w_runnable" /\ Free(rqLock[atCpu[c]])
  /\ IF taskCpu[t] # atCpu[c] \/ onRq[t] = "migrating"
       THEN Goto(c, "w_task_rq") /\ UNCHANGED <<state, piLock, locals>>
       ELSE IF onRq[t] = "queued"
         THEN /\ UNCHANGED state
              /\ piLock' = [piLock EXCEPT ![t] = NoCpu]
              /\ Return(c)
         ELSE Goto(c, "w_waking") /\ UNCHANGED <<state, piLock, locals>>
  /\ UNCHANGED <<onRq, onCpu, taskCpu, flags, user, drops, curr, queue, counts,
                 wakeList, pending, rqLock>>

(* Faulty: a task that has blocked meanwhile is taken for a migrating one. *)
WakeRunnableSpinning(c) ==
  LET t == tgt[c] IN
  /\ pc[c] = "w_runnable" /\ Free(rqLock[atCpu[c]])
  /\ IF taskCpu[t] # atCpu[c] \/ onRq[t] # "queued"
       THEN Goto(c, "w_task_rq") /\ UNCHANGED <<state, piLock, locals>>
       ELSE IF onRq[t] = "queued"
         THEN /\ state' = [state EXCEPT ![t] = "RUNNING"]
              /\ piLock' = [piLock EXCEPT ![t] = NoCpu]
              /\ Return(c)
         ELSE Goto(c, "w_waking") /\ UNCHANGED <<state, piLock, locals>>
  /\ UNCHANGED <<onRq, onCpu, taskCpu, flags, user, drops, curr, queue, counts,
                 wakeList, pending, rqLock>>

(* With that runqueue locked: start over if p has left it; if p is queued  *)
(* (ttwu_runnable) its state is all there is to change.                    *)
WakeRunnable(c) ==
  LET t == tgt[c] IN
  /\ pc[c] = "w_runnable" /\ Free(rqLock[atCpu[c]])
  /\ IF taskCpu[t] # atCpu[c] \/ onRq[t] = "migrating"
       THEN Goto(c, "w_task_rq") /\ UNCHANGED <<state, piLock, locals>>
       ELSE IF onRq[t] = "queued"
         THEN /\ state' = [state EXCEPT ![t] = "RUNNING"]
              /\ piLock' = [piLock EXCEPT ![t] = NoCpu]
              /\ Return(c)
         ELSE Goto(c, "w_waking") /\ UNCHANGED <<state, piLock, locals>>
  /\ UNCHANGED <<onRq, onCpu, taskCpu, flags, user, drops, curr, queue, counts,
                 wakeList, pending, rqLock>>

SetWaking(c) ==
  /\ pc[c] = "w_waking"
  /\ state' = [state EXCEPT ![tgt[c]] = "WAKING"]
  /\ Goto(c, "w_on_cpu")
  /\ UNCHANGED <<onRq, onCpu, taskCpu, flags, user, drops, piLock, curr, queue,
                 counts, wakeList, pending, rqLock, locals>>

(* p still on a CPU: leave it to that CPU's wake list, or spin.            *)
ReadOnCpu(c) ==
  LET t == tgt[c]  r == taskCpu[t] IN
  /\ pc[c] = "w_on_cpu"
  /\ IF onCpu[t] /\ UseWakeList(c, t, r)
       THEN PutOnWakeList(c, t, r, FALSE)
       ELSE Goto(c, "w_select") /\ UNCHANGED <<remote, pending, atCpu>>
  /\ UNCHANGED <<state, onRq, onCpu, taskCpu, contrib, iowait, user, drops, piLock,
                 curr, queue, counts, wakeList, rqLock, tgt, seen, mask, moved, batch>>

(* Faulty: p is moved while its old CPU is still switching away from it.   *)
OffCpuUnchecked(t) == TRUE

\* smp_cond_load_acquire(&p->on_cpu, !VAL)
OffCpu(t) == ~onCpu[t]

\* Once p->on_cpu is clear, select_task_rq and, on another CPU, set_task_cpu.
SelectCpu(c) ==
  LET t == tgt[c] IN
  /\ pc[c] = "w_select" /\ OffCpu(t)
  /\ \E r \in Allowed[t] :
       /\ taskCpu' = set_task_cpu(t, r)
       /\ atCpu' = [atCpu EXCEPT ![c] = r]
       /\ moved' = [moved EXCEPT ![c] = r # taskCpu[t]]
       /\ nrIowait' = IF r # taskCpu[t] /\ iowait[t]
                        THEN [nrIowait EXCEPT ![taskCpu[t]] = @ - 1]
                        ELSE nrIowait
  /\ Goto(c, "w_queue")
  /\ UNCHANGED <<state, onRq, onCpu, flags, user, drops, piLock, curr, queue,
                 nrRunning, nrUnint, wakeList, pending, rqLock,
                 tgt, seen, mask, batch>>

\* ttwu_queue: wake list, or lock the runqueue and activate.
QueueWoken(c) ==
  LET t == tgt[c]  r == atCpu[c] IN
  /\ pc[c] = "w_queue"
  /\ IF UseWakeList(c, t, r)
       THEN /\ PutOnWakeList(c, t, r, moved[c])
            /\ UNCHANGED <<state, onRq, queue, counts, piLock, tgt, seen, mask, moved, batch>>
       ELSE /\ Free(rqLock[r])
            /\ WakeOn(t, r, moved[c])
            /\ piLock' = [piLock EXCEPT ![t] = NoCpu]
            /\ Return(c)
            /\ UNCHANGED <<remote, pending>>
  /\ UNCHANGED <<onCpu, taskCpu, contrib, iowait, user, drops, curr, wakeList, rqLock>>

\* __smp_call_single_queue: add p; the IPI it sends is TakeIpi.
AddToWakeList(c) ==
  LET t == tgt[c] IN
  /\ pc[c] = "w_list"
  /\ wakeList' = [wakeList EXCEPT ![atCpu[c]] = @ \cup {t}]
  /\ piLock' = [piLock EXCEPT ![t] = NoCpu]
  /\ Return(c)
  /\ UNCHANGED <<state, onRq, onCpu, taskCpu, flags, user, drops, curr, queue,
                 counts, pending, rqLock>>

-----------------------------------------------------------------------------
(* sched_ttwu_pending(), from the IPI *)

TakeIpi(c) ==
  /\ pc[c] = "run" /\ wakeList[c] # {}
  /\ batch' = [batch EXCEPT ![c] = wakeList[c]]
  /\ wakeList' = [wakeList EXCEPT ![c] = {}]
  /\ Goto(c, "i_lock")
  /\ UNCHANGED <<state, onRq, onCpu, taskCpu, flags, user, drops, piLock, curr,
                 queue, counts, pending, rqLock, tgt, seen, atCpu, mask, moved>>

(* Faulty: ttwu_pending is cleared before the tasks are enqueued.          *)
LockPendingClearing(c) ==
  /\ pc[c] = "i_lock" /\ Free(rqLock[c])
  /\ rqLock' = [rqLock EXCEPT ![c] = c]
  /\ pending' = [pending EXCEPT ![c] = FALSE]
  /\ Goto(c, "i_wake")
  /\ UNCHANGED <<state, onRq, onCpu, taskCpu, flags, user, drops, piLock, curr,
                 queue, counts, wakeList, locals>>

LockPending(c) ==
  /\ pc[c] = "i_lock" /\ Free(rqLock[c])
  /\ rqLock' = [rqLock EXCEPT ![c] = c]
  /\ Goto(c, "i_wake")
  /\ UNCHANGED <<state, onRq, onCpu, taskCpu, flags, user, drops, piLock, curr,
                 queue, counts, wakeList, pending, locals>>

\* One entry; a task still on a CPU is waited for (after a WARN).
WakePending(c) ==
  /\ pc[c] = "i_wake"
  /\ \E t \in batch[c] :
       /\ ~onCpu[t]
       /\ taskCpu' = set_task_cpu(t, c)
       /\ WakeOn(t, c, remote[t])
       /\ batch' = [batch EXCEPT ![c] = @ \ {t}]
  /\ UNCHANGED <<onCpu, flags, user, drops, piLock, curr, wakeList, pending,
                 rqLock, pc, tgt, seen, atCpu, mask, moved>>

FinishPending(c) ==
  /\ pc[c] = "i_wake" /\ batch[c] = {}
  /\ pending' = [pending EXCEPT ![c] = FALSE]
  /\ rqLock' = [rqLock EXCEPT ![c] = NoCpu]
  /\ Return(c)
  /\ UNCHANGED <<state, onRq, onCpu, taskCpu, flags, user, drops, piLock, curr,
                 queue, counts, wakeList>>

-----------------------------------------------------------------------------
(* wake_up_new_task(): state and CPU under pi_lock, then the runqueue *)

StartNew(c, t) ==
  /\ pc[c] = "run" /\ state[t] = "NEW" /\ Free(piLock[t])
  /\ piLock' = [piLock EXCEPT ![t] = c]
  /\ state' = [state EXCEPT ![t] = "RUNNING"]
  /\ \E r \in Allowed[t] :
       /\ taskCpu' = set_task_cpu(t, r)
       /\ atCpu' = [atCpu EXCEPT ![c] = r]
  /\ tgt' = [tgt EXCEPT ![c] = t]
  /\ Goto(c, "n_queue")
  /\ UNCHANGED <<onRq, onCpu, flags, user, drops, curr, queue, counts, wakeList,
                 pending, rqLock, seen, mask, moved, batch>>

QueueNew(c) ==
  LET t == tgt[c] IN
  /\ pc[c] = "n_queue" /\ Free(rqLock[atCpu[c]])
  /\ Enqueue(t, atCpu[c])
  /\ piLock' = [piLock EXCEPT ![t] = NoCpu]
  /\ Return(c)
  /\ UNCHANGED <<state, onCpu, taskCpu, flags, user, drops, curr, nrUnint,
                 nrIowait, wakeList, pending, rqLock>>

-----------------------------------------------------------------------------
(* Moving a queued task that is not running from runqueue r to CPU d, as   *)
(* in move_queued_task.  The callers of core.c hold pi_lock as well; the   *)
(* load balancer, which is not in this repository, holds only rq->lock.    *)
DetachQueued(c, t, d) ==
  LET r == taskCpu[t] IN
  /\ pc[c] = "run" /\ t \in Movable /\ d \in Allowed[t] \ {r}
  /\ Free(rqLock[r])
  /\ onRq[t] = "queued" /\ ~onCpu[t]
  /\ Dequeue(t, r, "migrating")
  /\ taskCpu' = set_task_cpu(t, d)
  /\ tgt' = [tgt EXCEPT ![c] = t]
  /\ atCpu' = [atCpu EXCEPT ![c] = d]
  /\ Goto(c, "m_attach")
  /\ UNCHANGED <<state, onCpu, flags, user, drops, piLock, curr, nrUnint, nrIowait,
                 wakeList, pending, rqLock, seen, mask, moved, batch>>

AttachQueued(c) ==
  /\ pc[c] = "m_attach" /\ Free(rqLock[atCpu[c]])
  /\ Enqueue(tgt[c], atCpu[c])
  /\ Return(c)
  /\ UNCHANGED <<state, onCpu, taskCpu, flags, user, drops, piLock, curr, nrUnint,
                 nrIowait, wakeList, pending, rqLock>>

-----------------------------------------------------------------------------
Schedule(c) ==
  LockSchedule(c) \/ Block(c) \/ Switch(c) \/ ReadPrevState(c) \/ FinishTask(c)
    \/ UnlockSchedule(c)
Wake(c) ==
  Match(c) \/ ReadOnRq(c) \/ ReadTaskRq(c) \/ WakeRunnable(c) \/ SetWaking(c)
    \/ ReadOnCpu(c) \/ SelectCpu(c) \/ QueueWoken(c) \/ AddToWakeList(c)
Pending(c) == LockPending(c) \/ WakePending(c) \/ FinishPending(c)

\* The steps that carry an operation begun by CPU c to its end.
Progress(c) == Schedule(c) \/ Wake(c) \/ Pending(c) \/ QueueNew(c) \/ AttachQueued(c)

Next ==
  \E c \in CPU :
    \/ Progress(c) \/ TakeIpi(c)
    \/ \E voluntary \in BOOLEAN : EnterSchedule(c, voluntary)
    \/ \E t \in Task :
         \/ SetState(c, t) \/ CheckCondition(c, t) \/ Exit(c, t) \/ StartNew(c, t)
         \/ \E bySignal \in BOOLEAN : StartWake(c, t, bySignal)
         \/ \E d \in CPU : DetachQueued(c, t, d)

Spec == Init /\ [][Next]_vars

(* Spin locks are queued, so an operation under way is not overtaken for   *)
(* ever (strong fairness), and an IPI that can be taken for ever is taken. *)
FairSpec ==
  Spec /\ \A c \in CPU : SF_vars(Progress(c)) /\ SF_vars(TakeIpi(c))
=============================================================================
