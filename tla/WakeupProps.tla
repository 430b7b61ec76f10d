----------------------------- MODULE WakeupProps ----------------------------
(* Correctness of blocking and waking. *)
EXTENDS Wakeup, FiniteSetsExt

(* Types; nr_running, unsigned in the code, never goes below zero.         *)
TypeOK ==
  /\ state \in [Task -> {"RUNNING"} \cup NotRunning]
  /\ onRq \in [Task -> {"off", "queued", "migrating"}]
  /\ onCpu \in [Task -> BOOLEAN]
  /\ taskCpu \in [Task -> CPU]
  /\ piLock \in [Task -> CPU \cup {NoCpu}]
  /\ curr \in [CPU -> Task \cup {Idle}]
  /\ queue \in [CPU -> SUBSET Task]
  /\ nrRunning \in [CPU -> Nat]
  /\ nrUnint \in [CPU -> 0 .. UnintMod - 1]
  /\ nrIowait \in [CPU -> Int]
  /\ rqLock \in [CPU -> CPU \cup {NoCpu}]
  /\ wakeList \in [CPU -> SUBSET Task]
  /\ tgt \in [CPU -> Task \cup {Idle}]
  /\ atCpu \in [CPU -> CPU]
  /\ batch \in [CPU -> SUBSET Task]

(* A task is current on at most one CPU; while a CPU runs it, the task is  *)
(* queued there, marked on_cpu, and its task_cpu says so.                  *)
CurrentIsOurs ==
  \A c \in CPU : curr[c] # Idle =>
    /\ onCpu[curr[c]]
    /\ taskCpu[curr[c]] = c
    /\ \A d \in CPU \ {c} : curr[d] # curr[c]

(* A task is queued on the runqueue its task_cpu names, there alone, and   *)
(* enqueued once: nr_running counts the tasks.                             *)
QueuesMatch ==
  /\ \A c \in CPU : queue[c] = {t \in Task : onRq[t] = "queued" /\ taskCpu[t] = c}
  /\ \A c \in CPU : nrRunning[c] = Cardinality(queue[c])

(* The WARNs of sched_ttwu_pending never fire: when the IPI is taken, the  *)
(* tasks of the batch have left their CPU, and this one is their own.      *)
NoPendingWarn ==
  \A c \in CPU : pc[c] \in {"i_lock", "i_wake"} =>
    \A t \in batch[c] : ~onCpu[t] /\ taskCpu[t] = c /\ state[t] = "WAKING"

(* Where a task is and where its task_cpu says it is are the same, queued  *)
(* or still on its way over a wake list.                                   *)
PlacesAgree == QueuesMatch /\ NoPendingWarn

InWakeup(c, t) ==
  tgt[c] = t /\ pc[c] \in {"w_match", "w_on_rq", "w_task_rq", "w_runnable", "w_waking",
                           "w_on_cpu", "w_select", "w_queue", "w_list"}

(* No lost wakeup: a task off the runqueues whose condition is true is in  *)
(* the hands of a wakeup under way or on a wake list.                      *)
NoLostWakeup ==
  \A t \in Task :
    cond[t] /\ onRq[t] = "off" /\ state[t] \in Sleeping \cup {"WAKING"} =>
      \E c \in CPU : InWakeup(c, t) \/ t \in wakeList[c] \cup batch[c]

(* do_task_dead does not return (its BUG()); finish_task_switch drops the  *)
(* last reference of the dead task once, and nothing runs, queues or wakes *)
(* it afterwards.                                                          *)
DeadStaysDead ==
  /\ \A c \in CPU : pc[c] = "run" /\ curr[c] # Idle => loc[curr[c]] # "gone"
  /\ \A t \in Task :
       /\ drops[t] <= 1
       /\ drops[t] = 1 => /\ state[t] = "DEAD" /\ onRq[t] = "off" /\ ~onCpu[t]
                          /\ \A c \in CPU : t \notin wakeList[c] \cup batch[c]

(* Summed over the CPUs, nr_uninterruptible is the number of tasks blocked *)
(* uninterruptibly, although each counter alone drifts and wraps: a task   *)
(* is counted in on one CPU and counted out on another.                    *)
UninterruptibleCount ==
  MapThenSumSet(LAMBDA c : nrUnint[c], CPU) % UnintMod =
    Cardinality({t \in Task : /\ onRq[t] = "off" /\ contrib[t]
                              /\ state[t] \in Sleeping \cup {"WAKING"}})

(* nr_iowait, which the waker decrements on the CPU the task blocked on or *)
(* on the one it is woken on, never goes negative, and with no wakeup half *)
(* way it is the number of tasks that wait for I/O on that CPU.            *)
IowaitCount ==
  \A c \in CPU :
    /\ nrIowait[c] >= 0
    /\ (\A t \in Task : state[t] # "WAKING") =>
         nrIowait[c] = Cardinality({t \in Task : /\ onRq[t] = "off" /\ iowait[t]
                                                 /\ taskCpu[t] = c})

(* The counters that the load average and the idle governor read agree     *)
(* with the tasks, on whatever CPUs they blocked and were woken.           *)
LoadCountersMatch == UninterruptibleCount /\ IowaitCount

(* idle_cpu() must not take a CPU for idle while the tasks of its wake     *)
(* list are activated: ttwu_pending is cleared only once nr_running counts *)
(* one of them.                                                            *)
PendingClearedWhenBusy ==
  [][\A c \in CPU : pending[c] /\ ~pending'[c] => nrRunning'[c] > 0]_vars

idle_cpu(c) == curr[c] = Idle /\ nrRunning[c] = 0 /\ ~pending[c]

(* The comment in sched_ttwu_pending: clearing ttwu_pending is fine even   *)
(* when another task is on the wake list, "idle_cpu() will always get      *)
(* correct result".                                                        *)
IdleCpuCorrect == \A c \in CPU : idle_cpu(c) => wakeList[c] = {}

(* __task_rq_lock has no bound on its retries: a waker that locks the      *)
(* runqueue of a task may find it moved again and again.                   *)
Chased(c) == pc[c] \in {"w_task_rq", "w_runnable"} /\ onRq[tgt[c]] = "migrating"

(* A blocked task whose condition is true gets back on a runqueue, through *)
(* a wake list or a waker that spins on p->on_cpu with pi_lock held, while *)
(* its old CPU switches and waits for locks; unless some waker, perhaps on *)
(* the CPU that has to take the IPI, chases another task for ever.         *)
WakeupCompletes ==
  \/ []<>(\E c \in CPU : Chased(c))
  \/ \A t \in Task : cond[t] /\ onRq[t] = "off" ~> onRq[t] = "queued" \/ state[t] = "DEAD"

(* Every operation that turned interrupts off, with its spins on p->on_cpu *)
(* and on locks, ends and turns them on, or chases a task that is moved.   *)
OperationsEnd ==
  \A c \in CPU : pc[c] # "run" ~> pc[c] = "run" \/ Chased(c)
=============================================================================
