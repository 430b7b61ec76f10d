------------------------------ MODULE CoreSched ------------------------------
(***************************************************************************)
(* Core scheduling (CONFIG_SCHED_CORE of kernel/core.c) on the CPUs of one *)
(* core: the trees of tasks with a cookie, the selection that one CPU      *)
(* makes for all siblings and the others find later, cookie stealing, the  *)
(* switch, and the leader that keeps the common state under CPU hotplug.   *)
(*                                                                         *)
(* A section under the runqueue lock is one step: CoreLock is about these  *)
(* locks.  CPUs of other cores take part in that tasks leave and come.     *)
(***************************************************************************)
EXTENDS Integers, FiniteSets, FiniteSetsExt, Functions

CONSTANTS
  Cpu,     \* the CPUs of the core, numbers
  Task,    \* tasks other than the idle tasks
  Cookie,
  Hotplug, \* CPUs that may go down and come up again
  Idle,    \* the idle task of a CPU
  None     \* no cookie; no stored pick

ASSUME CpuAssumption == Cpu \subseteq Nat /\ Cpu # {} /\ IsFiniteSet(Cpu) /\ Hotplug \subseteq Cpu
ASSUME NameAssumption == Idle \notin Task /\ None \notin Task \cup {Idle} /\ None \notin Cookie

VARIABLES
  queue,    \* queue[c]: runnable tasks of c's runqueue, the running one included
  core_cookie, \* of a task
  core_tree, \* core_tree[c]: the tasks in the tree of c's runqueue
  curr, need_resched,
  balance,  \* CPUs in sched_core_balance(), the lock dropped
  core_enabled,
  \* the selection: what the leader keeps for the core ...
  core,     \* core[c]: the leader, rq(c)->core
  picked,   \* picked[l]: core_pick_seq = core_task_seq
  sync,     \* sync[l]: core_cookie of the core
  forceidle, \* forceidle[l]: core_forceidle_count # 0
  \* ... and each CPU for itself
  core_pick,
  unsched,  \* unsched[c]: core_sched_seq # core_pick_seq
  hp,       \* hp[c]: "up", "leaving" (deactivated), "dying", "dead"
  stale     \* history: enabled anew while an earlier selection was stored

taskVars == <<queue, core_cookie, core_tree>>
coreVars == <<core, picked, sync, forceidle>>
pickVars == <<core_pick, unsched>>
vars == <<taskVars, curr, need_resched, balance, core_enabled, coreVars, pickVars, hp, stale>>

Init ==
  /\ queue = [c \in Cpu |-> {}] /\ core_tree = [c \in Cpu |-> {}]
  /\ core_cookie = [t \in Task |-> None]
  /\ curr = [c \in Cpu |-> Idle] /\ need_resched = [c \in Cpu |-> FALSE]
  /\ balance = {} /\ core_enabled = FALSE
  /\ core = [c \in Cpu |-> Min(Cpu)]
  /\ picked = [c \in Cpu |-> TRUE]
  /\ sync = [c \in Cpu |-> None] /\ forceidle = [c \in Cpu |-> FALSE]
  /\ core_pick = [c \in Cpu |-> None] /\ unsched = [c \in Cpu |-> FALSE]
  /\ hp = [c \in Cpu |-> "up"] /\ stale = FALSE

\* cpu_smt_mask() of a CPU of the core
Smt == {c \in Cpu : hp[c] \in {"up", "leaving"}}

Runnable == UNION Range(queue)

-----------------------------------------------------------------------------
\* Enqueue, dequeue, cookies

\* sched_core_enqueue() and sched_core_dequeue(): the task sequence of the core
\* advances, ...
Advance(r) ==
  picked' = IF core_enabled THEN [picked EXCEPT ![core[r]] = FALSE] ELSE picked

\* ... and a task with a cookie enters the tree, a task in the tree leaves it.
Entered(tree, r, t) ==
  IF core_enabled /\ core_cookie[t] # None THEN [tree EXCEPT ![r] = @ \cup {t}] ELSE tree
Erased(tree, r, t) == IF core_enabled THEN [tree EXCEPT ![r] = @ \ {t}] ELSE tree

\* The last task leaves a CPU in forced idle.
LastLeaves(r, t) ==
  core_enabled /\ queue[r] = {t} /\ forceidle[core[r]] /\ curr[r] = Idle

\* A task is woken, forked or migrated to runqueue r.  Preemption needs no step
\* of its own: a CPU may call schedule() at any time.
activate_task(r, t) ==
  /\ hp[r] = "up" /\ t \notin Runnable
  /\ queue' = [queue EXCEPT ![r] = @ \cup {t}]
  /\ core_tree' = Entered(core_tree, r, t)
  /\ Advance(r)
  /\ need_resched' = [need_resched EXCEPT ![r] = @ \/ curr[r] = Idle]
  /\ UNCHANGED <<core_cookie, curr, balance, core_enabled, core, sync, forceidle, pickVars, hp, stale>>

\* A queued task is taken off runqueue r, to be queued elsewhere.
deactivate_task(r, t) ==
  /\ hp[r] \in {"up", "leaving"} /\ t \in queue[r] /\ curr[r] # t
  /\ queue' = [queue EXCEPT ![r] = @ \ {t}]
  /\ core_tree' = Erased(core_tree, r, t)
  /\ Advance(r)
  /\ need_resched' = [need_resched EXCEPT ![r] = @ \/ LastLeaves(r, t)]
  /\ UNCHANGED <<core_cookie, curr, balance, core_enabled, core, sync, forceidle, pickVars, hp, stale>>

\* sched_core_update_cookie() (core_sched.c, not in the repository); a cookie
\* exists while core scheduling is on (CoreLock).
sched_core_update_cookie(r, t, x) ==
  /\ core_enabled /\ hp[r] = "up" /\ (t \in queue[r] \/ t \notin Runnable)
  /\ core_cookie[t] # x
  /\ core_cookie' = [core_cookie EXCEPT ![t] = x]
  /\ core_tree' = [core_tree EXCEPT ![r] =
                     IF x # None /\ t \in queue[r] THEN @ \cup {t} ELSE @ \ {t}]
  /\ IF t \in core_tree[r] \/ (x # None /\ t \in queue[r]) THEN Advance(r) ELSE UNCHANGED picked
  /\ need_resched' = [need_resched EXCEPT ![r] = @ \/ curr[r] = t]
  /\ UNCHANGED <<queue, curr, balance, core_enabled, core, sync, forceidle, pickVars, hp, stale>>

-----------------------------------------------------------------------------
\* Selection

\* pick_task(): the scheduling classes decide; Idle if nothing is runnable.
pick_task(q) == IF q = {} THEN {Idle} ELSE q

CookieOf(p) == IF p = Idle THEN None ELSE core_cookie[p]

\* sched_core_find(): a task of the tree; the idle task matches any cookie.
sched_core_find(tree, x) ==
  LET matching == {t \in tree : core_cookie[t] = x}
  IN  IF matching = {} THEN {Idle} ELSE matching

\* What is selected for a CPU whose own pick is p, given the core's cookie.
Matching(p, tree, x) ==
  IF p = Idle \/ CookieOf(p) = x THEN {p}
  ELSE IF x = None THEN {Idle} ELSE sched_core_find(tree, x)

\* __pick_next_task()
PickAlone(c, q, n) ==
  /\ ~core_enabled
  /\ n \in pick_task(q)
  /\ need_resched' = [need_resched EXCEPT ![c] = FALSE]
  /\ UNCHANGED <<picked, sync, forceidle, pickVars>>

(* Faulty: what was selected for the CPU stays.                            *)
OfflinePickKept(c) == IF c \in Cpu THEN core_pick ELSE core_pick

\* The stopper of a CPU that is offline switches to the idle task.
OfflinePick(c) == [core_pick EXCEPT ![c] = None]

PickOffline(c, q, n) ==
  /\ core_enabled /\ hp[c] = "dying"
  /\ n \in pick_task(q)
  /\ core_pick' = OfflinePick(c)
  /\ need_resched' = [need_resched EXCEPT ![c] = FALSE]
  /\ UNCHANGED <<picked, sync, forceidle, unsched>>

\* Nothing was queued or dequeued since a sibling selected for this CPU.
Stored(c, valid) == valid /\ unsched[c] /\ core_pick[c] # None

PickStored(c, valid, n) ==
  /\ core_enabled /\ hp[c] # "dying" /\ Stored(c, valid)
  /\ n = core_pick[c]
  /\ core_pick' = [core_pick EXCEPT ![c] = None]
  /\ unsched' = [unsched EXCEPT ![c] = FALSE]
  /\ need_resched' = [need_resched EXCEPT ![c] = FALSE]
  /\ UNCHANGED <<picked, sync, forceidle>>

need_sync(c) == sync[core[c]] # None \/ forceidle[core[c]]

\* No cookies are involved: this CPU picks for itself.
PickUncookied(c, q, valid, n) ==
  /\ core_enabled /\ hp[c] # "dying" /\ ~Stored(c, valid) /\ ~need_sync(c)
  /\ n \in pick_task(q) /\ CookieOf(n) = None
  /\ picked' = [picked EXCEPT ![core[c]] = FALSE]
  /\ core_pick' = [core_pick EXCEPT ![c] = None]
  /\ need_resched' = [need_resched EXCEPT ![c] = FALSE]
  /\ UNCHANGED <<sync, forceidle, unsched>>

\* Every sibling picks, the best of the picks gives the cookie, every sibling
\* gets a task that matches it or is forced idle, and is told if that is not
\* what it runs.
PickCoreWide(c, q, tree, valid, n) ==
  /\ core_enabled /\ hp[c] # "dying" /\ ~Stored(c, valid)
  /\ LET at(i) == IF i = c THEN q ELSE queue[i] IN
     \E first \in [Smt -> UNION {pick_task(at(i)) : i \in Smt}] :
       /\ \A i \in Smt : first[i] \in pick_task(at(i))
       /\ need_sync(c) \/ CookieOf(first[c]) # None
       /\ \E max \in Range(first) :
          LET fits(i) == Matching(first[i], tree[i], CookieOf(max)) IN
          /\ max = Idle => Range(first) = {Idle}
          /\ n \in fits(c)
          /\ \E final \in [Smt -> UNION {fits(i) : i \in Smt}] :
            /\ \A i \in Smt : final[i] \in fits(i)
            /\ n = final[c]
            /\ sync' = [sync EXCEPT ![core[c]] = CookieOf(max)]
            /\ forceidle' = [forceidle EXCEPT ![core[c]] =
                               \E i \in Smt : final[i] = Idle /\ at(i) # {}]
            /\ LET told == {i \in Smt \ {c} : final[i] # curr[i]} IN
               /\ core_pick' = [i \in Cpu |-> IF i \in told THEN final[i]
                                              ELSE IF i \in Smt THEN None ELSE core_pick[i]]
               /\ need_resched' = [i \in Cpu |-> i # c /\ (need_resched[i] \/ i \in told)]
  /\ picked' = [picked EXCEPT ![core[c]] = TRUE]
  /\ unsched' = [i \in Cpu |-> IF i \in Smt THEN i # c ELSE unsched[i]]

\* queue_core_balance(): a CPU in forced idle looks for a task of the cookie.
queue_core_balance(c, q, n) ==
  core_enabled /\ forceidle'[core[c]] /\ n = Idle /\ sync'[core[c]] # None /\ q # {}

\* __schedule(); the running task may block.
__schedule(c) ==
  /\ hp[c] # "dead" /\ c \notin balance
  /\ \E gone \in SUBSET ({curr[c]} \cap queue[c]) :
       LET q == queue[c] \ gone
           tree == [core_tree EXCEPT ![c] = IF core_enabled THEN @ \ gone ELSE @]
           valid == picked[core[c]] /\ gone = {}
       IN  /\ queue' = [queue EXCEPT ![c] = q]
           /\ core_tree' = tree
           /\ \E n \in (q \cup {Idle, core_pick[c]}) \ {None} :
                /\ \/ PickAlone(c, q, n)
                   \/ PickOffline(c, q, n)
                   \/ PickStored(c, valid, n)
                   \/ PickUncookied(c, q, valid, n)
                   \/ PickCoreWide(c, q, tree, valid, n)
                /\ curr' = [curr EXCEPT ![c] = n]
                /\ balance' = IF queue_core_balance(c, q, n) THEN balance \cup {c} ELSE balance
  /\ hp' = [hp EXCEPT ![c] = IF @ = "dying" THEN "dead" ELSE @]
  /\ UNCHANGED <<core_cookie, core_enabled, core, stale>>

\* try_steal_cookie(): CPU c takes a task that matches the core's cookie from d,
\* unless it runs there or is about to.
try_steal_cookie(c, d, t) ==
  /\ c \in balance /\ d \in Smt \ {c} /\ hp[c] = "up"
  /\ sync[core[c]] # None /\ curr[c] = Idle
  /\ t \in core_tree[d] /\ core_cookie[t] = sync[core[c]]
  /\ t # core_pick[d] /\ t # curr[d]
  /\ queue' = [queue EXCEPT ![d] = @ \ {t}, ![c] = @ \cup {t}]
  /\ core_tree' = Entered(Erased(core_tree, d, t), c, t)
  /\ Advance(c)
  /\ need_resched' = [need_resched EXCEPT ![c] = TRUE, ![d] = @ \/ LastLeaves(d, t)]
  /\ balance' = balance \ {c}
  /\ UNCHANGED <<core_cookie, curr, core_enabled, core, sync, forceidle, pickVars, hp, stale>>

\* sched_core_balance() has found none, or need_resched() is set.
BalanceEnds(c) ==
  /\ c \in balance
  /\ balance' = balance \ {c}
  /\ UNCHANGED <<taskVars, curr, need_resched, core_enabled, coreVars, pickVars, hp, stale>>

-----------------------------------------------------------------------------
\* The switch and hotplug, both with the locks of all siblings

\* A selection that is stored and that pick_next_task() takes for valid.
OldPick(c) ==
  core_pick[c] # None /\ (c \notin Smt \/ (picked[core[c]] /\ unsched[c]))

\* __sched_core_flip(TRUE) for the first cookie, ...
Enable ==
  /\ ~core_enabled /\ \A c \in Cpu : hp[c] \in {"up", "dead"}
  /\ core_enabled' = TRUE
  /\ stale' = (stale \/ \E c \in Cpu : OldPick(c))
  /\ UNCHANGED <<taskVars, curr, need_resched, balance, coreVars, pickVars, hp>>

\* ... and __sched_core_flip(FALSE) some time after the last one.
Disable ==
  /\ core_enabled /\ \A c \in Cpu : hp[c] \in {"up", "dead"}
  /\ \A t \in Task : core_cookie[t] = None
  /\ core_enabled' = FALSE
  /\ UNCHANGED <<taskVars, curr, need_resched, balance, coreVars, pickVars, hp, stale>>

(* Faulty: the new leader starts with what it knew itself.                 *)
HandOverNothing(f, c, new) == IF c = new THEN [f EXCEPT ![new] = f[c]] ELSE f

\* sched_core_cpu_deactivate(): another sibling leads and is told what the
\* leader knows.
HandOver(f, c, new) == [f EXCEPT ![new] = f[c]]

sched_core_cpu_deactivate(c) ==
  /\ c \in Hotplug /\ hp[c] = "up" /\ Smt # {c} /\ \A d \in Cpu : hp[d] \in {"up", "dead"}
  /\ IF core[c] = c
       THEN LET new == Min(Smt \ {c}) IN
            /\ core' = [t \in Cpu |-> IF t \in Smt THEN new ELSE core[t]]
            /\ picked' = HandOver(picked, c, new)
            /\ sync' = HandOver(sync, c, new)
            /\ forceidle' = HandOver(forceidle, c, new)
       ELSE UNCHANGED coreVars
  /\ hp' = [hp EXCEPT ![c] = "leaving"]
  /\ UNCHANGED <<taskVars, curr, need_resched, balance, core_enabled, pickVars, stale>>

\* cpuset_cpu_inactive() refuses.
Refused(c) ==
  /\ hp[c] = "leaving"
  /\ hp' = [hp EXCEPT ![c] = "up"]
  /\ UNCHANGED <<taskVars, curr, need_resched, balance, core_enabled, coreVars, pickVars, stale>>

\* sched_core_cpu_dying(): the CPU is empty and all others are stopped.
sched_core_cpu_dying(c) ==
  /\ hp[c] = "leaving" /\ queue[c] = {} /\ curr[c] = Idle /\ balance = {}
  /\ hp' = [hp EXCEPT ![c] = "dying"]
  /\ core' = [core EXCEPT ![c] = c]
  /\ UNCHANGED <<taskVars, curr, need_resched, balance, core_enabled, picked, sync, forceidle,
                 pickVars, stale>>

\* sched_core_cpu_starting(): it joins its siblings' leader, whose sequence
\* numbers may or may not be what it remembers.
sched_core_cpu_starting(c) ==
  /\ hp[c] = "dead" /\ \A d \in Cpu : hp[d] \in {"up", "dead"}
  /\ hp' = [hp EXCEPT ![c] = "up"]
  /\ \E t \in Smt : core[t] = t /\ core' = [core EXCEPT ![c] = t]
  /\ \E differs \in BOOLEAN : unsched' = [unsched EXCEPT ![c] = differs]
  /\ UNCHANGED <<taskVars, curr, need_resched, balance, core_enabled, picked, sync, forceidle,
                 core_pick, stale>>

-----------------------------------------------------------------------------
Next ==
  \/ \E c \in Cpu, t \in Task :
       \/ activate_task(c, t) \/ deactivate_task(c, t)
       \/ \E x \in Cookie \cup {None} : sched_core_update_cookie(c, t, x)
       \/ \E d \in Cpu : try_steal_cookie(c, d, t)
  \/ \E c \in Cpu :
       \/ __schedule(c) \/ BalanceEnds(c)
       \/ sched_core_cpu_deactivate(c) \/ Refused(c)
       \/ sched_core_cpu_dying(c) \/ sched_core_cpu_starting(c)
  \/ Enable \/ Disable

Spec == Init /\ [][Next]_vars
=============================================================================
