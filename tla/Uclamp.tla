-------------------------------- MODULE Uclamp -------------------------------
(***************************************************************************)
(* Utilisation clamping (CONFIG_UCLAMP_TASK, CONFIG_UCLAMP_TASK_GROUP) of  *)
(* kernel/core.c: what every task requests, what it is granted when it is  *)
(* enqueued, the buckets each runqueue aggregates, the system defaults     *)
(* behind three sysctls and the hierarchy of cpu.uclamp.{min,max}.         *)
(*                                                                         *)
(* A section under task_rq_lock() is one step.  The holder of uclamp_mutex *)
(* updates the group tree and the tasks in many such sections, and         *)
(* sched_setattr() checks its arguments in a step before the one that uses *)
(* them, so all of these interleave.                                       *)
(***************************************************************************)
EXTENDS Integers, FiniteSets, FiniteSetsExt

CONSTANTS
  Task, Initial,    \* all tasks, and the sets of those that may exist at first
  CPU,
  Group, Root,      \* cpu cgroups
  Online, Home,     \* those that exist at first, and the tasks' places in them
  Parent, Ancestors, \* Parent[g] for every group but Root; the groups from g to Root
  Scale,            \* SCHED_CAPACITY_SCALE
  Buckets,          \* UCLAMP_BUCKETS
  Width,            \* 2^bits_per(SCHED_CAPACITY_SCALE), the range of uclamp_se::value
  Attrs,            \* arguments of sched_setattr(): policy and clamps
  Written,          \* Written[k]: what is written to sysctl k
  Limits,           \* what is written to cpu.uclamp.*
  Roof,             \* values of sched_reset_on_fork
  Boosts,           \* tasks that priority inheritance may boost
  MaxUser, MaxAdmin \* bounds on calls of and for tasks; on writes, groups, moves

Clamp == {"min", "max"}
Policy == {"fair", "rt", "dl"}
Boost == {"no", "rt", "dl"}
Knob == Clamp \cup {"rt"}

\* Arguments of sched_setattr(): -1 in util asks for the default, a clamp that
\* is not there is left alone.
Argument == [policy : Policy \cup {"keep"},
             util : UNION {[ids -> -1..Scale] : ids \in SUBSET Clamp}]

ASSUME ScaleAssumption == Scale \in Nat \ {0} /\ Width \in Nat /\ Width > Scale
ASSUME BucketAssumption == Buckets \in 1..Scale
ASSUME TaskAssumption == Initial \subseteq SUBSET Task /\ Boosts \subseteq Task
ASSUME GroupAssumption == Root \in Group /\ Parent \in [Group \ {Root} -> Group]
ASSUME AncestorsAssumption ==
  /\ Ancestors \in [Group -> SUBSET Group] /\ Ancestors[Root] = {Root}
  /\ \A g \in Group \ {Root} :
       Ancestors[g] = {g} \cup Ancestors[Parent[g]] /\ g \notin Ancestors[Parent[g]]
  /\ \A g, h \in Group : g \in Ancestors[h] /\ h \in Ancestors[g] => g = h
  /\ \A g \in Group : IsFiniteSet(Ancestors[g])
ASSUME OnlineAssumption ==
  /\ Root \in Online /\ Online \subseteq Group /\ Home \in [Task -> Online]
  /\ \A g \in Online \ {Root} : Parent[g] \in Online
ASSUME InputAssumption ==
  Attrs \subseteq Argument /\ Limits \subseteq 0..Scale /\ Written \in [Knob -> SUBSET Nat]
ASSUME BoundAssumption == MaxUser \in Nat /\ MaxAdmin \in Nat

VARIABLES
  \* tasks
  stage,              \* "none", "new" (visible, sched_post_fork to come), "sync"
                      \* (found realtime there, the default to be written), "live"
  policy, boosted,    \* p->policy; what p->prio inherits from a waiter
  uclamp_req,
  uclamp,             \* NotActive, or the clamps counted in a runqueue
  cpu, on_rq,
  css, group,         \* the task's cgroup; p->sched_task_group, which follows
  \* runqueues
  rq,
  \* system
  uclamp_default, sysctl, sched_uclamp_used,
  \* task groups
  tg,                 \* "none", "allocated", "parented", "online"
  tg_req, tg_eff,
  op,                 \* what the holder of uclamp_mutex is about to do
  setattr,            \* calls of sched_setattr() that have been validated
  \* history
  calls,
  astray,             \* why a default request may be another than the default
  wrapped,            \* a request was written that does not fit the bit field
  overtaken           \* tasks changed between a call's check and its use

taskVars == <<stage, policy, boosted, uclamp_req, cpu, on_rq, css, group>>
rqVars == <<uclamp, rq>>
sysVars == <<uclamp_default, sysctl>>
groupVars == <<tg, tg_req, tg_eff>>
histVars == <<astray, wrapped, overtaken>>
vars == <<taskVars, rqVars, sysVars, sched_uclamp_used, groupVars, op, setattr,
          calls, histVars>>

-----------------------------------------------------------------------------
(* Clamp values and buckets.                                               *)

Least(a, b) == IF a < b THEN a ELSE b
Most(a, b) == IF a > b THEN a ELSE b

\* DIV_ROUND_CLOSEST(SCHED_CAPACITY_SCALE, UCLAMP_BUCKETS)
UCLAMP_BUCKET_DELTA == (Scale + Buckets \div 2) \div Buckets
Bucket == 0..(Buckets - 1)
uclamp_bucket_id(v) == Least(v \div UCLAMP_BUCKET_DELTA, Buckets - 1)

uclamp_none(id) == IF id = "min" THEN 0 ELSE Scale

\* The value is stored in a bit field, the bucket computed before.
uclamp_se_set(v) == [value |-> v % Width, bucket |-> uclamp_bucket_id(v)]
Request(v, user) == [se |-> uclamp_se_set(v), user |-> user]
NoRequest == [id \in Clamp |-> Request(uclamp_none(id), FALSE)]
NotActive == <<>>

-----------------------------------------------------------------------------
(* Runqueues.  A bucket's value means nothing while no task is in it: then *)
(* it is 0 here.                                                           *)

init_uclamp_rq ==
  [idle |-> TRUE, value |-> [id \in Clamp |-> uclamp_none(id)],
   tasks |-> [id \in Clamp |-> [b \in Bucket |-> 0]],
   bucket |-> [id \in Clamp |-> [b \in Bucket |-> 0]]]

uclamp_rq_inc_id(q, id, se) ==
  LET b == se.bucket
      idle_reset == IF q.idle THEN se.value ELSE q.value[id]
      local == IF q.tasks[id][b] = 0 THEN se.value ELSE Most(q.bucket[id][b], se.value)
  IN [q EXCEPT !.tasks[id][b] = @ + 1, !.bucket[id][b] = local,
               !.value[id] = Most(idle_reset, se.value)]

\* The topmost bucket with tasks, or the value kept while idle.
uclamp_rq_max_value(q, id, v) ==
  LET used == {b \in Bucket : q.tasks[id][b] > 0}
  IN IF used # {} THEN [q EXCEPT !.value[id] = q.bucket[id][Max(used)]]
     ELSE IF id = "max" THEN [q EXCEPT !.value[id] = v, !.idle = TRUE]
     ELSE [q EXCEPT !.value[id] = uclamp_none("min")]

uclamp_rq_dec_id(q, id, se) ==
  LET b == se.bucket
      last == q.tasks[id][b] <= 1
      left == [q EXCEPT !.tasks[id][b] = IF last THEN 0 ELSE @ - 1,
                        !.bucket[id][b] = IF last THEN 0 ELSE @]
  IN IF last /\ q.bucket[id][b] >= q.value[id]
       THEN uclamp_rq_max_value(left, id, se.value) ELSE left

\* SCHED_WARN_ON() in uclamp_rq_dec_id
Warns(q, id, se) ==
  \/ q.tasks[id][se.bucket] = 0
  \/ q.tasks[id][se.bucket] = 1 /\ q.bucket[id][se.bucket] > q.value[id]

uclamp_rq_inc(q, u) ==
  [uclamp_rq_inc_id(uclamp_rq_inc_id(q, "min", u["min"]), "max", u["max"])
     EXCEPT !.idle = FALSE]

uclamp_rq_dec(q, u) ==
  uclamp_rq_dec_id(uclamp_rq_dec_id(q, "min", u["min"]), "max", u["max"])

(* Faulty: an update of the only task leaves the runqueue marked idle.     *)
ReincKeepsIdle(q, old, new) ==
  LET reinc(r, id) == uclamp_rq_inc_id(uclamp_rq_dec_id(r, id, old[id]), id, new[id])
  IN reinc(reinc(q, "min"), "max")

\* min before max, each out and in; the idle flag is cleared after max
uclamp_rq_reinc(q, old, new) ==
  LET reinc(r, id) == uclamp_rq_inc_id(uclamp_rq_dec_id(r, id, old[id]), id, new[id])
  IN [reinc(reinc(q, "min"), "max") EXCEPT !.idle = FALSE]

-----------------------------------------------------------------------------
(* What a task is granted.                                                 *)

uclamp_tg_restrict(se, g) ==
  IF g = Root THEN se
  ELSE uclamp_se_set(Least(Most(se.value, tg_eff[g]["min"]), tg_eff[g]["max"]))

uclamp_eff_get(r, g) ==
  [id \in Clamp |-> LET se == uclamp_tg_restrict(r[id].se, g)
                    IN IF se.value > uclamp_default[id].value
                         THEN uclamp_default[id] ELSE se]

\* The class of p->prio; rt_task() holds of every priority above fair.
class(pol, boost) == IF "dl" \in {pol, boost} THEN "dl"
                     ELSE IF "rt" \in {pol, boost} THEN "rt" ELSE "fair"
rt_task(pol, boost) == class(pol, boost) # "fair"
uclamp_enabled(cls) == cls # "dl"

\* A runqueue and the clamps a task is counted with in it: without the task ...
dequeue_task(t) ==
  IF sched_uclamp_used /\ uclamp_enabled(class(policy[t], boosted[t]))
       /\ uclamp[t] # NotActive
    THEN [q |-> uclamp_rq_dec(rq[cpu[t]], uclamp[t]), u |-> NotActive]
    ELSE [q |-> rq[cpu[t]], u |-> uclamp[t]]

\* ... and with a task that requests r in group g.
enqueue_task(x, r, g, cls) ==
  IF sched_uclamp_used /\ uclamp_enabled(cls)
    THEN LET u == uclamp_eff_get(r, g) IN [q |-> uclamp_rq_inc(x.q, u), u |-> u]
    ELSE x

Put(t, c, x) ==
  /\ rq' = [rq EXCEPT ![c] = x.q]
  /\ uclamp' = [uclamp EXCEPT ![t] = x.u]

\* dequeue, change, enqueue of __sched_setscheduler, rt_mutex_setprio, sched_move_task
Requeue(t, r, g, cls) ==
  IF on_rq[t] THEN Put(t, cpu[t], enqueue_task(dequeue_task(t), r, g, cls))
  ELSE UNCHANGED rqVars

-----------------------------------------------------------------------------
Idle == [kind |-> "idle", knob |-> "min", val |-> 0, rest |-> {}, at |-> Root,
         todo |-> {}, on |-> {}]

Visible == {t \in Task : stage[t] # "none"}

Init ==
  /\ \E some \in Initial : stage = [t \in Task |-> IF t \in some THEN "live" ELSE "none"]
  /\ policy = [t \in Task |-> "fair"] /\ boosted = [t \in Task |-> "no"]
  /\ uclamp_req = [t \in Task |-> NoRequest]
  /\ uclamp = [t \in Task |-> NotActive]
  /\ cpu \in [Task -> CPU]
  /\ on_rq = [t \in Task |-> FALSE]
  /\ css = Home /\ group = Home
  /\ rq = [c \in CPU |-> init_uclamp_rq]
  /\ uclamp_default = [id \in Clamp |-> uclamp_se_set(Scale)]
  /\ sysctl = [k \in Knob |-> Scale]
  /\ sched_uclamp_used = FALSE
  /\ tg = [g \in Group |-> IF g \in Online THEN "online" ELSE "none"]
  /\ tg_req = [g \in Group |-> IF g = Root THEN [id \in Clamp |-> Scale]
                               ELSE [id \in Clamp |-> uclamp_none(id)]]
  /\ tg_eff = tg_req
  /\ op = Idle /\ setattr = {}
  /\ calls = [user |-> 0, admin |-> 0]
  /\ astray = [t \in Task |-> {}] /\ wrapped = FALSE /\ overtaken = {}

UserCall == calls.user < MaxUser /\ calls' = [calls EXCEPT !.user = @ + 1]
AdminCall == calls.admin < MaxAdmin /\ calls' = [calls EXCEPT !.admin = @ + 1]

-----------------------------------------------------------------------------
(* Tasks become runnable, block and change CPU.                            *)

Enqueue(t, c) ==
  /\ stage[t] = "live" /\ ~on_rq[t]
  /\ on_rq' = [on_rq EXCEPT ![t] = TRUE]
  /\ cpu' = [cpu EXCEPT ![t] = c]
  /\ Put(t, c, enqueue_task([q |-> rq[c], u |-> uclamp[t]], uclamp_req[t], group[t],
                            class(policy[t], boosted[t])))
  /\ UNCHANGED <<stage, policy, boosted, uclamp_req, css, group, sysVars,
                 sched_uclamp_used, groupVars, op, setattr, calls, histVars>>

Dequeue(t) ==
  /\ on_rq[t]
  /\ on_rq' = [on_rq EXCEPT ![t] = FALSE]
  /\ Put(t, cpu[t], dequeue_task(t))
  /\ UNCHANGED <<stage, policy, boosted, uclamp_req, cpu, css, group, sysVars,
                 sched_uclamp_used, groupVars, op, setattr, calls, histVars>>

\* Priority inheritance: the class changes, the request does not.
rt_mutex_setprio(t) ==
  /\ t \in Boosts /\ stage[t] = "live" /\ UserCall
  /\ \E b \in Boost \ {boosted[t]} :
       /\ boosted' = [boosted EXCEPT ![t] = b]
       /\ Requeue(t, uclamp_req[t], group[t], class(policy[t], b))
  /\ UNCHANGED <<stage, policy, uclamp_req, cpu, on_rq, css, group, sysVars,
                 sched_uclamp_used, groupVars, op, setattr, histVars>>

-----------------------------------------------------------------------------
(* The default request.                                                    *)

\* A sysctl that is written but not checked yet
Unchecked == op.kind = "check" /\ op.knob = "rt"

\* The default for realtime tasks has been written to the request of t.
TakesKnob(t, pol, boost) ==
  /\ astray' = [astray EXCEPT ![t] =
       IF pol # "fair" THEN IF Unchecked THEN {"unchecked"} ELSE {}
       ELSE IF boost # "no" THEN {"boosted"} ELSE {"raced"}]
  /\ wrapped' = (wrapped \/ sysctl["rt"] >= Width)

\* Under the locks; that t is realtime was seen before they were taken.
__uclamp_update_util_min_rt_default(t) ==
  IF uclamp_req[t]["min"].user THEN UNCHANGED <<uclamp_req, astray, wrapped>>
  ELSE /\ uclamp_req' = [uclamp_req EXCEPT ![t]["min"] = Request(sysctl["rt"], FALSE)]
       /\ TakesKnob(t, policy[t], boosted[t])

-----------------------------------------------------------------------------
(* sched_setscheduler() and sched_setattr().                               *)

(* Faulty: a clamp is compared only with one given in the same call.       *)
ValidateSameCall(t, attr) ==
  /\ \A id \in DOMAIN attr.util : attr.util[id] \in -1..Scale
  /\ DOMAIN attr.util = Clamp => attr.util["min"] <= attr.util["max"]

uclamp_validate(t, attr) ==
  LET asked(id) == IF id \in DOMAIN attr.util THEN attr.util[id]
                   ELSE uclamp_req[t][id].se.value
  IN /\ \A id \in DOMAIN attr.util : attr.util[id] \in -1..Scale
     /\ asked("min") # -1 /\ asked("max") # -1 => asked("min") <= asked("max")

SetAttrCheck(t, attr) ==
  /\ stage[t] # "none" /\ DOMAIN attr.util # {} /\ UserCall
  /\ uclamp_validate(t, attr)
  /\ sched_uclamp_used' = TRUE
  /\ setattr' = setattr \cup {[task |-> t, attr |-> attr, late |-> FALSE]}
  /\ UNCHANGED <<taskVars, rqVars, sysVars, groupVars, op, histVars>>

uclamp_reset(attr, id, user) ==
  \/ DOMAIN attr.util = {} /\ ~user
  \/ id \in DOMAIN attr.util /\ attr.util[id] = -1

setscheduler_uclamp(r, attr, rt) ==
  [id \in Clamp |->
     IF id \in DOMAIN attr.util /\ attr.util[id] # -1 THEN Request(attr.util[id], TRUE)
     ELSE IF ~uclamp_reset(attr, id, r[id].user) THEN r[id]
     ELSE Request(IF rt /\ id = "min" THEN sysctl["rt"] ELSE uclamp_none(id), FALSE)]

\* The section of __sched_setscheduler under the locks
SetScheduler(t, attr) ==
  LET pol == IF attr.policy = "keep" THEN policy[t] ELSE attr.policy
      r == setscheduler_uclamp(uclamp_req[t], attr, rt_task(pol, boosted[t]))
      kept == (pol = "fair") # (policy[t] = "fair")
  IN /\ uclamp_req' = [uclamp_req EXCEPT ![t] = r]
     /\ policy' = [policy EXCEPT ![t] = pol]
     /\ Requeue(t, r, group[t], class(pol, boosted[t]))
     /\ IF uclamp_reset(attr, "min", uclamp_req[t]["min"].user) /\ rt_task(pol, boosted[t])
          THEN TakesKnob(t, pol, boosted[t])
          ELSE /\ astray' = [astray EXCEPT ![t] =
                    IF r["min"].user \/ uclamp_reset(attr, "min", uclamp_req[t]["min"].user)
                      THEN {}
                    ELSE IF kept THEN @ \cup {"kept"} ELSE @]
               /\ UNCHANGED wrapped
     /\ UNCHANGED <<stage, boosted, cpu, on_rq, css, group, sysVars, groupVars, op>>

Overtakes(t, s) == {[x EXCEPT !.late = (x.task = t) \/ @] : x \in s}

SetAttr(x) ==
  /\ SetScheduler(x.task, x.attr)
  /\ setattr' = Overtakes(x.task, setattr \ {x})
  /\ overtaken' = IF x.late THEN overtaken \cup {x.task} ELSE overtaken
  /\ UNCHANGED <<sched_uclamp_used, calls>>

\* Without clamps in the argument nothing is validated first.
SetPolicy(t, attr) ==
  /\ stage[t] # "none" /\ DOMAIN attr.util = {} /\ UserCall
  /\ SetScheduler(t, attr)
  /\ setattr' = Overtakes(t, setattr)
  /\ UNCHANGED <<sched_uclamp_used, overtaken>>

-----------------------------------------------------------------------------
(* fork()                                                                  *)

uclamp_fork(t, child, reset) ==
  /\ uclamp' = [uclamp EXCEPT ![child] = NotActive]
  /\ uclamp_req' = [uclamp_req EXCEPT ![child] = IF reset THEN NoRequest ELSE uclamp_req[t]]

\* sched_fork and sched_cgroup_fork, and the child is visible.
Fork(t, child, reset) ==
  /\ stage[t] = "live" /\ on_rq[t] /\ stage[child] = "none" /\ UserCall
  /\ policy[t] = "dl" => reset
  /\ stage' = [stage EXCEPT ![child] = "new"]
  /\ policy' = [policy EXCEPT ![child] = IF reset THEN "fair" ELSE policy[t]]
  /\ uclamp_fork(t, child, reset)
  /\ cpu' = [cpu EXCEPT ![child] = cpu[t]]
  /\ css' = [css EXCEPT ![child] = css[t]] /\ group' = [group EXCEPT ![child] = css[t]]
  /\ astray' = [astray EXCEPT ![child] = IF reset THEN {} ELSE astray[t]]
  /\ overtaken' = IF ~reset /\ t \in overtaken THEN overtaken \cup {child} ELSE overtaken
  /\ UNCHANGED <<boosted, on_rq, rq, sysVars, sched_uclamp_used, groupVars, op, setattr,
                 wrapped>>

(* Faulty: a default rewritten during the fork is not looked at again.     *)
PostForkNoSync(t) ==
  /\ stage[t] = "new"
  /\ stage' = [stage EXCEPT ![t] = "live"]
  /\ UNCHANGED <<policy, boosted, uclamp_req, cpu, on_rq, css, group, rqVars, sysVars,
                 sched_uclamp_used, groupVars, op, setattr, calls, histVars>>

\* sched_post_fork; the test of rt_task() takes no lock.
uclamp_post_fork(t) ==
  /\ stage[t] = "new"
  /\ stage' = [stage EXCEPT ![t] = IF rt_task(policy[t], boosted[t]) THEN "sync" ELSE "live"]
  /\ UNCHANGED <<policy, boosted, uclamp_req, cpu, on_rq, css, group, rqVars, sysVars,
                 sched_uclamp_used, groupVars, op, setattr, calls, histVars>>

\* wake_up_new_task() enqueues the child later.
PostForkSync(t) ==
  /\ stage[t] = "sync"
  /\ stage' = [stage EXCEPT ![t] = "live"]
  /\ __uclamp_update_util_min_rt_default(t)
  /\ UNCHANGED <<policy, boosted, cpu, on_rq, css, group, rqVars, sysVars,
                 sched_uclamp_used, groupVars, op, setattr, calls, overtaken>>

-----------------------------------------------------------------------------
(* Task groups.                                                            *)

Subtree(g) == {h \in Group : tg[h] # "none" /\ g \in Ancestors[h]}

\* Only one cgroup is created at a time, in one that is online.
GroupAlloc(g) ==
  /\ tg[g] = "none" /\ tg[Parent[g]] = "online" /\ AdminCall
  /\ \A h \in Group : tg[h] \in {"none", "online"}
  /\ tg' = [tg EXCEPT ![g] = "allocated"]
  /\ tg_req' = [tg_req EXCEPT ![g] = [id \in Clamp |-> uclamp_none(id)]]
  /\ tg_eff' = [tg_eff EXCEPT ![g] = tg_eff[Parent[g]]]
  /\ UNCHANGED <<taskVars, rqVars, sysVars, sched_uclamp_used, op, setattr, histVars>>

\* sched_online_group: from here the parent's clamps apply.
GroupOnline(g) ==
  /\ tg[g] = "allocated"
  /\ tg' = [tg EXCEPT ![g] = "parented"]
  /\ UNCHANGED <<taskVars, rqVars, sysVars, sched_uclamp_used, tg_req, tg_eff, op,
                 setattr, calls, histVars>>

\* The walk of cpu_util_update_eff; the mutex is released when nothing is left.
Walk(rest) == IF rest = {} THEN Idle ELSE [Idle EXCEPT !.kind = "walk", !.rest = rest]

\* cpu_cgroup_css_online takes uclamp_mutex.
GroupUpdate(g) ==
  /\ tg[g] = "parented" /\ op.kind = "idle"
  /\ tg' = [tg EXCEPT ![g] = "online"]
  /\ op' = Walk(Subtree(g))
  /\ UNCHANGED <<taskVars, rqVars, sysVars, sched_uclamp_used, tg_req, tg_eff,
                 setattr, calls, histVars>>

cpu_uclamp_write(g, id, v) ==
  /\ tg[g] = "online" /\ g # Root /\ op.kind = "idle" /\ AdminCall
  /\ sched_uclamp_used' = TRUE
  /\ tg_req' = [tg_req EXCEPT ![g][id] = v]
  /\ op' = Walk(Subtree(g))
  /\ UNCHANGED <<taskVars, rqVars, sysVars, tg, tg_eff, setattr, histVars>>

\* The effective clamps of g, given its parent's; a limit caps the protection.
Effective(g) ==
  LET capped(id) == IF g = Root \/ tg[g] = "allocated" THEN tg_req[g][id]
                    ELSE Least(tg_req[g][id], tg_eff[Parent[g]][id])
  IN [min |-> Least(capped("min"), capped("max")), max |-> capped("max")]

(* Faulty: a group whose protection stays the same ends the walk.          *)
WalkPrunesEarly(g) ==
  /\ op.kind = "walk" /\ g \in op.rest /\ Ancestors[g] \cap op.rest = {g}
  /\ IF Effective(g)["min"] = tg_eff[g]["min"]
       THEN op' = Walk(op.rest \ Subtree(g)) /\ UNCHANGED tg_eff
       ELSE /\ tg_eff' = [tg_eff EXCEPT ![g]["min"] = Effective(g)["min"]]
            /\ op' = [op EXCEPT !.kind = "store", !.at = g, !.rest = @ \ {g},
                                !.val = Effective(g)["max"]]
  /\ UNCHANGED <<taskVars, rqVars, sysVars, sched_uclamp_used, tg, tg_req, setattr,
                 calls, histVars>>

\* One group; below a group that does not change nothing is looked at.
WalkGroup(g) ==
  /\ op.kind = "walk" /\ g \in op.rest /\ Ancestors[g] \cap op.rest = {g}
  /\ IF \A id \in Clamp : Effective(g)[id] = tg_eff[g][id]
       THEN op' = Walk(op.rest \ Subtree(g)) /\ UNCHANGED tg_eff
       ELSE /\ tg_eff' = [tg_eff EXCEPT ![g]["min"] = Effective(g)["min"]]
            /\ op' = [op EXCEPT !.kind = "store", !.at = g, !.rest = @ \ {g},
                                   !.val = Effective(g)["max"]]
  /\ UNCHANGED <<taskVars, rqVars, sysVars, sched_uclamp_used, tg, tg_req, setattr,
                 calls, histVars>>

\* The second clamp is stored, and the iteration over the group's tasks starts.
WalkStore ==
  LET todo == {t \in Visible : css[t] = op.at}
  IN /\ op.kind = "store"
     /\ tg_eff' = [tg_eff EXCEPT ![op.at]["max"] = op.val]
     /\ op' = IF todo = {} THEN Walk(op.rest)
              ELSE [op EXCEPT !.kind = "tasks", !.todo = todo]
     /\ UNCHANGED <<taskVars, rqVars, sysVars, sched_uclamp_used, tg, tg_req, setattr,
                    calls, histVars>>

uclamp_update_active(t) ==
  IF uclamp[t] = NotActive THEN UNCHANGED rqVars
  ELSE LET u == uclamp_eff_get(uclamp_req[t], group[t])
       IN Put(t, cpu[t], [q |-> uclamp_rq_reinc(rq[cpu[t]], uclamp[t], u), u |-> u])

Next_task(t) ==
  IF op.todo = {t} THEN Walk(op.rest) ELSE [op EXCEPT !.todo = @ \ {t}, !.on = {}]

\* A task that has left the group meanwhile may be passed over.
WalkTask(t) ==
  /\ op.kind = "tasks" /\ t \in op.todo
  /\ \/ uclamp_update_active(t)
     \/ css[t] # op.at /\ UNCHANGED rqVars
  /\ op' = Next_task(t)
  /\ UNCHANGED <<taskVars, sysVars, sched_uclamp_used, groupVars, setattr, calls, histVars>>

\* cgroup_attach_task puts t in its new cgroup ...
MoveCss(t, g) ==
  /\ stage[t] = "live" /\ tg[g] = "online" /\ css[t] # g /\ css[t] = group[t] /\ AdminCall
  /\ css' = [css EXCEPT ![t] = g]
  /\ UNCHANGED <<stage, policy, boosted, uclamp_req, cpu, on_rq, group, rqVars, sysVars,
                 sched_uclamp_used, groupVars, op, setattr, histVars>>

(* Faulty: a runnable task keeps the clamps of its old group.              *)
MoveTaskLazily(t) ==
  /\ css[t] # group[t]
  /\ group' = [group EXCEPT ![t] = css[t]]
  /\ UNCHANGED <<stage, policy, boosted, uclamp_req, cpu, on_rq, css, rqVars, sysVars,
                 sched_uclamp_used, groupVars, op, setattr, calls, histVars>>

\* ... and then calls cpu_cgroup_attach.
sched_move_task(t) ==
  /\ css[t] # group[t]
  /\ group' = [group EXCEPT ![t] = css[t]]
  /\ Requeue(t, uclamp_req[t], css[t], class(policy[t], boosted[t]))
  /\ UNCHANGED <<stage, policy, boosted, uclamp_req, cpu, on_rq, css, sysVars,
                 sched_uclamp_used, groupVars, op, setattr, calls, histVars>>

-----------------------------------------------------------------------------
(* sysctl_sched_uclamp_handler                                             *)

\* proc_dointvec stores the value before the handler looks at it.
SysctlWrite(k, v) ==
  /\ op.kind = "idle" /\ AdminCall
  /\ sysctl' = [sysctl EXCEPT ![k] = v]
  /\ op' = [Idle EXCEPT !.kind = "check", !.knob = k, !.val = sysctl[k]]
  /\ UNCHANGED <<taskVars, rqVars, uclamp_default, sched_uclamp_used, groupVars,
                 setattr, histVars>>

SysctlUndo ==
  /\ op.kind = "check"
  /\ sysctl["min"] > sysctl["max"] \/ sysctl["max"] > Scale \/ sysctl["rt"] > Scale
  /\ sysctl' = [sysctl EXCEPT ![op.knob] = op.val]
  /\ op' = Idle
  /\ UNCHANGED <<taskVars, rqVars, uclamp_default, sched_uclamp_used, groupVars,
                 setattr, calls, histVars>>

SysctlValid ==
  op.kind = "check" /\ sysctl["min"] <= sysctl["max"] /\ sysctl["max"] <= Scale
    /\ sysctl["rt"] <= Scale

\* A system default: the root group's request follows, and the tree is walked.
SysctlDefault ==
  /\ SysctlValid /\ op.knob \in Clamp
  /\ IF sysctl[op.knob] = op.val
       THEN op' = Idle /\ UNCHANGED <<uclamp_default, sched_uclamp_used, tg_req>>
       ELSE /\ uclamp_default' = [uclamp_default EXCEPT ![op.knob] = uclamp_se_set(sysctl[op.knob])]
            /\ sched_uclamp_used' = TRUE
            /\ tg_req' = [tg_req EXCEPT ![Root] = [id \in Clamp |-> sysctl[id]]]
            /\ op' = Walk(Subtree(Root))
  /\ UNCHANGED <<taskVars, rqVars, sysctl, tg, tg_eff, setattr, calls, histVars>>

\* The default boost of realtime tasks: all tasks are visited.
SysctlRtDefault ==
  /\ SysctlValid /\ op.knob = "rt"
  /\ IF sysctl["rt"] = op.val THEN op' = Idle /\ UNCHANGED sched_uclamp_used
     ELSE /\ sched_uclamp_used' = TRUE
          /\ op' = IF Visible = {} THEN Idle
                   ELSE [Idle EXCEPT !.kind = "sync", !.todo = Visible]
  /\ UNCHANGED <<taskVars, rqVars, sysVars, groupVars, setattr, calls, histVars>>

\* For each task the test of rt_task() takes no lock, ...
SyncTest(t) ==
  /\ op.kind = "sync" /\ op.on = {} /\ t \in op.todo
  /\ op' = IF rt_task(policy[t], boosted[t]) THEN [op EXCEPT !.on = {t}] ELSE Next_task(t)
  /\ UNCHANGED <<taskVars, rqVars, sysVars, sched_uclamp_used, groupVars, setattr, calls,
                 histVars>>

\* ... the write does.
SyncTask(t) ==
  /\ op.kind = "sync" /\ t \in op.on
  /\ __uclamp_update_util_min_rt_default(t)
  /\ op' = Next_task(t)
  /\ UNCHANGED <<stage, policy, boosted, cpu, on_rq, css, group, rqVars, sysVars,
                 sched_uclamp_used, groupVars, setattr, calls, overtaken>>

-----------------------------------------------------------------------------
Next ==
  \/ \E t \in Task, c \in CPU : Enqueue(t, c)
  \/ \E t \in Task : Dequeue(t) \/ rt_mutex_setprio(t)
  \/ \E t \in Task, a \in Attrs : SetAttrCheck(t, a) \/ SetPolicy(t, a)
  \/ \E x \in setattr : SetAttr(x)
  \/ \E t, child \in Task, reset \in Roof : Fork(t, child, reset)
  \/ \E t \in Task : uclamp_post_fork(t) \/ PostForkSync(t)
  \/ \E t \in Task : WalkTask(t) \/ SyncTest(t) \/ SyncTask(t)
  \/ \E g \in Group \ {Root} : GroupAlloc(g) \/ GroupOnline(g) \/ GroupUpdate(g)
  \/ \E g \in Group, id \in Clamp, v \in Limits : cpu_uclamp_write(g, id, v)
  \/ \E g \in Group : WalkGroup(g)
  \/ WalkStore
  \/ \E t \in Task, g \in Group : MoveCss(t, g)
  \/ \E t \in Task : sched_move_task(t)
  \/ \E k \in Knob : \E v \in Written[k] : SysctlWrite(k, v)
  \/ SysctlUndo \/ SysctlDefault \/ SysctlRtDefault

Spec == Init /\ [][Next]_vars
=============================================================================
