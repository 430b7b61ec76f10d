------------------------------ MODULE UclampProps ----------------------------
(***************************************************************************)
(* What utilisation clamping promises.                                     *)
(***************************************************************************)
EXTENDS Uclamp

Value == 0..(Width - 1)
Se == [value : Value, bucket : Bucket]
Queue == [idle : BOOLEAN, value : [Clamp -> Value], tasks : [Clamp -> [Bucket -> Nat]],
          bucket : [Clamp -> [Bucket -> Value]]]

Operation == [kind : {"idle", "check", "walk", "store", "tasks", "sync"},
              knob : Knob, val : Nat, rest : SUBSET Group, at : Group,
              todo : SUBSET Task, on : SUBSET Task]

\* Every variable holds a value of the type the code gives it: struct uclamp_se,
\* uclamp_rq and uclamp_bucket, task_struct, task_group and the sysctls.
TypeOK ==
  /\ stage \in [Task -> {"none", "new", "sync", "live"}]
  /\ policy \in [Task -> Policy] /\ boosted \in [Task -> Boost]
  /\ uclamp_req \in [Task -> [Clamp -> [se : Se, user : BOOLEAN]]]
  /\ uclamp \in [Task -> [Clamp -> Se] \cup {NotActive}]
  /\ cpu \in [Task -> CPU] /\ on_rq \in [Task -> BOOLEAN]
  /\ css \in [Task -> Group] /\ group \in [Task -> Group]
  /\ rq \in [CPU -> Queue]
  /\ uclamp_default \in [Clamp -> Se] /\ sysctl \in [Knob -> Nat]
  /\ sched_uclamp_used \in BOOLEAN
  /\ tg \in [Group -> {"none", "allocated", "parented", "online"}]
  /\ tg_req \in [Group -> [Clamp -> 0..Scale]] /\ tg_eff \in [Group -> [Clamp -> 0..Scale]]
  /\ op \in Operation
  /\ setattr \subseteq [task : Task, attr : Argument, late : BOOLEAN]
  /\ calls \in [user : 0..MaxUser, admin : 0..MaxAdmin]
  /\ astray \in [Task -> SUBSET {"kept", "boosted", "unchecked", "raced"}]
  /\ wrapped \in BOOLEAN
  /\ overtaken \subseteq Task

Active(c) == {t \in Task : uclamp[t] # NotActive /\ cpu[t] = c}
AtRest == op.kind = "idle"

\* A bucket counts exactly the runnable tasks that were put in it, whenever
\* clamping was enabled, the task changed class or CPU, its group's limits were
\* rewritten or it was copied by fork() (core.c uclamp_rq_inc_id and _dec_id).
BucketsCountActive ==
  /\ \A t \in Task : uclamp[t] # NotActive =>
       on_rq[t] /\ sched_uclamp_used /\ uclamp_enabled(class(policy[t], boosted[t]))
  /\ \A c \in CPU, id \in Clamp, b \in Bucket :
       rq[c].tasks[id][b] = Cardinality({t \in Active(c) : uclamp[t][id].bucket = b})

\* The clamp a runqueue shows to the frequency governor is the largest of its
\* buckets' and covers every runnable task, and the "should never happen" warning
\* of uclamp_rq_dec_id stays silent.
CoversActive(c) ==
  \A id \in Clamp :
    /\ rq[c].value[id] = Max({rq[c].bucket[id][b] : b \in Bucket})
    /\ \A t \in Active(c) :
         /\ rq[c].bucket[id][uclamp[t][id].bucket] \in uclamp[t][id].value..rq[c].value[id]
         /\ ~Warns(rq[c], id, uclamp[t][id])

\* So it is until a request has been made of the realtime default in the moment
\* between proc_dointvec, which stores any number, and the check, and did not fit
\* its bit field.  Even then, without a runnable task the protection is dropped and
\* the flag is set that ends the retention of the last limit at the next wakeup.
RqValueIsTop ==
  \A c \in CPU :
    IF Active(c) = {}
      THEN rq[c].idle /\ rq[c].value["min"] = 0
      ELSE ~rq[c].idle /\ (~wrapped => CoversActive(c))

\* The accounting of a runqueue is right, counters and values together.
AccountingHolds == BucketsCountActive /\ RqValueIsTop

\* What keeps a task that has not asked for boost from the default of its policy:
\* a change of policy that kept the request, a default taken before it was checked,
\* one given to a fair task for its inherited priority, or after rt_task() was
\* tested and before the locks were taken.
Excuses(pol) == IF pol = "fair" THEN {"kept", "boosted", "raced"} ELSE {"kept", "unchecked"}

\* A request for boost that userspace has not made is the default of the task's
\* policy, through class changes, forks and a sysctl that is rewritten meanwhile
\* ("either sched_post_fork() will observe the new uclamp_min_rt or ..."), unless
\* the task went astray in one of these ways.
RequestFollowsPolicy ==
  AtRest => \A t \in Task :
    stage[t] = "live" /\ ~uclamp_req[t]["min"].user /\ astray[t] \cap Excuses(policy[t]) = {} =>
      uclamp_req[t]["min"].se.value = IF policy[t] = "fair" THEN 0 ELSE sysctl["rt"]

\* "This knob only affects RT tasks that their uclamp_se->user_defined == false":
\* where nothing is inherited, no fair task has the default boost of realtime tasks.
KnobAffectsRtOnly ==
  AtRest => \A t \in Task :
    stage[t] = "live" /\ policy[t] = "fair" /\ ~uclamp_req[t]["min"].user =>
      uclamp_req[t]["min"].se.value = 0

\* "Defensive programming: this should never happen": no bucket that is left by its
\* last task has a value above the runqueue's.
BucketNeverAboveRq ==
  \A t \in Task, id \in Clamp :
    uclamp[t] # NotActive => ~Warns(rq[cpu[t]], id, uclamp[t][id])

\* Userspace never has a minimum above the maximum, which uclamp_validate refuses,
\* unless another call came between the check, made without a lock, and its use.
UserOrdered ==
  \A t \in Visible \ overtaken :
    uclamp_req[t]["min"].user /\ uclamp_req[t]["max"].user =>
      uclamp_req[t]["min"].se.value <= uclamp_req[t]["max"].se.value

\* Between two updates no group's effective clamps are out of date: they are what
\* its request and its parent's effective clamps give, although cpu_util_update_eff
\* skips whatever is below a group that stays the same.
EffectiveIsCurrent ==
  AtRest => \A g \in Group : tg[g] = "online" =>
    \A id \in Clamp : tg_eff[g][id] = Effective(g)[id]

\* The limits, and all the clamps, requested for a group and those above it.
LimitsAbove(g) == {tg_req[h]["max"] : h \in Ancestors[g]}
ClampsAbove(g) == {tg_req[h][id] : h \in Ancestors[g], id \in Clamp}

\* Between two updates a group's effective limit is the least limit on its path to
\* the root, its effective protection the least of all protections and limits there,
\* though cpu_util_update_eff prunes its walk and groups appear during one.
EffectiveIsLeast ==
  AtRest => \A g \in Group : tg[g] = "online" =>
    tg_eff[g]["max"] = Min(LimitsAbove(g)) /\ tg_eff[g]["min"] = Min(ClampsAbove(g))

GroupBounds ==
  AtRest => \A t \in Task :
    uclamp[t] # NotActive /\ group[t] # Root /\ css[t] = group[t] =>
      \A id \in Clamp :
        uclamp[t][id].value \in tg_eff[group[t]]["min"]..tg_eff[group[t]]["max"]

DefaultBounds ==
  AtRest => \A t \in Task, id \in Clamp :
    uclamp[t] # NotActive /\ css[t] = group[t] /\ (group[t] = Root \/ id = "max") =>
      uclamp[t][id].value <= uclamp_default[id].value

\* Between two updates a group's limits are the least ones above it, no runnable
\* task is clamped outside the range its group currently grants, none of the root
\* group exceeds a system default and none at all the default limit ("All clamps are
\* required to be less or equal than these values"), although tasks are updated one
\* by one while others wake up, change their requests and move between groups
\* (uclamp_update_active_tasks).
BoundsRespected == EffectiveIsLeast /\ GroupBounds /\ DefaultBounds

\* The comment of uclamp_default for every task: what the code does not do.
AllClampsBounded ==
  AtRest => \A t \in Task, id \in Clamp :
    uclamp[t] # NotActive => uclamp[t][id].value <= uclamp_default[id].value
=============================================================================
