---------------------------- MODULE UclampProofs ---------------------------
(***************************************************************************)
(* Proofs about utilisation clamping, for every tree of groups, every      *)
(* scale and number of buckets, all tasks, arguments and bounds: the       *)
(* groups' effective clamps, the clamps userspace asks for, the counters   *)
(* and values of the runqueues' buckets, the default requests, and what    *)
(* bounds the clamps a task is granted.                                    *)
(***************************************************************************)
EXTENDS UclampProps, FiniteSetTheorems, TLAPS

-----------------------------------------------------------------------------
(* The group tree.  While it is walked, a group whose effective clamps are *)
(* out of date is the next to be visited on its path, or the one whose     *)
(* second clamp is about to be stored.                                     *)
Holding == {"walk", "store", "tasks"}

TreeTypeOK ==
  /\ tg \in [Group -> {"none", "allocated", "parented", "online"}]
  /\ tg_req \in [Group -> [Clamp -> 0..Scale]]
  /\ tg_eff \in [Group -> [Clamp -> 0..Scale]]
  /\ op \in [kind : {"idle", "check", "walk", "store", "tasks", "sync"},
             knob : Knob, val : Nat, rest : SUBSET Group, at : Group,
             todo : SUBSET Task, on : SUBSET Task]
  /\ sysctl \in [Knob -> Nat]

Current(g) == \A id \in Clamp : tg_eff[g][id] = Effective(g)[id]
Due(g) == Ancestors[g] \cap op.rest = {g}
Child(c, g) == c # Root /\ Parent[c] = g /\ tg[c] = "online"

ParentsOnline ==
  /\ tg[Root] = "online"
  /\ \A g \in Group \ {Root} : tg[g] # "none" => tg[Parent[g]] = "online"
RestInv == op.kind \notin Holding => op.rest = {}
Closed == \A g \in op.rest, c \in Group : Child(c, g) => c \in op.rest
Storing(g) == op.kind = "store" /\ g = op.at
StoreInv ==
  op.kind = "store" =>
    /\ op.val \in 0..Scale
    /\ tg[op.at] = "online" =>
         /\ op.val = Effective(op.at)["max"]
         /\ tg_eff[op.at]["min"] = Effective(op.at)["min"]
         /\ \A c \in Group : Child(c, op.at) => Due(c)
Fresh == \A g \in Group : tg[g] = "online" => Current(g) \/ Due(g) \/ Storing(g)

TreeInv ==
  TreeTypeOK /\ ParentsOnline /\ RestInv /\ Closed /\ StoreInv /\ Fresh

(* The effective clamps computed for a group are clamps.                   *)
LEMMA EffectiveType ==
  ASSUME TreeTypeOK, NEW g \in Group
  PROVE  /\ Effective(g)["min"] \in 0..Scale
         /\ Effective(g)["max"] \in 0..Scale
<1>1. g # Root => Parent[g] \in Group
  BY GroupAssumption
<1>2. \A h \in Group, id \in Clamp : tg_req[h][id] \in 0..Scale /\ tg_eff[h][id] \in 0..Scale
  BY DEF TreeTypeOK
<1> QED
  BY <1>1, <1>2, ScaleAssumption DEF Effective, Least, Clamp

(* They depend on its own state and its parent's effective clamps.         *)
LEMMA EffectiveSame ==
  ASSUME NEW g \in Group, tg_req'[g] = tg_req[g],
         (tg'[g] = "allocated") <=> (tg[g] = "allocated"),
         g # Root => tg_eff'[Parent[g]] = tg_eff[Parent[g]]
  PROVE  Effective(g)' = Effective(g)
BY DEF Effective

LEMMA InitTree == Init => TreeInv
<1> SUFFICES ASSUME Init PROVE TreeInv
  OBVIOUS
<1> USE ScaleAssumption, GroupAssumption, OnlineAssumption
<1>1. tg_req \in [Group -> [Clamp -> 0..Scale]] /\ tg_eff = tg_req
  BY DEF Init, uclamp_none, Clamp
<1>2. TreeTypeOK
  BY <1>1 DEF Init, TreeTypeOK, Idle, Knob, Clamp
<1>3. ParentsOnline /\ RestInv /\ Closed /\ StoreInv
  BY DEF Init, ParentsOnline, RestInv, Closed, StoreInv, Idle, Holding
<1>4. ASSUME NEW g \in Group, tg[g] = "online" PROVE Current(g)
  <2>1. CASE g = Root
    BY <2>1, <1>1 DEF Init, Current, Effective, Least, Clamp
  <2>2. CASE g # Root
    <3>1. Parent[g] \in Group
      BY <2>2
    <3>2. tg_req[g]["min"] = 0 /\ tg_req[g]["max"] = Scale
      BY <2>2 DEF Init, uclamp_none, Clamp
    <3>3. tg_eff[Parent[g]]["min"] \in 0..Scale /\ tg_eff[Parent[g]]["max"] = Scale
      BY <3>1 DEF Init, uclamp_none, Clamp
    <3> QED
      BY <2>2, <3>2, <3>3, <1>1 DEF Current, Effective, Least, Clamp
  <2> QED
    BY <2>1, <2>2
<1>5. Fresh
  BY <1>4 DEF Fresh
<1> QED
  BY <1>2, <1>3, <1>5 DEF TreeInv

-----------------------------------------------------------------------------
(* Steps that leave the tree and what is left of the walk alone.           *)
LEMMA TreeUntouched ==
  ASSUME TreeInv, UNCHANGED groupVars, op'.rest = op.rest,
         op.kind # "store", op'.kind # "store",
         op'.kind \notin Holding => op.rest = {},
         TreeTypeOK'
  PROVE  TreeInv'
<1>1. ParentsOnline' /\ RestInv' /\ Closed' /\ StoreInv'
  BY DEF TreeInv, ParentsOnline, RestInv, Closed, Child, StoreInv, groupVars
<1>2. ASSUME NEW g \in Group PROVE Effective(g)' = Effective(g)
  BY EffectiveSame DEF groupVars
<1>3. Fresh'
  BY <1>2 DEF TreeInv, Fresh, Current, Due, Storing, groupVars
<1> QED
  BY <1>1, <1>3 DEF TreeInv

LEMMA TreeStutter ==
  ASSUME TreeInv, UNCHANGED <<groupVars, op, sysctl>>
  PROVE  TreeInv'
<1>1. TreeTypeOK'
  BY DEF TreeInv, TreeTypeOK, groupVars
<1>2. ASSUME NEW g \in Group PROVE Effective(g)' = Effective(g)
  BY EffectiveSame DEF groupVars
<1>3. ParentsOnline' /\ RestInv' /\ Closed'
  BY DEF TreeInv, ParentsOnline, RestInv, Closed, Child, groupVars
<1>4. StoreInv'
  <2>1. op.kind = "store" => op.at \in Group
    BY DEF TreeInv, TreeTypeOK
  <2> QED
    BY <1>2, <2>1 DEF TreeInv, StoreInv, Child, Due, groupVars
<1>5. Fresh'
  BY <1>2 DEF TreeInv, Fresh, Current, Due, Storing, groupVars
<1> QED
  BY <1>1, <1>3, <1>4, <1>5 DEF TreeInv

(* The mutex is taken, and the walk is to start at g.                      *)
LEMMA TreeStart ==
  ASSUME TreeInv, NEW g \in Group, op.kind \in {"idle", "check"}, tg[g] # "none",
         op' = Walk(Subtree(g)), UNCHANGED tg_eff,
         TreeTypeOK',
         \A h \in Group \ {g} : tg_req'[h] = tg_req[h] /\ tg'[h] = tg[h],
         tg'[g] = "online", tg[g] # "allocated", g = Root \/ tg[Parent[g]] = "online"
  PROVE  TreeInv'
<1> USE AncestorsAssumption, GroupAssumption
<1>1. g \in Ancestors[g]
  BY DEF TreeInv
<1>2. g \in Subtree(g)
  BY <1>1 DEF Subtree
<1>3. op'.rest = Subtree(g) /\ op'.kind = "walk"
  BY <1>2 DEF Walk, Idle
<1>4. Due(g)'
  BY <1>1, <1>2, <1>3 DEF Due, Subtree
<1>5. ParentsOnline'
  <2> SUFFICES ASSUME NEW h \in Group \ {Root}, tg'[h] # "none" PROVE tg'[Parent[h]] = "online"
    BY DEF TreeInv, ParentsOnline
  <2>1. tg[h] # "none"
    OBVIOUS
  <2>2. tg[Parent[h]] = "online" /\ Parent[h] \in Group
    BY <2>1 DEF TreeInv, ParentsOnline
  <2> QED
    BY <2>2
<1>6. Closed'
  <2> SUFFICES ASSUME NEW h \in Subtree(g), NEW c \in Group, Child(c, h)' PROVE c \in Subtree(g)
    BY <1>3 DEF Closed
  <2>1. c # Root /\ Parent[c] = h /\ tg'[c] = "online" /\ g \in Ancestors[h]
    BY DEF Child, Subtree
  <2>2. tg[c] # "none"
    BY <2>1
  <2>3. g \in Ancestors[c]
    BY <2>1
  <2> QED
    BY <2>2, <2>3 DEF Subtree
<1>7. RestInv' /\ StoreInv'
  BY <1>3 DEF RestInv, StoreInv, Holding
<1>8. Fresh'
  <2> SUFFICES ASSUME NEW h \in Group, tg'[h] = "online", h # g PROVE Current(h)'
    BY <1>4 DEF Fresh
  <2>1. Current(h)
    <3>1. tg[h] = "online" /\ op.rest = {}
      BY DEF TreeInv, RestInv, Holding
    <3> QED
      BY <3>1 DEF TreeInv, Fresh, Due, Storing
  <2>2. Effective(h)' = Effective(h)
    BY EffectiveSame
  <2> QED
    BY <2>1, <2>2 DEF Current
<1> QED
  BY <1>5, <1>6, <1>7, <1>8 DEF TreeInv
-----------------------------------------------------------------------------
(* The walk of the tree.                                                   *)
LEMMA WalkFields ==
  ASSUME NEW r \in SUBSET Group
  PROVE  /\ Walk(r) \in [kind : {"idle", "walk"}, knob : Knob, val : Nat,
                         rest : SUBSET Group, at : Group, todo : SUBSET Task, on : SUBSET Task]
         /\ Walk(r).rest = r
         /\ Walk(r).kind = IF r = {} THEN "idle" ELSE "walk"
<1> DEFINE one == [Idle EXCEPT !.kind = "walk"]
<1>1. Idle \in [kind : {"idle", "walk"}, knob : Knob, val : Nat,
                rest : SUBSET Group, at : Group, todo : SUBSET Task, on : SUBSET Task]
      /\ Idle.kind = "idle" /\ Idle.rest = {}
  BY GroupAssumption DEF Idle, Knob, Clamp
<1>2. CASE r = {}
  BY <1>1, <1>2 DEF Walk
<1>3. CASE r # {}
  <2>1. one \in [kind : {"idle", "walk"}, knob : Knob, val : Nat,
                 rest : SUBSET Group, at : Group, todo : SUBSET Task, on : SUBSET Task]
        /\ one.kind = "walk"
    BY <1>1
  <2>2. Walk(r) = [one EXCEPT !.rest = r]
    BY <1>3 DEF Walk, Idle
  <2> HIDE DEF one
  <2> QED
    BY <2>1, <2>2, <1>3
<1> QED
  BY <1>2, <1>3

(* A group is on its own path, its parent on it too and another group.     *)
LEMMA PathFacts ==
  ASSUME NEW g \in Group
  PROVE  /\ g \in Ancestors[g]
         /\ g # Root => /\ Parent[g] \in Group /\ Parent[g] # g
                        /\ Parent[g] \in Ancestors[g]
                        /\ Ancestors[g] = {g} \cup Ancestors[Parent[g]]
<1>1. \A h \in Group : h \in Ancestors[h]
  BY AncestorsAssumption
<1>2. g # Root => Parent[g] \in Group
  BY GroupAssumption
<1> QED
  BY <1>1, <1>2, AncestorsAssumption

(* A child of a group that is left to visit is not the next to be visited. *)
LEMMA NextHasNoParentLeft ==
  ASSUME NEW g \in Group, NEW h \in Group, Due(g), h \in op.rest, g # Root
  PROVE  Parent[g] # h
BY PathFacts DEF Due

(* Visiting a group whose effective clamps stay the same skips its subtree. *)
LEMMA WalkPrunes ==
  ASSUME TreeInv, NEW g \in Group, op.kind = "walk", g \in op.rest, Due(g),
         Current(g), op' = Walk(op.rest \ Subtree(g)), UNCHANGED <<groupVars, sysctl>>
  PROVE  TreeInv'
<1> DEFINE left == op.rest \ Subtree(g)
<1>1. left \in SUBSET Group
  BY DEF TreeInv, TreeTypeOK
<1>2. op'.rest = left /\ op'.kind = (IF left = {} THEN "idle" ELSE "walk")
      /\ op' \in [kind : {"idle", "walk"}, knob : Knob, val : Nat,
                  rest : SUBSET Group, at : Group, todo : SUBSET Task, on : SUBSET Task]
  BY <1>1, WalkFields
<1>3. TreeTypeOK' /\ ParentsOnline' /\ RestInv' /\ StoreInv'
  BY <1>2 DEF TreeInv, TreeTypeOK, ParentsOnline, RestInv, StoreInv, Holding, groupVars
<1>4. Closed'
  <2> SUFFICES ASSUME NEW h \in left, NEW c \in Group, Child(c, h) PROVE c \in left
    BY <1>2 DEF Closed, Child, groupVars
  <2>1. h \in Group /\ c # Root /\ Parent[c] = h /\ tg[c] = "online" /\ c \in op.rest
    BY <1>1 DEF TreeInv, Closed, Child
  <2>2. tg[h] # "none"
    BY <2>1 DEF TreeInv, ParentsOnline
  <2>3. c # g
    BY <2>1, NextHasNoParentLeft
  <2>4. g \notin Ancestors[h]
    BY <2>1, <2>2 DEF Subtree
  <2>5. g \notin Ancestors[c]
    BY <2>1, <2>3, <2>4, PathFacts
  <2> QED
    BY <2>1, <2>5 DEF Subtree
<1>5. Fresh'
  <2> SUFFICES ASSUME NEW h \in Group, tg[h] = "online" PROVE Current(h)' \/ Due(h)'
    BY DEF Fresh, groupVars
  <2>1. Effective(h)' = Effective(h)
    BY EffectiveSame DEF groupVars
  <2>2. CASE Current(h)
    BY <2>1, <2>2 DEF Current, groupVars
  <2>3. CASE Due(h) /\ h # g
    <3>1. g \notin Ancestors[h]
      BY <2>3 DEF Due
    <3> QED
      BY <3>1, <2>3, <1>2 DEF Due, Subtree
  <2> QED
    BY <2>2, <2>3 DEF TreeInv, Fresh, Storing
<1> QED
  BY <1>3, <1>4, <1>5 DEF TreeInv

(* Visiting one that changes leaves its children to be visited next.       *)
LEMMA WalkChanges ==
  ASSUME TreeInv, NEW g \in Group, op.kind = "walk", g \in op.rest, Due(g),
         tg_eff' = [tg_eff EXCEPT ![g]["min"] = Effective(g)["min"]],
         op' = [op EXCEPT !.kind = "store", !.at = g, !.rest = @ \ {g},
                          !.val = Effective(g)["max"]],
         UNCHANGED <<tg, tg_req, sysctl>>
  PROVE  TreeInv'
<1>1. Effective(g)["min"] \in 0..Scale /\ Effective(g)["max"] \in 0..Scale
  BY EffectiveType DEF TreeInv
<1>2. op'.rest = op.rest \ {g} /\ op'.kind = "store" /\ op'.at = g
      /\ op'.val = Effective(g)["max"]
  BY DEF TreeInv, TreeTypeOK
<1>3. TreeTypeOK'
  <2>1. tg_eff' \in [Group -> [Clamp -> 0..Scale]]
    BY <1>1 DEF TreeInv, TreeTypeOK
  <2>2. Effective(g)["max"] \in Nat
    BY <1>1, ScaleAssumption
  <2>3. op' \in [kind : {"idle", "check", "walk", "store", "tasks", "sync"},
                 knob : Knob, val : Nat, rest : SUBSET Group, at : Group,
                 todo : SUBSET Task, on : SUBSET Task]
    BY <2>2 DEF TreeInv, TreeTypeOK
  <2> QED
    BY <2>1, <2>3 DEF TreeInv, TreeTypeOK
<1>4. tg_eff'[g]["min"] = Effective(g)["min"]
      /\ \A h \in Group \ {g} : tg_eff'[h] = tg_eff[h]
  BY DEF TreeInv, TreeTypeOK, Clamp
<1>5. ASSUME NEW h \in Group, h # Root => Parent[h] # g
      PROVE  Effective(h)' = Effective(h)
  BY <1>4, <1>5, PathFacts, EffectiveSame
<1>6. ASSUME NEW c \in Group, Child(c, g) PROVE Due(c)'
  <2>1. c \in op.rest /\ Ancestors[c] = {c} \cup Ancestors[g] /\ c # g
    BY <1>6, PathFacts DEF TreeInv, Closed, Child
  <2> QED
    BY <2>1, <1>2 DEF Due
<1>7. Closed'
  <2> SUFFICES ASSUME NEW h \in op.rest \ {g}, NEW c \in Group, Child(c, h) PROVE c \in op.rest \ {g}
    BY <1>2 DEF Closed, Child
  <2>1. c \in op.rest /\ h \in Group /\ c # Root /\ Parent[c] = h
    BY DEF TreeInv, Closed, Child, TreeTypeOK
  <2> QED
    BY <2>1, NextHasNoParentLeft
<1>8. StoreInv'
  <2>1. Effective(g)' = Effective(g)
    BY <1>5, PathFacts
  <2> QED
    BY <2>1, <1>1, <1>2, <1>4, <1>6 DEF StoreInv, Child
<1>9. Fresh'
  <2> SUFFICES ASSUME NEW h \in Group, tg[h] = "online", h # g PROVE Current(h)' \/ Due(h)'
    BY <1>2 DEF Fresh, Storing
  <2>1. CASE Child(h, g)
    BY <2>1, <1>6
  <2>2. CASE Due(h)
    BY <2>2, <1>2 DEF Due
  <2>3. CASE ~Child(h, g) /\ Current(h)
    <3>1. Effective(h)' = Effective(h)
      BY <2>3, <1>5 DEF Child
    <3> QED
      BY <2>3, <3>1, <1>4 DEF Current
  <2> QED
    BY <2>1, <2>2, <2>3 DEF TreeInv, Fresh, Storing
<1>10. ParentsOnline' /\ RestInv'
  BY <1>2 DEF TreeInv, ParentsOnline, RestInv, Holding
<1> QED
  BY <1>3, <1>7, <1>8, <1>9, <1>10 DEF TreeInv

(* The second clamp is stored, and the group is up to date.                *)
LEMMA WalkStores == ASSUME TreeInv, WalkStore PROVE TreeInv'
<1> DEFINE at == op.at
<1>1. at \in Group /\ op.kind = "store" /\ op.val \in 0..Scale /\ op.rest \in SUBSET Group
  BY DEF TreeInv, TreeTypeOK, StoreInv, WalkStore
<1>2. /\ op'.rest = op.rest
      /\ op'.kind \in {"idle", "walk", "tasks"}
      /\ op'.kind = "idle" => op.rest = {}
      /\ op' \in [kind : {"idle", "walk", "tasks"}, knob : Knob, val : Nat,
                  rest : SUBSET Group, at : Group, todo : SUBSET Task, on : SUBSET Task]
  <2>1. CASE op' = Walk(op.rest)
    BY <2>1, <1>1, WalkFields
  <2>2. CASE op' = [op EXCEPT !.kind = "tasks", !.todo = {t \in Visible : css[t] = op.at}]
    BY <2>2, <1>1 DEF TreeInv, TreeTypeOK, Visible
  <2> QED
    BY <2>1, <2>2 DEF WalkStore
<1>3. /\ UNCHANGED <<tg, tg_req, sysctl>>
      /\ tg_eff'[at]["max"] = op.val /\ tg_eff'[at]["min"] = tg_eff[at]["min"]
      /\ \A h \in Group \ {at} : tg_eff'[h] = tg_eff[h]
      /\ tg_eff' \in [Group -> [Clamp -> 0..Scale]]
  BY <1>1 DEF TreeInv, TreeTypeOK, WalkStore, Clamp, sysVars
<1>4. TreeTypeOK' /\ ParentsOnline' /\ RestInv' /\ Closed' /\ StoreInv'
  <2>1. TreeTypeOK'
    <3>1. op' \in [kind : {"idle", "check", "walk", "store", "tasks", "sync"},
                   knob : Knob, val : Nat, rest : SUBSET Group, at : Group,
                   todo : SUBSET Task, on : SUBSET Task]
      BY <1>2
    <3>2. tg' = tg /\ tg_req' = tg_req /\ sysctl' = sysctl
      BY <1>3
    <3>3. tg_eff' \in [Group -> [Clamp -> 0..Scale]]
      BY <1>3
    <3> QED
      BY <3>1, <3>2, <3>3 DEF TreeInv, TreeTypeOK
  <2>2. ParentsOnline' /\ Closed'
    BY <1>2, <1>3 DEF TreeInv, ParentsOnline, Closed, Child
  <2>3. RestInv' /\ StoreInv'
    BY <1>2 DEF RestInv, StoreInv, Holding
  <2> QED
    BY <2>1, <2>2, <2>3
<1>5. ASSUME NEW h \in Group, h # Root => Parent[h] # at
      PROVE  Effective(h)' = Effective(h)
  BY <1>3, <1>5, PathFacts, EffectiveSame
<1>6. Fresh'
  <2> SUFFICES ASSUME NEW h \in Group, tg[h] = "online" PROVE Current(h)' \/ Due(h)'
    BY <1>3 DEF Fresh
  <2>1. CASE h = at
    <3>1. Effective(h)' = Effective(h)
      BY <2>1, <1>5, PathFacts
    <3> QED
      BY <2>1, <3>1, <1>1, <1>3 DEF TreeInv, StoreInv, Current, Clamp
  <2>2. CASE h # at /\ Child(h, at)
    <3>1. tg[at] = "online"
      BY <2>2, <1>1 DEF TreeInv, ParentsOnline, Child
    <3>2. Due(h)
      BY <2>2, <3>1, <1>1 DEF TreeInv, StoreInv
    <3> QED
      BY <3>2, <1>2 DEF Due
  <2>3. CASE h # at /\ ~Child(h, at)
    <3>1. Effective(h)' = Effective(h)
      BY <2>3, <1>5 DEF Child
    <3>2. Current(h) \/ Due(h)
      BY <2>3 DEF TreeInv, Fresh, Storing
    <3> QED
      BY <2>3, <3>1, <3>2, <1>2, <1>3 DEF Current, Due
  <2> QED
    BY <2>1, <2>2, <2>3
<1> QED
  BY <1>4, <1>6 DEF TreeInv
-----------------------------------------------------------------------------
(* The steps.                                                              *)
OpType == [kind : {"idle", "check", "walk", "store", "tasks", "sync"},
           knob : Knob, val : Nat, rest : SUBSET Group, at : Group,
           todo : SUBSET Task, on : SUBSET Task]

(* A group that is not online yet, whatever becomes of it, is nobody's parent. *)
LEMMA TreeGrows ==
  ASSUME TreeInv, NEW g \in Group \ {Root}, tg[g] # "online", tg'[g] # "online",
         tg[Parent[g]] = "online", UNCHANGED <<op, sysctl>>, TreeTypeOK',
         \A h \in Group \ {g} : tg'[h] = tg[h] /\ tg_req'[h] = tg_req[h]
                                /\ tg_eff'[h] = tg_eff[h]
  PROVE  TreeInv'
<1>1. ASSUME NEW h \in Group \ {Root}, tg'[h] # "none"
      PROVE  tg[Parent[h]] = "online" /\ Parent[h] \in Group \ {g}
  BY <1>1, GroupAssumption DEF TreeInv, ParentsOnline
<1>2. ParentsOnline'
  <2>1. tg'[Root] = "online"
    BY GroupAssumption DEF TreeInv, ParentsOnline
  <2>2. ASSUME NEW h \in Group \ {Root}, tg'[h] # "none" PROVE tg'[Parent[h]] = "online"
    BY <1>1, <2>2
  <2> QED
    BY <2>1, <2>2 DEF ParentsOnline
<1>3. RestInv' /\ Closed'
  BY DEF TreeInv, RestInv, Closed, Child
<1>4. ASSUME NEW h \in Group, tg'[h] = "online"
      PROVE  h # g /\ tg[h] = "online" /\ Effective(h)' = Effective(h)
  BY <1>1, <1>4, EffectiveSame
<1>5. StoreInv'
  <2>1. op.kind = "store" => op.at \in Group
    BY DEF TreeInv, TreeTypeOK
  <2>2. \A c, h \in Group : Child(c, h)' => Child(c, h)
    BY DEF Child
  <2>3. \A c \in Group : Due(c)' <=> Due(c)
    BY DEF Due
  <2> QED
    BY <1>4, <2>1, <2>2, <2>3 DEF TreeInv, StoreInv
<1>6. Fresh'
  BY <1>4 DEF TreeInv, Fresh, Current, Due, Storing
<1> QED
  BY <1>2, <1>3, <1>5, <1>6 DEF TreeInv

LEMMA AllocTree == ASSUME TreeInv, NEW g \in Group \ {Root}, GroupAlloc(g) PROVE TreeInv'
<1>1. tg[Parent[g]] = "online" /\ Parent[g] \in Group
  BY GroupAssumption DEF GroupAlloc
<1>2. TreeTypeOK'
  BY <1>1, ScaleAssumption
     DEF TreeInv, TreeTypeOK, GroupAlloc, uclamp_none, sysVars
<1> QED
  BY <1>1, <1>2, TreeGrows DEF TreeInv, TreeTypeOK, GroupAlloc, sysVars

LEMMA OnlineTree == ASSUME TreeInv, NEW g \in Group \ {Root}, GroupOnline(g) PROVE TreeInv'
<1>1. tg[Parent[g]] = "online"
  BY DEF TreeInv, ParentsOnline, GroupOnline
<1>2. TreeTypeOK'
  BY DEF TreeInv, TreeTypeOK, GroupOnline, sysVars
<1> QED
  BY <1>1, <1>2, TreeGrows DEF TreeInv, TreeTypeOK, GroupOnline, sysVars

LEMMA StartType ==
  ASSUME TreeInv, NEW g \in Group
  PROVE  Subtree(g) \in SUBSET Group /\ Walk(Subtree(g)) \in OpType
<1>1. Subtree(g) \in SUBSET Group
  BY DEF Subtree
<1> QED
  BY <1>1, WalkFields DEF OpType

LEMMA UpdateTree == ASSUME TreeInv, NEW g \in Group \ {Root}, GroupUpdate(g) PROVE TreeInv'
<1>1. tg[Parent[g]] = "online"
  BY DEF TreeInv, ParentsOnline, GroupUpdate
<1>2. TreeTypeOK'
  BY StartType DEF TreeInv, TreeTypeOK, GroupUpdate, OpType, sysVars
<1> QED
  BY <1>1, <1>2, TreeStart DEF TreeInv, TreeTypeOK, GroupUpdate

LEMMA WriteTree ==
  ASSUME TreeInv, NEW g \in Group, NEW id \in Clamp, NEW v \in Limits,
         cpu_uclamp_write(g, id, v)
  PROVE  TreeInv'
<1>1. tg[Parent[g]] = "online"
  BY DEF TreeInv, ParentsOnline, cpu_uclamp_write
<1>2. v \in 0..Scale
  BY InputAssumption
<1>3. TreeTypeOK'
  BY <1>2, StartType DEF TreeInv, TreeTypeOK, cpu_uclamp_write, OpType, sysVars
<1> QED
  BY <1>1, <1>3, TreeStart DEF TreeInv, TreeTypeOK, cpu_uclamp_write

LEMMA DefaultTree == ASSUME TreeInv, SysctlDefault PROVE TreeInv'
<1>1. CASE sysctl[op.knob] = op.val
  <2>1. op' = Idle /\ op.rest = {} /\ UNCHANGED <<groupVars, sysctl>> /\ op.kind = "check"
    BY <1>1 DEF SysctlDefault, SysctlValid, groupVars, TreeInv, RestInv, Holding
  <2>2. Idle \in OpType /\ Idle.kind = "idle" /\ Idle.rest = {}
    BY GroupAssumption DEF Idle, OpType, Knob, Clamp
  <2>3. TreeTypeOK'
    BY <2>1, <2>2 DEF TreeInv, TreeTypeOK, OpType, groupVars
  <2> QED
    BY <2>1, <2>2, <2>3, TreeUntouched
<1>2. CASE sysctl[op.knob] # op.val
  <2>1. /\ Root \in Group /\ tg[Root] = "online" /\ op.kind = "check"
        /\ op' = Walk(Subtree(Root)) /\ UNCHANGED <<tg, tg_eff, sysctl>>
        /\ tg_req' = [tg_req EXCEPT ![Root] = [id \in Clamp |-> sysctl[id]]]
    BY <1>2, GroupAssumption DEF SysctlDefault, SysctlValid, TreeInv, ParentsOnline
  <2>2. [id \in Clamp |-> sysctl[id]] \in [Clamp -> 0..Scale]
    BY ScaleAssumption
       DEF SysctlDefault, SysctlValid, TreeInv, TreeTypeOK, Knob, Clamp
  <2>3. TreeTypeOK'
    BY <2>1, <2>2, StartType DEF TreeInv, TreeTypeOK, OpType
  <2> QED
    BY <2>1, <2>3, TreeStart DEF TreeInv, TreeTypeOK
<1> QED
  BY <1>1, <1>2

LEMMA VisitTree == ASSUME TreeInv, NEW g \in Group, WalkGroup(g) PROVE TreeInv'
<1>1. CASE Current(g)
  BY <1>1, WalkPrunes DEF WalkGroup, Current, Due, groupVars, sysVars
<1>2. CASE ~Current(g)
  BY <1>2, WalkChanges DEF WalkGroup, Current, Due, sysVars
<1> QED
  BY <1>1, <1>2

(* The next task of an iteration, or back to the walk.                     *)
LEMMA NextTaskTree ==
  ASSUME TreeInv, NEW t \in Task, op.kind \in {"tasks", "sync"}, op' = Next_task(t),
         UNCHANGED <<groupVars, sysctl>>
  PROVE  TreeInv'
<1>1. op.rest \in SUBSET Group /\ (op.kind = "sync" => op.rest = {})
  BY DEF TreeInv, TreeTypeOK, RestInv, Holding
<1>2. op' \in OpType /\ op'.rest = op.rest /\ op'.kind # "store"
      /\ (op'.kind \notin Holding => op.rest = {})
  <2>1. CASE op.todo = {t}
    BY <2>1, <1>1, WalkFields DEF Next_task, OpType, Holding
  <2>2. CASE op.todo # {t}
    BY <2>2, <1>1 DEF Next_task, OpType, Holding, TreeInv, TreeTypeOK
  <2> QED
    BY <2>1, <2>2
<1>3. TreeTypeOK'
  BY <1>2 DEF TreeInv, TreeTypeOK, OpType, groupVars
<1> QED
  BY <1>2, <1>3, TreeUntouched

LEMMA SyncTree ==
  ASSUME TreeInv, NEW t \in Task, SyncTest(t) \/ SyncTask(t)
  PROVE  TreeInv'
<1>1. UNCHANGED <<groupVars, sysctl>> /\ op.kind = "sync"
  BY DEF SyncTest, SyncTask, sysVars
<1>2. CASE op' = Next_task(t)
  BY <1>1, <1>2, NextTaskTree
<1>3. CASE op' = [op EXCEPT !.on = {t}]
  <2>1. op'.rest = op.rest /\ op'.kind = "sync"
    BY <1>1, <1>3 DEF TreeInv, TreeTypeOK
  <2>2. TreeTypeOK'
    BY <1>1, <1>3 DEF TreeInv, TreeTypeOK, groupVars
  <2>3. op.rest = {}
    BY <1>1 DEF TreeInv, RestInv, Holding
  <2> QED
    BY <1>1, <2>1, <2>2, <2>3, TreeUntouched
<1> QED
  BY <1>2, <1>3 DEF SyncTest, SyncTask

LEMMA SysctlTree ==
  ASSUME TreeInv,
         \/ \E k \in Knob : \E v \in Written[k] : SysctlWrite(k, v)
         \/ SysctlUndo \/ SysctlRtDefault
  PROVE  TreeInv'
<1> USE DEF groupVars, sysVars
<1>1. Idle \in OpType /\ Idle.kind = "idle" /\ Idle.rest = {}
  BY GroupAssumption DEF Idle, OpType, Knob, Clamp
<1>2. op.kind \in {"idle", "check"} => op.rest = {}
  BY DEF TreeInv, RestInv, Holding
<1>3. ASSUME NEW k \in Knob, NEW v \in Written[k], SysctlWrite(k, v) PROVE TreeInv'
  <2>1. v \in Nat /\ sysctl[k] \in Nat
    BY InputAssumption DEF TreeInv, TreeTypeOK
  <2>2. op' \in OpType /\ op'.kind = "check" /\ op'.rest = {}
    BY <2>1, <1>3, GroupAssumption DEF SysctlWrite, Idle, OpType
  <2>3. TreeTypeOK'
    BY <2>1, <2>2, <1>3 DEF TreeInv, TreeTypeOK, OpType, SysctlWrite
  <2> QED
    BY <2>2, <2>3, <1>2, <1>3, TreeUntouched DEF SysctlWrite
<1>4. CASE SysctlUndo
  <2>1. TreeTypeOK'
    BY <1>1, <1>4 DEF TreeInv, TreeTypeOK, OpType, SysctlUndo
  <2> QED
    BY <2>1, <1>1, <1>2, <1>4, TreeUntouched DEF SysctlUndo
<1>5. CASE SysctlRtDefault
  <2>1. op' \in OpType /\ op'.kind \in {"idle", "sync"} /\ op'.rest = {}
    <3>1. CASE op' = Idle
      BY <3>1, <1>1
    <3>2. CASE op' = [Idle EXCEPT !.kind = "sync", !.todo = Visible]
      BY <3>2, GroupAssumption DEF Idle, OpType, Visible, Knob, Clamp
    <3> QED
      BY <3>1, <3>2, <1>5 DEF SysctlRtDefault
  <2>2. TreeTypeOK'
    BY <2>1, <1>5 DEF TreeInv, TreeTypeOK, OpType, SysctlRtDefault
  <2> QED
    BY <2>1, <2>2, <1>2, <1>5, TreeUntouched DEF SysctlRtDefault, SysctlValid
<1> QED
  BY <1>3, <1>4, <1>5

(* A step of a task or of a call for one.                                  *)
TaskStep ==
  \/ \E t \in Task, c \in CPU : Enqueue(t, c)
  \/ \E t \in Task : Dequeue(t) \/ rt_mutex_setprio(t)
  \/ \E t \in Task, a \in Attrs : SetAttrCheck(t, a) \/ SetPolicy(t, a)
  \/ \E x \in setattr : SetAttr(x)
  \/ \E t, child \in Task, reset \in Roof : Fork(t, child, reset)
  \/ \E t \in Task : uclamp_post_fork(t) \/ PostForkSync(t)
  \/ \E t \in Task, g \in Group : MoveCss(t, g)
  \/ \E t \in Task : sched_move_task(t)

LEMMA TaskStepKeeps == ASSUME TaskStep PROVE UNCHANGED <<groupVars, op, sysVars>>
<1>1. ASSUME NEW t \in Task, NEW c \in CPU, Enqueue(t, c)
      PROVE  UNCHANGED <<groupVars, op, sysVars>>
  BY <1>1 DEF Enqueue
<1>2. ASSUME NEW t \in Task, Dequeue(t) \/ rt_mutex_setprio(t)
      PROVE  UNCHANGED <<groupVars, op, sysVars>>
  BY <1>2 DEF Dequeue, rt_mutex_setprio
<1>3. ASSUME NEW t \in Task, NEW a \in Attrs, SetAttrCheck(t, a) \/ SetPolicy(t, a)
      PROVE  UNCHANGED <<groupVars, op, sysVars>>
  BY <1>3 DEF SetAttrCheck, SetPolicy, SetScheduler
<1>4. ASSUME NEW x \in setattr, SetAttr(x)
      PROVE  UNCHANGED <<groupVars, op, sysVars>>
  BY <1>4 DEF SetAttr, SetScheduler
<1>5. ASSUME NEW t \in Task, NEW child \in Task, NEW reset \in Roof, Fork(t, child, reset)
      PROVE  UNCHANGED <<groupVars, op, sysVars>>
  BY <1>5 DEF Fork
<1>6. ASSUME NEW t \in Task, uclamp_post_fork(t) \/ PostForkSync(t) \/ sched_move_task(t)
      PROVE  UNCHANGED <<groupVars, op, sysVars>>
  BY <1>6 DEF uclamp_post_fork, PostForkSync, sched_move_task
<1>7. ASSUME NEW t \in Task, NEW g \in Group, MoveCss(t, g)
      PROVE  UNCHANGED <<groupVars, op, sysVars>>
  BY <1>7 DEF MoveCss
<1> QED
  BY <1>1, <1>2, <1>3, <1>4, <1>5, <1>6, <1>7 DEF TaskStep

LEMMA TaskStepTree == ASSUME TreeInv, TaskStep PROVE TreeInv'
BY TaskStepKeeps, TreeStutter DEF sysVars

LEMMA StepTree == ASSUME TreeInv, [Next]_vars PROVE TreeInv'
<1>1. CASE TaskStep
  BY <1>1, TaskStepTree
<1>2. ASSUME NEW t \in Task, WalkTask(t) PROVE TreeInv'
  BY <1>2, NextTaskTree DEF WalkTask, sysVars
<1>3. ASSUME NEW t \in Task, SyncTest(t) \/ SyncTask(t) PROVE TreeInv'
  BY <1>3, SyncTree
<1>4. ASSUME NEW g \in Group \ {Root}, GroupAlloc(g) \/ GroupOnline(g) \/ GroupUpdate(g)
      PROVE  TreeInv'
  BY <1>4, AllocTree, OnlineTree, UpdateTree
<1>5. ASSUME NEW g \in Group, NEW id \in Clamp, NEW v \in Limits, cpu_uclamp_write(g, id, v)
      PROVE  TreeInv'
  BY <1>5, WriteTree
<1>6. ASSUME NEW g \in Group, WalkGroup(g) PROVE TreeInv'
  BY <1>6, VisitTree
<1>7. CASE WalkStore
  BY <1>7, WalkStores
<1>8. CASE \/ \E k \in Knob : \E v \in Written[k] : SysctlWrite(k, v)
           \/ SysctlUndo \/ SysctlRtDefault
  BY <1>8, SysctlTree
<1>9. CASE SysctlDefault
  BY <1>9, DefaultTree
<1>10. CASE UNCHANGED vars
  BY <1>10, TreeStutter DEF vars, sysVars
<1> QED
  BY <1>1, <1>2, <1>3, <1>4, <1>5, <1>6, <1>7, <1>8, <1>9, <1>10 DEF Next, TaskStep

LEMMA TreeAlways == Spec => []TreeInv
BY InitTree, StepTree, PTL DEF Spec

(* When uclamp_mutex is free, no group that is online has effective clamps *)
(* out of date, although cpu_util_update_eff prunes its walk below a group *)
(* that stays the same and new groups appear while it runs.                *)
THEOREM EffectiveStaysCurrent == Spec => []EffectiveIsCurrent
<1>1. TreeInv => EffectiveIsCurrent
  BY DEF TreeInv, RestInv, Fresh, Due, Storing, Current, Holding,
         EffectiveIsCurrent, AtRest
<1> QED
  BY <1>1, TreeAlways, PTL

-----------------------------------------------------------------------------
(* A call of sched_setattr() is checked against the request of that moment *)
(* and used later.  In between only the kernel's own default may change,   *)
(* which no call with a user's clamp in its place relies on.               *)
Users(t, attr, id) ==
  IF id \in DOMAIN attr.util THEN attr.util[id] # -1 ELSE uclamp_req[t][id].user
Asked(t, attr, id) ==
  IF id \in DOMAIN attr.util THEN attr.util[id] ELSE uclamp_req[t][id].se.value
Agreed(t, attr) ==
  Users(t, attr, "min") /\ Users(t, attr, "max")
    => Asked(t, attr, "min") <= Asked(t, attr, "max")
Ordered(t) ==
  uclamp_req[t]["min"].user /\ uclamp_req[t]["max"].user =>
    uclamp_req[t]["min"].se.value <= uclamp_req[t]["max"].se.value

UserShape ==
  /\ stage \in [Task -> {"none", "new", "sync", "live"}]
  /\ uclamp_req = [t \in Task |-> [id \in Clamp |-> uclamp_req[t][id]]]
  /\ setattr \subseteq [task : Task, attr : Argument, late : BOOLEAN]
UserValues ==
  \A t \in Task, id \in Clamp :
    uclamp_req[t][id].user => uclamp_req[t][id].se.value \in 0..Scale
Checked ==
  \A x \in setattr :
    stage[x.task] # "none" /\ (~x.late => Agreed(x.task, x.attr))

UserInv == UserShape /\ UserValues /\ UserOrdered /\ Checked

(* A clamp in range is stored as it is.                                    *)
LEMMA InRange ==
  ASSUME NEW v \in 0..Scale, NEW user
  PROVE  Request(v, user).se.value = v /\ Request(v, user).user = user
<1>1. v % Width = v
  BY ScaleAssumption, SMT
<1> QED
  BY <1>1 DEF Request, uclamp_se_set

LEMMA UserOf ==
  ASSUME NEW v, NEW user PROVE Request(v, user).user = user
BY DEF Request

LEMMA InitUser == Init => UserInv
<1> SUFFICES ASSUME Init PROVE UserInv
  OBVIOUS
<1>1. \A t \in Task, id \in Clamp : uclamp_req[t][id] = Request(uclamp_none(id), FALSE)
  BY DEF Init, NoRequest
<1>2. \A t \in Task, id \in Clamp : ~uclamp_req[t][id].user
  BY <1>1, UserOf
<1>3. UserShape
  BY DEF Init, UserShape, NoRequest
<1> QED
  BY <1>2, <1>3 DEF Init, UserInv, UserValues, UserOrdered, Checked, Visible, Clamp

-----------------------------------------------------------------------------
LEMMA UserStutter ==
  ASSUME UserInv, UNCHANGED <<stage, uclamp_req, setattr, overtaken>>
  PROVE  UserInv'
BY DEF UserInv, UserShape, UserValues, UserOrdered, Checked, Agreed, Users, Asked, Visible

(* uclamp_validate() makes a call agree with the request.                  *)
LEMMA ValidateAgrees ==
  ASSUME UserInv, NEW t \in Task, NEW attr \in Argument, uclamp_validate(t, attr)
  PROVE  Agreed(t, attr)
<1> SUFFICES ASSUME Users(t, attr, "min"), Users(t, attr, "max")
             PROVE  Asked(t, attr, "min") <= Asked(t, attr, "max")
  BY DEF Agreed
<1>1. \A id \in Clamp : Users(t, attr, id) => Asked(t, attr, id) # -1
  BY ScaleAssumption DEF UserInv, UserValues, Users, Asked
<1>2. Asked(t, attr, "min") # -1 /\ Asked(t, attr, "max") # -1
  BY <1>1 DEF Clamp
<1> QED
  BY <1>2 DEF uclamp_validate, Asked

LEMMA CheckUser ==
  ASSUME UserInv, NEW t \in Task, NEW attr \in Attrs, SetAttrCheck(t, attr)
  PROVE  UserInv'
<1>1. attr \in Argument
  BY InputAssumption
<1>2. Agreed(t, attr) /\ stage[t] # "none"
  BY <1>1, ValidateAgrees DEF SetAttrCheck
<1>3. /\ setattr' = setattr \cup {[task |-> t, attr |-> attr, late |-> FALSE]}
      /\ UNCHANGED <<stage, uclamp_req, overtaken>>
  BY DEF SetAttrCheck, taskVars, histVars
<1>4. UserShape' /\ UserValues' /\ UserOrdered'
  <2>1. [task |-> t, attr |-> attr, late |-> FALSE] \in
          [task : Task, attr : Argument, late : BOOLEAN]
    BY <1>1
  <2>2. UserShape'
    BY <1>3, <2>1 DEF UserInv, UserShape
  <2> QED
    BY <1>3, <2>2 DEF UserInv, UserValues, UserOrdered, Visible
<1>5. \A u \in Task, a \in Argument : Agreed(u, a)' <=> Agreed(u, a)
  BY <1>3 DEF Agreed, Users, Asked
<1>6. Checked'
  BY <1>1, <1>2, <1>3, <1>5 DEF UserInv, UserShape, Checked
<1> QED
  BY <1>4, <1>6 DEF UserInv

-----------------------------------------------------------------------------
(* What __sched_setscheduler() leaves in the user's hands is what the user *)
(* asked for, now or before.                                               *)
LEMMA UsedAsAsked ==
  ASSUME UserInv, NEW t \in Task, NEW attr \in Argument, NEW rt \in BOOLEAN,
         NEW id \in Clamp, setscheduler_uclamp(uclamp_req[t], attr, rt)[id].user
  PROVE  /\ Users(t, attr, id)
         /\ setscheduler_uclamp(uclamp_req[t], attr, rt)[id].se.value = Asked(t, attr, id)
         /\ Asked(t, attr, id) \in 0..Scale
<1> DEFINE given == id \in DOMAIN attr.util /\ attr.util[id] # -1
           r == setscheduler_uclamp(uclamp_req[t], attr, rt)[id]
<1>1. id \in DOMAIN attr.util => attr.util[id] \in -1..Scale
  BY DEF Argument
<1>2. CASE given
  <2>1. attr.util[id] \in 0..Scale
    BY <1>1, <1>2
  <2>2. r = Request(attr.util[id], TRUE)
    BY <1>2 DEF setscheduler_uclamp
  <2>3. Request(attr.util[id], TRUE).se.value = attr.util[id]
    BY <2>1, InRange
  <2> QED
    BY <1>2, <2>1, <2>2, <2>3 DEF Users, Asked
<1>3. CASE ~given /\ uclamp_reset(attr, id, uclamp_req[t][id].user)
  <2>1. r = Request(IF rt /\ id = "min" THEN sysctl["rt"] ELSE uclamp_none(id), FALSE)
    BY <1>3 DEF setscheduler_uclamp
  <2> QED
    BY <2>1, UserOf
<1>4. CASE ~given /\ ~uclamp_reset(attr, id, uclamp_req[t][id].user)
  <2>1. r = uclamp_req[t][id]
    BY <1>4 DEF setscheduler_uclamp
  <2>2. id \notin DOMAIN attr.util
    BY <1>4 DEF uclamp_reset
  <2> QED
    BY <2>1, <2>2 DEF Users, Asked, UserInv, UserValues
<1> QED
  BY <1>2, <1>3, <1>4

LEMMA SchedulerUser ==
  ASSUME UserInv, NEW t \in Task, NEW attr \in Argument, SetScheduler(t, attr),
         t \notin overtaken' => Agreed(t, attr), stage[t] # "none",
         overtaken \subseteq overtaken',
         NEW left \in SUBSET setattr, setattr' = Overtakes(t, left)
  PROVE  UserInv'
<1> DEFINE pol == IF attr.policy = "keep" THEN policy[t] ELSE attr.policy
           rt == rt_task(pol, boosted[t])
           r == setscheduler_uclamp(uclamp_req[t], attr, rt)
<1>1. uclamp_req' = [uclamp_req EXCEPT ![t] = r] /\ stage' = stage
  BY DEF SetScheduler
<1>2. rt \in BOOLEAN /\ r = [id \in Clamp |-> r[id]]
  BY DEF rt_task, setscheduler_uclamp
<1> HIDE DEF r, rt
<1>3. uclamp_req'[t] = r /\ \A u \in Task \ {t} : uclamp_req'[u] = uclamp_req[u]
  BY <1>1 DEF UserInv, UserShape
<1>4. \A id \in Clamp : r[id].user =>
        /\ Users(t, attr, id)
        /\ r[id].se.value = Asked(t, attr, id)
        /\ Asked(t, attr, id) \in 0..Scale
  BY <1>2, UsedAsAsked DEF r
<1>5. \A x \in setattr' : x \in [task : Task, attr : Argument, late : BOOLEAN] /\
        \E y \in setattr : x.task = y.task /\ x.attr = y.attr /\ x.late = (y.task = t \/ y.late)
  <2> SUFFICES ASSUME NEW x \in setattr'
               PROVE  /\ x \in [task : Task, attr : Argument, late : BOOLEAN]
                      /\ \E y \in setattr :
                           x.task = y.task /\ x.attr = y.attr /\ x.late = (y.task = t \/ y.late)
    OBVIOUS
  <2>1. PICK y \in left : x = [y EXCEPT !.late = (y.task = t) \/ @]
    BY DEF Overtakes
  <2>2. y \in setattr /\ y \in [task : Task, attr : Argument, late : BOOLEAN]
    BY DEF UserInv, UserShape
  <2>3. x = [task |-> y.task, attr |-> y.attr, late |-> (y.task = t) \/ y.late]
    BY <2>1, <2>2
  <2> QED
    BY <2>2, <2>3
<1>6. UserShape'
  <2>1. uclamp_req' = [u \in Task |-> [id \in Clamp |-> uclamp_req'[u][id]]]
    BY <1>1, <1>2 DEF UserInv, UserShape
  <2> QED
    BY <2>1, <1>1, <1>5 DEF UserInv, UserShape
<1>7. UserValues'
  <2>1. ASSUME NEW u \in Task, NEW id \in Clamp, uclamp_req'[u][id].user
        PROVE  uclamp_req'[u][id].se.value \in 0..Scale
    <3>1. CASE u = t
      BY <2>1, <3>1, <1>3, <1>4
    <3>2. CASE u # t
      BY <2>1, <3>2, <1>3 DEF UserInv, UserValues
    <3> QED
      BY <3>1, <3>2
  <2> QED
    BY <2>1 DEF UserValues
<1>8. UserOrdered'
  <2>1. ASSUME NEW u \in Task, stage[u] # "none", u \notin overtaken' PROVE Ordered(u)'
    <3>1. CASE u = t
      <4>1. Agreed(t, attr)
        BY <2>1, <3>1
      <4> QED
        BY <3>1, <4>1, <1>3, <1>4 DEF Agreed, Ordered, Clamp
    <3>2. CASE u # t
      <4>1. Ordered(u)
        BY <2>1 DEF UserInv, UserOrdered, Visible, Ordered
      <4> QED
        BY <4>1, <3>2, <1>3 DEF Ordered
    <3> QED
      BY <3>1, <3>2
  <2> QED
    BY <2>1, <1>1 DEF UserOrdered, Visible, Ordered
<1>9. Checked'
  <2>1. ASSUME NEW x \in setattr'
        PROVE  stage[x.task] # "none" /\ (~x.late => Agreed(x.task, x.attr)')
    <3>1. PICK y \in setattr :
            x.task = y.task /\ x.attr = y.attr /\ x.late = (y.task = t \/ y.late)
      BY <1>5
    <3>2. y.task \in Task
      BY DEF UserInv, UserShape
    <3>3. stage[y.task] # "none" /\ (~y.late => Agreed(y.task, y.attr))
      BY DEF UserInv, Checked
    <3>4. y.task # t => (Agreed(y.task, y.attr)' <=> Agreed(y.task, y.attr))
      BY <1>3, <3>2 DEF Agreed, Users, Asked
    <3> QED
      BY <3>1, <3>3, <3>4
  <2> QED
    BY <2>1, <1>1 DEF Checked
<1> QED
  BY <1>6, <1>7, <1>8, <1>9 DEF UserInv

LEMMA SetAttrUser == ASSUME UserInv, NEW x \in setattr, SetAttr(x) PROVE UserInv'
<1>1. x.task \in Task /\ x.attr \in Argument
  BY DEF UserInv, UserShape
<1>2. overtaken \subseteq overtaken' /\ (x.late => x.task \in overtaken')
  BY DEF SetAttr
<1>3. stage[x.task] # "none" /\ (~x.late => Agreed(x.task, x.attr))
  BY DEF UserInv, Checked
<1>4. setattr \ {x} \in SUBSET setattr
  OBVIOUS
<1> QED
  BY <1>1, <1>2, <1>3, <1>4, SchedulerUser DEF SetAttr

LEMMA SetPolicyUser ==
  ASSUME UserInv, NEW t \in Task, NEW attr \in Attrs, SetPolicy(t, attr)
  PROVE  UserInv'
<1>1. attr \in Argument /\ DOMAIN attr.util = {} /\ stage[t] # "none"
  BY InputAssumption DEF SetPolicy
<1>2. overtaken' = overtaken /\ setattr' = Overtakes(t, setattr) /\ SetScheduler(t, attr)
  BY DEF SetPolicy
<1>3. t \notin overtaken => Agreed(t, attr)
  BY <1>1 DEF UserInv, UserOrdered, Visible, Agreed, Users, Asked
<1>4. setattr \in SUBSET setattr
  OBVIOUS
<1> QED
  BY <1>1, <1>2, <1>3, <1>4, SchedulerUser

-----------------------------------------------------------------------------
(* The default is written only where the user has no clamp, or not yet.    *)
Defaults(t) ==
  \/ uclamp_req' = uclamp_req
  \/ /\ uclamp_req' = [uclamp_req EXCEPT ![t]["min"] = Request(sysctl["rt"], FALSE)]
     /\ ~uclamp_req[t]["min"].user

LEMMA SyncUser ==
  ASSUME UserInv, NEW t \in Task, Defaults(t), UNCHANGED <<setattr, overtaken>>,
         \/ stage' = stage
         \/ stage[t] # "none" /\ \E s \in {"sync", "live"} : stage' = [stage EXCEPT ![t] = s]
  PROVE  UserInv'
<1>1. \A u \in Task : stage'[u] # "none" <=> stage[u] # "none"
  BY DEF UserInv, UserShape
<1>2. \A u \in Task, id \in Clamp :
        /\ uclamp_req'[u][id].user <=> uclamp_req[u][id].user
        /\ uclamp_req[u][id].user => uclamp_req'[u][id] = uclamp_req[u][id]
        /\ id # "min" => uclamp_req'[u][id] = uclamp_req[u][id]
  <2>1. CASE uclamp_req' = uclamp_req
    BY <2>1
  <2>2. CASE /\ uclamp_req' = [uclamp_req EXCEPT ![t]["min"] = Request(sysctl["rt"], FALSE)]
             /\ ~uclamp_req[t]["min"].user
    <3>1. /\ uclamp_req'[t]["min"] = Request(sysctl["rt"], FALSE)
          /\ uclamp_req'[t]["max"] = uclamp_req[t]["max"]
          /\ \A u \in Task \ {t} : uclamp_req'[u] = uclamp_req[u]
      BY <2>2 DEF UserInv, UserShape, Clamp
    <3>2. ~Request(sysctl["rt"], FALSE).user
      BY UserOf
    <3>3. ~uclamp_req'[t]["min"].user /\ ~uclamp_req[t]["min"].user
      BY <2>2, <3>1, <3>2
    <3> QED
      BY <3>1, <3>3 DEF Clamp
  <2> QED
    BY <2>1, <2>2 DEF Defaults
<1>3. UserShape'
  <2>1. uclamp_req' = [u \in Task |-> [id \in Clamp |-> uclamp_req'[u][id]]]
    <3>1. uclamp_req = [u \in Task |-> [id \in Clamp |-> uclamp_req[u][id]]]
      BY DEF UserInv, UserShape
    <3>2. CASE uclamp_req' = uclamp_req
      BY <3>1, <3>2
    <3>3. CASE uclamp_req' # uclamp_req
      <4> DEFINE x == [uclamp_req[t] EXCEPT !["min"] = Request(sysctl["rt"], FALSE)]
      <4>1. uclamp_req' = [uclamp_req EXCEPT ![t] = x]
        BY <3>3 DEF Defaults
      <4>2. x = [id \in Clamp |-> x[id]]
        BY <3>1
      <4> HIDE DEF x
      <4> QED
        BY <3>1, <4>1, <4>2
    <3> QED
      BY <3>2, <3>3
  <2>2. stage' \in [Task -> {"none", "new", "sync", "live"}]
    BY DEF UserInv, UserShape
  <2> QED
    BY <2>1, <2>2 DEF UserInv, UserShape
<1>4. UserValues'
  BY <1>2 DEF UserInv, UserValues
<1>5. UserOrdered'
  BY <1>1, <1>2 DEF UserInv, UserOrdered, Visible, Clamp
<1>6. ASSUME NEW u \in Task, NEW a \in Argument, Agreed(u, a) PROVE Agreed(u, a)'
  BY <1>2, <1>6 DEF Agreed, Users, Asked, Clamp
<1>7. Checked'
  BY <1>1, <1>6 DEF UserInv, UserShape, Checked
<1> QED
  BY <1>3, <1>4, <1>5, <1>7 DEF UserInv

(* A child has its parent's request, or none.                              *)
LEMMA ForkUser ==
  ASSUME UserInv, NEW t \in Task, NEW child \in Task, NEW reset \in Roof,
         Fork(t, child, reset)
  PROVE  UserInv'
<1>1. /\ stage[t] # "none" /\ stage[child] = "none"
      /\ stage' = [stage EXCEPT ![child] = "new"] /\ setattr' = setattr
      /\ overtaken \subseteq overtaken' /\ (~reset /\ t \in overtaken => child \in overtaken')
  BY DEF Fork
<1>2. uclamp_req' = [uclamp_req EXCEPT ![child] = IF reset THEN NoRequest ELSE uclamp_req[t]]
  BY DEF Fork, uclamp_fork
<1>3. /\ \A u \in Task \ {child} : uclamp_req'[u] = uclamp_req[u] /\ stage'[u] = stage[u]
      /\ uclamp_req'[child] = IF reset THEN NoRequest ELSE uclamp_req[t]
  BY <1>1, <1>2 DEF UserInv, UserShape
<1>4. \A id \in Clamp : ~NoRequest[id].user
  BY UserOf DEF NoRequest
<1>5. UserShape'
  <2>1. uclamp_req' = [u \in Task |-> [id \in Clamp |-> uclamp_req'[u][id]]]
    BY <1>2 DEF UserInv, UserShape, NoRequest
  <2> QED
    BY <2>1, <1>1 DEF UserInv, UserShape
<1>6. UserValues'
  BY <1>3, <1>4 DEF UserInv, UserValues
<1>7. UserOrdered'
  <2>1. ASSUME NEW u \in Task, stage'[u] # "none", u \notin overtaken' PROVE Ordered(u)'
    <3>1. CASE u # child
      <4>1. Ordered(u)
        BY <2>1, <3>1, <1>1, <1>3 DEF UserInv, UserOrdered, Visible, Ordered
      <4> QED
        BY <3>1, <4>1, <1>3 DEF Ordered
    <3>2. CASE u = child /\ reset
      BY <3>2, <1>3, <1>4 DEF Ordered, Clamp
    <3>3. CASE u = child /\ ~reset
      <4>1. Ordered(t)
        BY <2>1, <3>3, <1>1 DEF UserInv, UserOrdered, Visible, Ordered
      <4> QED
        BY <3>3, <4>1, <1>3 DEF Ordered
    <3> QED
      BY <3>1, <3>2, <3>3
  <2> QED
    BY <2>1 DEF UserOrdered, Visible, Ordered
<1>8. Checked'
  <2>1. \A x \in setattr : x.task \in Task \ {child}
    BY <1>1 DEF UserInv, UserShape, Checked
  <2>2. \A u \in Task \ {child}, a \in Argument : Agreed(u, a)' <=> Agreed(u, a)
    BY <1>3 DEF Agreed, Users, Asked
  <2> QED
    BY <2>1, <2>2, <1>1, <1>3 DEF UserInv, UserShape, Checked
<1> QED
  BY <1>5, <1>6, <1>7, <1>8 DEF UserInv

-----------------------------------------------------------------------------
(* Steps that concern neither requests nor calls.                          *)
OtherStep ==
  \/ \E t \in Task, c \in CPU : Enqueue(t, c)
  \/ \E t \in Task : Dequeue(t) \/ rt_mutex_setprio(t) \/ WalkTask(t) \/ SyncTest(t)
  \/ \E g \in Group \ {Root} : GroupAlloc(g) \/ GroupOnline(g) \/ GroupUpdate(g)
  \/ \E g \in Group, id \in Clamp, v \in Limits : cpu_uclamp_write(g, id, v)
  \/ \E g \in Group : WalkGroup(g)
  \/ WalkStore
  \/ \E t \in Task, g \in Group : MoveCss(t, g)
  \/ \E t \in Task : sched_move_task(t)
  \/ \E k \in Knob : \E v \in Written[k] : SysctlWrite(k, v)
  \/ SysctlUndo \/ SysctlDefault \/ SysctlRtDefault

LEMMA OtherUser == ASSUME UserInv, OtherStep PROVE UserInv'
<1> USE DEF taskVars, histVars
<1> DEFINE Same == UNCHANGED <<stage, uclamp_req, setattr, overtaken>>
<1>1. ASSUME NEW t \in Task, NEW c \in CPU, Enqueue(t, c) PROVE Same
  BY <1>1 DEF Enqueue
<1>2. ASSUME NEW t \in Task,
             Dequeue(t) \/ rt_mutex_setprio(t) \/ WalkTask(t) \/ SyncTest(t)
      PROVE  Same
  BY <1>2 DEF Dequeue, rt_mutex_setprio, WalkTask, SyncTest
<1>3. ASSUME NEW g \in Group, GroupAlloc(g) \/ GroupOnline(g) \/ GroupUpdate(g) PROVE Same
  BY <1>3 DEF GroupAlloc, GroupOnline, GroupUpdate
<1>4. ASSUME NEW g \in Group, NEW id \in Clamp, NEW v \in Limits, cpu_uclamp_write(g, id, v)
      PROVE  Same
  BY <1>4 DEF cpu_uclamp_write
<1>5. ASSUME NEW g \in Group, WalkGroup(g) PROVE Same
  BY <1>5 DEF WalkGroup
<1>6. ASSUME WalkStore PROVE Same
  BY <1>6 DEF WalkStore
<1>7. ASSUME NEW t \in Task, NEW g \in Group, MoveCss(t, g) PROVE Same
  BY <1>7 DEF MoveCss
<1>8. ASSUME NEW t \in Task, sched_move_task(t) PROVE Same
  BY <1>8 DEF sched_move_task
<1>9. ASSUME NEW k \in Knob, NEW v \in Written[k], SysctlWrite(k, v) PROVE Same
  BY <1>9 DEF SysctlWrite
<1>10. ASSUME SysctlUndo \/ SysctlDefault \/ SysctlRtDefault PROVE Same
  BY <1>10 DEF SysctlUndo, SysctlDefault, SysctlRtDefault
<1>11. Same
  BY <1>1, <1>2, <1>3, <1>4, <1>5, <1>6, <1>7, <1>8, <1>9, <1>10 DEF OtherStep
<1> QED
  BY <1>11, UserStutter

LEMMA StepUser == ASSUME UserInv, [Next]_vars PROVE UserInv'
<1>1. CASE OtherStep
  BY <1>1, OtherUser
<1>2. ASSUME NEW t \in Task, NEW a \in Attrs, SetAttrCheck(t, a) PROVE UserInv'
  BY <1>2, CheckUser
<1>3. ASSUME NEW t \in Task, NEW a \in Attrs, SetPolicy(t, a) PROVE UserInv'
  BY <1>3, SetPolicyUser
<1>4. ASSUME NEW x \in setattr, SetAttr(x) PROVE UserInv'
  BY <1>4, SetAttrUser
<1>5. ASSUME NEW t \in Task, NEW child \in Task, NEW reset \in Roof, Fork(t, child, reset)
      PROVE  UserInv'
  BY <1>5, ForkUser
<1>6. ASSUME NEW t \in Task, uclamp_post_fork(t) \/ PostForkSync(t) PROVE UserInv'
  <2>1. Defaults(t) /\ UNCHANGED <<setattr, overtaken>> /\ stage[t] # "none"
    BY <1>6
       DEF uclamp_post_fork, PostForkSync, __uclamp_update_util_min_rt_default, Defaults,
           histVars
  <2>2. \E s \in {"sync", "live"} : stage' = [stage EXCEPT ![t] = s]
    BY <1>6 DEF uclamp_post_fork, PostForkSync
  <2> QED
    BY <2>1, <2>2, SyncUser
<1>7. ASSUME NEW t \in Task, SyncTask(t) PROVE UserInv'
  BY <1>7, SyncUser DEF SyncTask, __uclamp_update_util_min_rt_default, Defaults
<1>8. CASE UNCHANGED vars
  BY <1>8, UserStutter DEF vars, taskVars, histVars
<1> QED
  BY <1>1, <1>2, <1>3, <1>4, <1>5, <1>6, <1>7, <1>8 DEF Next, OtherStep

(* Userspace never leaves a task with a minimum above its maximum, however *)
(* many calls are checked, delayed and used in any order, and whatever     *)
(* forks and sysctl writes come between, unless another call overtook one  *)
(* between uclamp_validate() and its use.                                  *)
THEOREM UserStaysOrdered == Spec => []UserOrdered
<1>1. UserInv => UserOrdered
  BY DEF UserInv
<1> QED
  BY <1>1, InitUser, StepUser, PTL DEF Spec

-----------------------------------------------------------------------------
(* Buckets.  Larger values never come into lower buckets.                  *)
LEMMA Delta == UCLAMP_BUCKET_DELTA \in Nat \ {0}
<1>1. Buckets \in 1..Scale /\ Scale \in Nat /\ Buckets \div 2 \in Nat
  BY ScaleAssumption, BucketAssumption
<1>2. ASSUME NEW n \in Nat, NEW b \in Nat, 0 < b, b <= n PROVE n \div b \in Nat \ {0}
  BY <1>2
<1> QED
  BY <1>1, <1>2 DEF UCLAMP_BUCKET_DELTA

LEMMA DivGrows ==
  ASSUME NEW d \in Nat \ {0}, NEW v \in Nat, NEW w \in Nat, v <= w
  PROVE  v \div d \in Nat /\ v \div d <= w \div d
BY Z3

LEMMA BucketGrows ==
  ASSUME NEW v \in Nat, NEW w \in Nat, v <= w
  PROVE  uclamp_bucket_id(v) \in Bucket /\ uclamp_bucket_id(v) <= uclamp_bucket_id(w)
BY Delta, DivGrows, BucketAssumption, ScaleAssumption DEF uclamp_bucket_id, Least, Bucket

-----------------------------------------------------------------------------
(* Counting, in two versions.  As long as every value fits its bit field a *)
(* clamp is in the bucket of its value, and how is "exact"; for any values *)
(* the parts that do not say so hold.  Counted: the counters and values of *)
(* one clamp's buckets are those of the tasks A, whose clamps are u.  Top: *)
(* the runqueue shows no more than some bucket that is used, "exact" also  *)
(* no less than any.                                                       *)
Good(se, how) ==
  se \in Se /\ (how = "exact" => se.bucket = uclamp_bucket_id(se.value))
Members(A, u, id, b) == {t \in A : u[t][id].bucket = b}

Counted(q, id, A, u, how) ==
  /\ \A t \in A : Good(u[t][id], how)
  /\ \A b \in Bucket : q.tasks[id][b] = Cardinality(Members(A, u, id, b))
  /\ \A b \in Bucket : q.tasks[id][b] = 0 => q.bucket[id][b] = 0
  /\ how = "exact" =>
       \A b \in Bucket : q.tasks[id][b] > 0 => uclamp_bucket_id(q.bucket[id][b]) = b
  /\ \A t \in A : u[t][id].value <= q.bucket[id][u[t][id].bucket]

Top(q, id, how) ==
  /\ how = "exact" => \A b \in Bucket : q.bucket[id][b] <= q.value[id]
  /\ \E b \in Bucket : q.tasks[id][b] > 0 /\ q.value[id] <= q.bucket[id][b]

\* p keeps everything of q that belongs to the other clamp.
OthersKept(p, q, id) ==
  \A j \in Clamp \ {id} :
    p.tasks[j] = q.tasks[j] /\ p.bucket[j] = q.bucket[j] /\ p.value[j] = q.value[j]

\* One bucket rewritten.
Rewritten(q, id, b, n, v) == [q EXCEPT !.tasks[id][b] = n, !.bucket[id][b] = v]

LEMMA QueueFields ==
  ASSUME NEW q \in Queue, NEW id \in Clamp, NEW b \in Bucket, NEW n \in Nat, NEW v \in Value
  PROVE  LET p == Rewritten(q, id, b, n, v)
         IN  /\ p \in Queue /\ OthersKept(p, q, id) /\ p.idle = q.idle /\ p.value = q.value
             /\ \A a \in Bucket : /\ p.tasks[id][a] = IF a = b THEN n ELSE q.tasks[id][a]
                                  /\ p.bucket[id][a] = IF a = b THEN v ELSE q.bucket[id][a]
BY DEF Queue, OthersKept, Rewritten

LEMMA QueueValue ==
  ASSUME NEW q \in Queue, NEW id \in Clamp, NEW v \in Value
  PROVE  LET p == [q EXCEPT !.value[id] = v]
         IN  /\ p \in Queue /\ OthersKept(p, q, id) /\ p.idle = q.idle /\ p.value[id] = v
             /\ p.tasks = q.tasks /\ p.bucket = q.bucket
BY DEF Queue, OthersKept

LEMMA QueueIdle ==
  ASSUME NEW q \in Queue, NEW v \in BOOLEAN
  PROVE  LET p == [q EXCEPT !.idle = v]
         IN  /\ p \in Queue /\ p.idle = v /\ p.value = q.value
             /\ p.tasks = q.tasks /\ p.bucket = q.bucket
BY DEF Queue

\* u and w agree on the clamp id of the tasks A; t joins A, giving B; q shows A.
Agree(u, w, id, A) == \A s \in A : w[s][id] = u[s][id]
Joins(t, A, B) == t \notin A /\ \A s : s \in B <=> s \in A \/ s = t
Leaves(t, A, B) == t \in A /\ \A s : s \in B <=> s \in A /\ s # t
Shown(q, id, A, how) ==
  IF A = {} THEN q.idle \/ q.value[id] = 0 ELSE ~q.idle /\ Top(q, id, how)

LEMMA MembersAdd ==
  ASSUME NEW A, IsFiniteSet(A), NEW t, t \notin A, NEW u, NEW w, NEW id \in Clamp,
         \A s \in A : w[s][id] = u[s][id], NEW b
  PROVE  /\ IsFiniteSet(Members(A, u, id, b))
         /\ Cardinality(Members(A, u, id, b)) \in Nat
         /\ Cardinality(Members(A \cup {t}, w, id, b)) =
              IF b = w[t][id].bucket THEN Cardinality(Members(A, u, id, b)) + 1
              ELSE Cardinality(Members(A, u, id, b))
<1>1. IsFiniteSet(Members(A, u, id, b)) /\ t \notin Members(A, u, id, b)
  BY FS_Subset DEF Members
<1>2. Cardinality(Members(A, u, id, b)) \in Nat
  BY <1>1, FS_CardinalityType
<1>3. Members(A \cup {t}, w, id, b) = IF b = w[t][id].bucket THEN Members(A, u, id, b) \cup {t}
                                      ELSE Members(A, u, id, b)
  BY DEF Members
<1> QED
  BY <1>1, <1>2, <1>3, FS_AddElement

LEMMA MembersLose ==
  ASSUME NEW A, IsFiniteSet(A), NEW t, NEW B, Leaves(t, A, B), NEW u, NEW w,
         NEW id \in Clamp, Agree(u, w, id, B), NEW b
  PROVE  Cardinality(Members(B, w, id, b)) =
           IF b = u[t][id].bucket THEN Cardinality(Members(A, u, id, b)) - 1
           ELSE Cardinality(Members(A, u, id, b))
<1>1. IsFiniteSet(Members(A, u, id, b))
  BY FS_Subset DEF Members
<1>2. Cardinality(Members(A, u, id, b)) \in Nat
  BY <1>1, FS_CardinalityType
<1>3. Members(B, w, id, b) = IF b = u[t][id].bucket THEN Members(A, u, id, b) \ {t}
                             ELSE Members(A, u, id, b)
  BY DEF Members, Leaves, Agree
<1>4. b = u[t][id].bucket <=> t \in Members(A, u, id, b)
  BY DEF Members, Leaves
<1> QED
  BY <1>1, <1>2, <1>3, <1>4, FS_RemoveElement

\* Bucket values follow the order of the buckets.
LEMMA BucketOrder ==
  ASSUME NEW v \in Value, NEW w \in Value, uclamp_bucket_id(v) < uclamp_bucket_id(w)
  PROVE  v <= w
<1>1. v \in Nat /\ w \in Nat /\ uclamp_bucket_id(v) \in Nat /\ uclamp_bucket_id(w) \in Nat
  BY BucketGrows, ScaleAssumption, BucketAssumption DEF Value, Bucket
<1>2. w <= v => uclamp_bucket_id(w) <= uclamp_bucket_id(v)
  BY <1>1, BucketGrows
<1> QED
  BY <1>1, <1>2

LEMMA IncId ==
  ASSUME NEW how, NEW q \in Queue, NEW id \in Clamp, NEW A, IsFiniteSet(A), NEW t, NEW B,
         Joins(t, A, B), NEW u, NEW w, Agree(u, w, id, A), Good(w[t][id], how),
         Counted(q, id, A, u, how), Shown(q, id, A, how)
  PROVE  LET p == uclamp_rq_inc_id(q, id, w[t][id])
         IN  /\ p \in Queue /\ OthersKept(p, q, id) /\ p.idle = q.idle
             /\ Counted(p, id, B, w, how) /\ Top(p, id, how)
<1> SUFFICES ASSUME t \notin A, \A s : s \in B <=> s \in A \/ s = t,
                    \A s \in A : w[s][id] = u[s][id],
                    IF A = {} THEN q.idle \/ q.value[id] = 0 ELSE ~q.idle /\ Top(q, id, how)
             PROVE  LET p == uclamp_rq_inc_id(q, id, w[t][id])
                    IN  /\ p \in Queue /\ OthersKept(p, q, id) /\ p.idle = q.idle
                        /\ Counted(p, id, B, w, how) /\ Top(p, id, how)
  BY DEF Joins, Agree, Shown
<1> DEFINE se == w[t][id]
           b == se.bucket
           local == IF q.tasks[id][b] = 0 THEN se.value ELSE Most(q.bucket[id][b], se.value)
           value == Most(IF q.idle THEN se.value ELSE q.value[id], se.value)
           r == Rewritten(q, id, b, q.tasks[id][b] + 1, local)
           p == [r EXCEPT !.value[id] = value]
<1>1. /\ se.value \in Value /\ b \in Bucket /\ Value \subseteq Nat
      /\ how = "exact" => b = uclamp_bucket_id(se.value)
  BY ScaleAssumption DEF Good, Se, Value
<1>2. /\ q.tasks[id] \in [Bucket -> Nat] /\ q.bucket[id] \in [Bucket -> Value]
      /\ q.value[id] \in Value /\ q.idle \in BOOLEAN
  BY DEF Queue
<1>3. /\ local \in Value /\ value \in Value
      /\ se.value <= local /\ se.value <= value
      /\ q.bucket[id][b] <= local \/ q.tasks[id][b] = 0
      /\ local = se.value \/ (local = q.bucket[id][b] /\ q.tasks[id][b] # 0)
      /\ ~q.idle => q.value[id] <= value
      /\ value = se.value \/ (value = q.value[id] /\ ~q.idle /\ se.value < q.value[id])
  <2>1. q.bucket[id][b] \in Nat /\ q.value[id] \in Nat /\ se.value \in Nat
    BY <1>1, <1>2
  <2> HIDE DEF se, b
  <2>2. /\ local \in Value /\ se.value <= local
        /\ q.bucket[id][b] <= local \/ q.tasks[id][b] = 0
        /\ local = se.value \/ (local = q.bucket[id][b] /\ q.tasks[id][b] # 0)
    BY <1>1, <1>2, <2>1 DEF Most
  <2>3. /\ value \in Value /\ se.value <= value
        /\ ~q.idle => q.value[id] <= value
        /\ value = se.value \/ (value = q.value[id] /\ ~q.idle /\ se.value < q.value[id])
    BY <1>1, <1>2, <2>1 DEF Most
  <2> QED
    BY <2>2, <2>3
<1> HIDE DEF se, local, value
<1>4. /\ r \in Queue /\ OthersKept(r, q, id) /\ r.idle = q.idle /\ r.value = q.value
      /\ \A a \in Bucket : /\ r.tasks[id][a] = IF a = b THEN q.tasks[id][b] + 1 ELSE q.tasks[id][a]
                           /\ r.bucket[id][a] = IF a = b THEN local ELSE q.bucket[id][a]
  <2>1. q.tasks[id][b] + 1 \in Nat
    BY <1>1, <1>2
  <2>2. LET x == Rewritten(q, id, b, q.tasks[id][b] + 1, local)
        IN  /\ x \in Queue /\ OthersKept(x, q, id) /\ x.idle = q.idle /\ x.value = q.value
            /\ \A a \in Bucket :
                 /\ x.tasks[id][a] = IF a = b THEN q.tasks[id][b] + 1 ELSE q.tasks[id][a]
                 /\ x.bucket[id][a] = IF a = b THEN local ELSE q.bucket[id][a]
    <3> HIDE DEF r
    <3>1. b \in Bucket /\ local \in Value
      BY <1>1, <1>3
    <3> QED
      BY <2>1, <3>1, QueueFields, SMTT(20)
  <2> QED
    BY <2>2 DEF r
<1> HIDE DEF r
<1>5. /\ p \in Queue /\ OthersKept(p, r, id) /\ p.idle = q.idle /\ p.value[id] = value
      /\ p.tasks = r.tasks /\ p.bucket = r.bucket
  BY <1>3, <1>4, QueueValue
<1>6. p = uclamp_rq_inc_id(q, id, se)
  BY <1>1, <1>2 DEF uclamp_rq_inc_id, p, r, local, value, Queue, Rewritten
<1> HIDE DEF p
<1>7. OthersKept(p, q, id)
  BY <1>4, <1>5 DEF OthersKept
<1>8. \A a \in Bucket : /\ p.tasks[id][a] = IF a = b THEN q.tasks[id][a] + 1 ELSE q.tasks[id][a]
                        /\ p.bucket[id][a] = IF a = b THEN local ELSE q.bucket[id][a]
  BY <1>4, <1>5
<1>9. \A a \in Bucket : q.tasks[id][a] \in Nat /\ q.bucket[id][a] \in Nat /\ q.bucket[id][a] \in Value
  BY <1>1, <1>2
<1>10. Counted(p, id, A \cup {t}, w, how)
  <2>1. \A s \in A \cup {t} : Good(w[s][id], how)
    BY DEF Counted
  <2>2. \A a \in Bucket : p.tasks[id][a] = Cardinality(Members(A \cup {t}, w, id, a))
    <3> TAKE a \in Bucket
    <3>1. q.tasks[id][a] = Cardinality(Members(A, u, id, a))
      BY DEF Counted
    <3>2. Cardinality(Members(A \cup {t}, w, id, a)) =
            IF a = b THEN Cardinality(Members(A, u, id, a)) + 1
            ELSE Cardinality(Members(A, u, id, a))
      BY MembersAdd DEF se
    <3> QED
      BY <1>8, <3>1, <3>2
  <2>3. \A a \in Bucket : p.tasks[id][a] = 0 => p.bucket[id][a] = 0
    BY <1>8, <1>9 DEF Counted
  <2>4. how = "exact" =>
          \A a \in Bucket : p.tasks[id][a] > 0 => uclamp_bucket_id(p.bucket[id][a]) = a
    <3> SUFFICES ASSUME how = "exact"
                 PROVE  \A a \in Bucket :
                          p.tasks[id][a] > 0 => uclamp_bucket_id(p.bucket[id][a]) = a
      OBVIOUS
    <3>1. uclamp_bucket_id(local) = b
      BY <1>1, <1>3, <1>9 DEF Counted
    <3> QED
      BY <1>8, <1>9, <3>1 DEF Counted
  <2>5. \A s \in A \cup {t} : w[s][id].value <= p.bucket[id][w[s][id].bucket]
    <3>1. w[t][id].value <= p.bucket[id][w[t][id].bucket]
      BY <1>1, <1>3, <1>8 DEF se
    <3>2. ASSUME NEW s \in A PROVE w[s][id].value <= p.bucket[id][w[s][id].bucket]
      <4>1. /\ u[s][id].value <= q.bucket[id][u[s][id].bucket] /\ Good(u[s][id], how)
            /\ w[s][id] = u[s][id]
        BY DEF Counted
      <4>2. u[s][id].bucket \in Bucket /\ u[s][id].value \in Nat
        BY <1>1, <4>1 DEF Good, Se
      <4>3. q.tasks[id][u[s][id].bucket] # 0
        <5>1. s \in Members(A, u, id, u[s][id].bucket)
          BY DEF Members
        <5>2. IsFiniteSet(Members(A, u, id, u[s][id].bucket))
          BY MembersAdd
        <5> QED
          BY <4>2, <5>1, <5>2, FS_EmptySet DEF Counted
      <4> QED
        BY <1>1, <1>3, <1>8, <1>9, <4>1, <4>2, <4>3
    <3> QED
      BY <3>1, <3>2
  <2> QED
    BY <2>1, <2>2, <2>3, <2>4, <2>5 DEF Counted
<1>11. Top(p, id, how)
  <2>0. b \in Bucket /\ p.tasks[id][b] > 0 /\ se.value \in Nat /\ local \in Nat /\ value \in Nat
        /\ q.value[id] \in Nat
    <3>1. p.tasks[id][b] > 0
      BY <1>1, <1>8, <1>9
    <3>2. se.value \in Nat /\ local \in Nat /\ value \in Nat /\ q.value[id] \in Nat
      BY <1>1, <1>2, <1>3
    <3> QED
      BY <1>1, <3>1, <3>2
  <2>1. CASE A = {}
    <3>1. \A a \in Bucket : q.tasks[id][a] = 0 /\ q.bucket[id][a] = 0
      <4> TAKE a \in Bucket
      <4>1. Members(A, u, id, a) = {}
        BY <2>1 DEF Members
      <4> QED
        BY <4>1, FS_EmptySet DEF Counted
    <3>2. local = se.value /\ value = se.value
      BY <1>3, <2>0, <2>1, <3>1
    <3> QED
      BY <1>5, <1>8, <2>0, <3>1, <3>2 DEF Top
  <2>2. CASE A # {}
    <3>1. Top(q, id, how) /\ ~q.idle
      BY <2>2
    <3>2. how = "exact" => \A a \in Bucket : p.bucket[id][a] <= value
      BY <1>3, <1>8, <1>9, <2>0, <3>1 DEF Top
    <3>3. PICK m \in Bucket : q.tasks[id][m] > 0 /\ q.value[id] <= q.bucket[id][m]
      BY <3>1 DEF Top
    <3>4. CASE value = se.value
      <4>1. value <= p.bucket[id][b]
        BY <1>3, <1>8, <2>0, <3>4
      <4> QED
        BY <1>5, <2>0, <3>2, <4>1 DEF Top
    <3>5. CASE value = q.value[id] /\ se.value < q.value[id]
      <4>1. value <= p.bucket[id][m] /\ p.tasks[id][m] > 0
        BY <1>3, <1>8, <1>9, <2>0, <3>3, <3>5
      <4> QED
        BY <1>5, <3>2, <4>1 DEF Top
    <3> QED
      BY <1>3, <3>4, <3>5
  <2> QED
    BY <2>1, <2>2
<1>12. A \cup {t} = B
  OBVIOUS
<1> QED
  BY <1>5, <1>6, <1>7, <1>10, <1>11, <1>12 DEF se

\* A set of naturals has a least member, a set of buckets a greatest.
LEMMA NatMin ==
  ASSUME NEW S \in SUBSET Nat, S # {}
  PROVE  \E x \in S : \A y \in S : x =< y
<1>1. PICK x \in S : \A y \in S : ~(<<y, x>> \in OpToRel(<, Nat))
  BY NatLessThanWellFounded, WFMin
<1>2. ASSUME NEW y \in S PROVE x =< y
  <2>1. <<y, x>> \in Nat \X Nat /\ <<y, x>>[1] = y /\ <<y, x>>[2] = x
    OBVIOUS
  <2>2. ~(y < x)
    BY <1>1, <2>1, Zenon DEF OpToRel
  <2> QED
    BY <2>2
<1> QED
  BY <1>2

LEMMA BucketMax ==
  ASSUME NEW S \in SUBSET Bucket, S # {}
  PROVE  Max(S) \in S /\ \A y \in S : y <= Max(S)
<1>1. Buckets \in Nat
  BY BucketAssumption, ScaleAssumption
<1> DEFINE D == {Buckets - 1 - y : y \in S}
<1>2. D \in SUBSET Nat /\ D # {}
  <2>1. ASSUME NEW y \in S PROVE Buckets - 1 - y \in Nat
    BY <1>1 DEF Bucket
  <2> QED
    BY <2>1
<1>3. PICK d \in D : \A e \in D : d <= e
  <2> HIDE DEF D
  <2> QED
    BY <1>2, NatMin
<1>4. PICK m \in S : d = Buckets - 1 - m
  OBVIOUS
<1>5. ASSUME NEW y \in S PROVE m >= y
  <2>1. Buckets - 1 - y \in D
    OBVIOUS
  <2>2. d <= Buckets - 1 - y
    BY <1>3, <2>1
  <2>3. m \in Int /\ y \in Int
    BY <1>1 DEF Bucket
  <2> QED
    BY <1>1, <1>4, <2>2, <2>3
<1>6. /\ (CHOOSE x \in S : \A y \in S : x >= y) \in S
      /\ \A y \in S : (CHOOSE x \in S : \A z \in S : x >= z) >= y
  BY <1>5
<1>7. S \subseteq Int
  BY <1>1 DEF Bucket
<1> QED
  BY <1>6, <1>7 DEF Max

LEMMA MembersEmpty ==
  ASSUME NEW how, NEW A, NEW u, NEW id \in Clamp, NEW b, NEW q, NEW s \in A, IsFiniteSet(A),
         Counted(q, id, A, u, how), b = u[s][id].bucket
  PROVE  b \in Bucket /\ q.tasks[id][b] \in Nat /\ q.tasks[id][b] > 0
<1>1. s \in Members(A, u, id, b) /\ IsFiniteSet(Members(A, u, id, b))
  BY FS_Subset DEF Members
<1>2. b \in Bucket
  BY DEF Counted, Good, Se
<1>3. Cardinality(Members(A, u, id, b)) \in Nat /\ Cardinality(Members(A, u, id, b)) # 0
  BY <1>1, FS_CardinalityType, FS_EmptySet
<1> QED
  BY <1>2, <1>3 DEF Counted

\* An empty queue has nothing in its buckets, a used bucket is somebody's.
LEMMA NoMembers ==
  ASSUME NEW how, NEW u, NEW id \in Clamp, NEW q, Counted(q, id, {}, u, how)
  PROVE  \A b \in Bucket : q.tasks[id][b] = 0 /\ q.bucket[id][b] = 0
<1> TAKE b \in Bucket
<1>1. Members({}, u, id, b) = {}
  BY DEF Members
<1> QED
  BY <1>1, FS_EmptySet DEF Counted

LEMMA TopOfUsed ==
  ASSUME NEW how, NEW q \in Queue, NEW id \in Clamp, ~q.idle,
         NEW A, NEW u, IsFiniteSet(A), Counted(q, id, A, u, how), NEW v \in Value
  PROVE  LET p == uclamp_rq_max_value(q, id, v)
         IN  /\ p \in Queue /\ OthersKept(p, q, id) /\ Counted(p, id, A, u, how)
             /\ IF A = {} THEN IF id = "max" THEN p.idle ELSE ~p.idle /\ p.value["min"] = 0
                ELSE ~p.idle /\ Top(p, id, how)
<1> DEFINE used == {b \in Bucket : q.tasks[id][b] > 0}
           p == uclamp_rq_max_value(q, id, v)
<1>1. /\ q.tasks[id] \in [Bucket -> Nat] /\ q.bucket[id] \in [Bucket -> Value]
      /\ 0 \in Value /\ Value \subseteq Nat /\ Bucket \subseteq Nat
  BY ScaleAssumption, BucketAssumption DEF Queue, Value, Bucket
<1>2. CASE used = {}
  <2>1. A = {}
    BY <1>2, MembersEmpty
  <2>2. CASE id = "max"
    <3>1. p = [[q EXCEPT !.value[id] = v] EXCEPT !.idle = TRUE]
      BY <1>2, <2>2 DEF uclamp_rq_max_value, Queue
    <3> DEFINE r == [q EXCEPT !.value[id] = v]
    <3>2. /\ r \in Queue /\ OthersKept(r, q, id) /\ r.tasks = q.tasks /\ r.bucket = q.bucket
      BY QueueValue
    <3>3. p = [r EXCEPT !.idle = TRUE]
      BY <3>1
    <3> HIDE DEF r, p
    <3>4. /\ p \in Queue /\ p.idle /\ p.value = r.value
          /\ p.tasks = r.tasks /\ p.bucket = r.bucket
      BY <3>2, <3>3 DEF Queue
    <3> QED
      BY <2>1, <2>2, <3>2, <3>4 DEF OthersKept, Counted, p
  <2>3. CASE id = "min"
    <3>1. p = [q EXCEPT !.value[id] = 0]
      BY <1>2, <2>3 DEF uclamp_rq_max_value, uclamp_none
    <3> HIDE DEF p
    <3>2. /\ p \in Queue /\ OthersKept(p, q, id) /\ p.idle = q.idle /\ p.value[id] = 0
          /\ p.tasks = q.tasks /\ p.bucket = q.bucket
      BY <1>1, <3>1 DEF Queue, OthersKept
    <3> QED
      BY <2>1, <2>3, <3>2 DEF Counted, p
  <2> QED
    BY <2>2, <2>3 DEF Clamp
<1>3. CASE used # {}
  <2> DEFINE m == Max(used)
  <2>1. m \in used /\ \A y \in used : y <= m
    <3> HIDE DEF used
    <3>1. used \in SUBSET Bucket
      BY DEF used
    <3> QED
      BY <1>3, <3>1, BucketMax
  <2>2. p = [q EXCEPT !.value[id] = q.bucket[id][m]]
    BY <1>3 DEF uclamp_rq_max_value
  <2>3. m \in Bucket /\ q.tasks[id][m] > 0 /\ q.bucket[id][m] \in Value
    BY <1>1, <2>1
  <2>4. ASSUME how = "exact", NEW b \in Bucket PROVE q.bucket[id][b] <= q.bucket[id][m]
    <3>0. b \in Nat /\ m \in Nat /\ q.bucket[id][m] \in Nat /\ q.tasks[id][b] \in Nat
      BY <1>1, <2>3
    <3>1. CASE q.tasks[id][b] = 0
      BY <3>0, <3>1 DEF Counted
    <3>2. CASE q.tasks[id][b] > 0
      <4>1. b <= m
        BY <2>1, <3>2
      <4>2. uclamp_bucket_id(q.bucket[id][b]) = b /\ uclamp_bucket_id(q.bucket[id][m]) = m
        BY <2>3, <2>4, <3>2 DEF Counted
      <4>3. CASE b = m
        BY <3>0, <4>3
      <4>4. CASE b < m
        BY <1>1, <2>3, <4>2, <4>4, BucketOrder
      <4> QED
        BY <3>0, <4>1, <4>3, <4>4
    <3> QED
      BY <3>0, <3>1, <3>2
  <2>5. A # {}
    <3>1. ASSUME Counted(q, id, {}, u, how) PROVE FALSE
      <4>1. \A a \in Bucket : q.tasks[id][a] = 0
        BY <3>1, NoMembers
      <4> HIDE DEF m
      <4> QED
        BY <2>3, <4>1
    <3> QED
      BY <3>1
  <2> HIDE DEF m, p
  <2>6. /\ p \in Queue /\ OthersKept(p, q, id) /\ p.idle = q.idle
        /\ p.value[id] = q.bucket[id][m] /\ p.tasks = q.tasks /\ p.bucket = q.bucket
    BY <2>2, <2>3 DEF Queue, OthersKept
  <2>7. Top(p, id, how)
    <3>0. q.bucket[id][m] \in Nat
      BY <1>1, <2>3
    <3>1. p.value[id] <= p.bucket[id][m]
      BY <2>6, <3>0
    <3> QED
      BY <2>3, <2>4, <2>6, <3>1 DEF Top
  <2> QED
    BY <2>5, <2>6, <2>7 DEF Counted, p
<1> QED
  BY <1>2, <1>3

LEMMA DecId ==
  ASSUME NEW how, NEW q \in Queue, NEW id \in Clamp, NEW A, IsFiniteSet(A), NEW t, NEW B,
         Leaves(t, A, B), NEW u, NEW w, Agree(u, w, id, B), Counted(q, id, A, u, how), Top(q, id, how), ~q.idle
  PROVE  LET p == uclamp_rq_dec_id(q, id, u[t][id])
         IN  /\ p \in Queue /\ OthersKept(p, q, id) /\ Counted(p, id, B, w, how)
             /\ IF B = {} THEN IF id = "max" THEN p.idle ELSE ~p.idle /\ p.value["min"] = 0
                ELSE ~p.idle /\ Top(p, id, how)
<1> SUFFICES ASSUME t \in A, \A s \in A \ {t} : w[s][id] = u[s][id]
             PROVE  LET p == uclamp_rq_dec_id(q, id, u[t][id])
                    IN  /\ p \in Queue /\ OthersKept(p, q, id) /\ Counted(p, id, A \ {t}, w, how)
                        /\ IF A = {t} THEN IF id = "max" THEN p.idle
                                           ELSE ~p.idle /\ p.value["min"] = 0
                           ELSE ~p.idle /\ Top(p, id, how)
  <2>1. t \in A /\ \A s \in A \ {t} : w[s][id] = u[s][id]
    BY DEF Leaves, Agree
  <2>2. B = A \ {t} /\ (A = {t} <=> B = {})
    BY DEF Leaves
  <2> QED
    BY <2>1, <2>2
<1> DEFINE se == u[t][id]
           b == se.bucket
           last == q.tasks[id][b] <= 1
           n == IF last THEN 0 ELSE q.tasks[id][b] - 1
           v == IF last THEN 0 ELSE q.bucket[id][b]
           r == Rewritten(q, id, b, n, v)
           p == uclamp_rq_dec_id(q, id, se)
<1>1. /\ se.value \in Value /\ b \in Bucket /\ 0 \in Value
      /\ Value \subseteq Nat /\ Bucket \subseteq Nat
  BY ScaleAssumption, BucketAssumption DEF Counted, Good, Se, Value, Bucket
<1>2. /\ q.tasks[id] \in [Bucket -> Nat] /\ q.bucket[id] \in [Bucket -> Value]
      /\ q.value[id] \in Value
  BY DEF Queue
<1>3. q.tasks[id][b] \in Nat /\ q.tasks[id][b] > 0
  BY MembersEmpty
<1>4. n = q.tasks[id][b] - 1 /\ n \in Nat /\ v \in Value /\ (last => n = 0) /\ (~last => n > 0)
  <2> HIDE DEF se
  <2>1. q.bucket[id][b] \in Value
    BY <1>1, <1>2
  <2> QED
    BY <1>1, <1>3, <2>1
<1> HIDE DEF se
<1>5. p = IF last /\ q.bucket[id][b] >= q.value[id]
            THEN uclamp_rq_max_value(r, id, se.value) ELSE r
  <2>1. r = [q EXCEPT !.tasks[id][b] = IF last THEN 0 ELSE @ - 1,
                      !.bucket[id][b] = IF last THEN 0 ELSE @]
    BY <1>1, <1>2 DEF Rewritten, Queue
  <2> HIDE DEF r
  <2> QED
    BY <2>1 DEF uclamp_rq_dec_id
<1> HIDE DEF n, v, last, p
<1>6. /\ r \in Queue /\ OthersKept(r, q, id) /\ r.idle = q.idle /\ r.value = q.value
      /\ \A a \in Bucket : /\ r.tasks[id][a] = IF a = b THEN n ELSE q.tasks[id][a]
                           /\ r.bucket[id][a] = IF a = b THEN v ELSE q.bucket[id][a]
  <2> HIDE DEF r
  <2>1. b \in Bucket /\ n \in Nat /\ v \in Value
    BY <1>1, <1>4
  <2> QED
    BY <2>1, QueueFields DEF r
<1> HIDE DEF r
<1>7. \A a \in Bucket : q.tasks[id][a] \in Nat /\ q.bucket[id][a] \in Nat
  BY <1>1, <1>2
<1>8. IsFiniteSet(A \ {t})
  BY FS_RemoveElement
<1>9. Counted(r, id, A \ {t}, w, how)
  <2>1. \A s \in A \ {t} : Good(w[s][id], how)
    BY DEF Counted
  <2>2. \A a \in Bucket : r.tasks[id][a] = Cardinality(Members(A \ {t}, w, id, a))
    <3> TAKE a \in Bucket
    <3>1. q.tasks[id][a] = Cardinality(Members(A, u, id, a))
      BY DEF Counted
    <3> DEFINE R == A \ {t}
    <3>2. Leaves(t, A, R) /\ Agree(u, w, id, R)
      BY DEF Leaves, Agree
    <3>4. Cardinality(Members(R, w, id, a)) =
            IF a = u[t][id].bucket THEN Cardinality(Members(A, u, id, a)) - 1
            ELSE Cardinality(Members(A, u, id, a))
      <4> HIDE DEF R
      <4> QED
        BY <3>2, MembersLose
    <3>3. u[t][id].bucket = b
      BY DEF se
    <3> QED
      BY <1>4, <1>6, <3>1, <3>3, <3>4
  <2>3. \A a \in Bucket : r.tasks[id][a] = 0 => r.bucket[id][a] = 0
    BY <1>4, <1>6 DEF Counted, v
  <2>4. how = "exact" =>
          \A a \in Bucket : r.tasks[id][a] > 0 => uclamp_bucket_id(r.bucket[id][a]) = a
    <3>1. n > 0 => v = q.bucket[id][b] /\ q.tasks[id][b] > 0
      BY <1>3, <1>4 DEF v
    <3> QED
      BY <1>1, <1>6, <3>1 DEF Counted
  <2>5. ASSUME NEW s \in A \ {t} PROVE w[s][id].value <= r.bucket[id][w[s][id].bucket]
    <3> DEFINE c == w[s][id].bucket
    <3>1. c \in Bucket /\ w[s][id] = u[s][id] /\ w[s][id].value <= q.bucket[id][c]
      BY <2>1 DEF Counted, Good, Se
    <3>2. r.tasks[id][c] # 0
      <4>1. s \in Members(A \ {t}, w, id, c) /\ IsFiniteSet(Members(A \ {t}, w, id, c))
        BY <1>8, FS_Subset DEF Members
      <4> QED
        BY <2>2, <3>1, <4>1, FS_EmptySet
    <3>3. r.bucket[id][c] = q.bucket[id][c]
      BY <1>4, <1>6, <3>1, <3>2 DEF v
    <3> QED
      BY <3>1, <3>3
  <2> QED
    BY <2>1, <2>2, <2>3, <2>4, <2>5 DEF Counted
<1>10. CASE last /\ q.bucket[id][b] >= q.value[id]
  <2>1. p = uclamp_rq_max_value(r, id, se.value) /\ ~r.idle
    BY <1>5, <1>6, <1>10
  <2>2. /\ p \in Queue /\ OthersKept(p, r, id) /\ Counted(p, id, A \ {t}, w, how)
        /\ IF A \ {t} = {} THEN IF id = "max" THEN p.idle ELSE ~p.idle /\ p.value["min"] = 0
           ELSE ~p.idle /\ Top(p, id, how)
    <3>1. r \in Queue /\ ~r.idle /\ se.value \in Value
      BY <1>1, <1>6, <2>1
    <3> DEFINE R == A \ {t}
    <3>2. IsFiniteSet(R) /\ Counted(r, id, R, w, how)
      BY <1>8, <1>9
    <3> HIDE DEF R
    <3>3. LET x == uclamp_rq_max_value(r, id, se.value)
          IN  /\ x \in Queue /\ OthersKept(x, r, id) /\ Counted(x, id, R, w, how)
              /\ IF R = {} THEN IF id = "max" THEN x.idle ELSE ~x.idle /\ x.value["min"] = 0
                 ELSE ~x.idle /\ Top(x, id, how)
      BY <3>1, <3>2, TopOfUsed
    <3> QED
      BY <2>1, <3>3 DEF R
  <2>3. OthersKept(p, q, id)
    BY <1>6, <2>2 DEF OthersKept
  <2>4. A = {t} <=> A \ {t} = {}
    OBVIOUS
  <2> QED
    BY <2>2, <2>3, <2>4 DEF p, se
<1>11. CASE ~(last /\ q.bucket[id][b] >= q.value[id])
  <2>1. p = r /\ ~r.idle
    BY <1>5, <1>6, <1>11
  <2>2. PICK m \in Bucket : q.tasks[id][m] > 0 /\ q.value[id] <= q.bucket[id][m]
    BY DEF Top
  <2>3. r.tasks[id][m] > 0 /\ q.value[id] <= r.bucket[id][m]
    <3>0. q.bucket[id][b] \in Nat /\ q.value[id] \in Nat /\ q.bucket[id][m] \in Nat
      BY <1>1, <1>2, <1>7, <2>2
    <3>1. CASE m # b
      BY <1>6, <2>2, <3>1
    <3>2. CASE m = b
      <4>1. ~last
        BY <1>11, <2>2, <3>0, <3>2
      <4>2. v = q.bucket[id][b]
        BY <4>1 DEF v
      <4>3. n > 0
        BY <1>4, <4>1
      <4> QED
        BY <1>6, <2>2, <3>2, <4>2, <4>3
    <3> QED
      BY <3>1, <3>2
  <2>4. ASSUME how = "exact" PROVE \A a \in Bucket : r.bucket[id][a] <= q.value[id]
    <3>1. v <= q.value[id]
      <4>1. q.value[id] \in Nat
        BY <1>1, <1>2
      <4>2. q.bucket[id][b] <= q.value[id]
        BY <1>1, <2>4 DEF Top
      <4>3. 0 <= q.value[id]
        BY <4>1
      <4> QED
        BY <4>2, <4>3 DEF v
    <3> QED
      BY <1>6, <2>4, <3>1 DEF Top
  <2>5. Top(r, id, how)
    BY <1>6, <2>3, <2>4 DEF Top
  <2>6. A # {t}
    <3>1. ASSUME A = {t} PROVE FALSE
      <4>1. A \ {t} = {}
        BY <3>1
      <4>2. Counted(r, id, {}, w, how)
        BY <1>9, <4>1
      <4>3. r.tasks[id][m] = 0
        BY <2>2, <4>2, NoMembers
      <4> QED
        BY <2>3, <4>3
    <3> QED
      BY <3>1
  <2> QED
    BY <1>6, <1>9, <2>1, <2>5, <2>6 DEF p, se
<1> QED
  BY <1>10, <1>11

-----------------------------------------------------------------------------
(* Both clamps of a runqueue.                                              *)
\* What a runqueue shows of the tasks A, counted in it with the clamps u.
Accounted(q, A, u, how) ==
  /\ q \in Queue /\ IsFiniteSet(A)
  /\ \A id \in Clamp : Counted(q, id, A, u, how)
  /\ IF A = {} THEN q.idle /\ q.value["min"] = 0
     ELSE ~q.idle /\ \A id \in Clamp : Top(q, id, how)

LEMMA OtherClamp ==
  ASSUME NEW how, NEW p, NEW q, NEW id, NEW j \in Clamp \ {id}, OthersKept(p, q, id), NEW A, NEW u
  PROVE  /\ Counted(q, j, A, u, how) => Counted(p, j, A, u, how)
         /\ Top(q, j, how) => Top(p, j, how)
         /\ p.value[j] = q.value[j]
BY DEF OthersKept, Counted, Top

Busy(q) == [q EXCEPT !.idle = FALSE]

LEMMA MarkBusy ==
  ASSUME NEW how, NEW q \in Queue, NEW A, A # {}, IsFiniteSet(A), NEW u,
         \A id \in Clamp : Counted(q, id, A, u, how) /\ Top(q, id, how)
  PROVE  Accounted(Busy(q), A, u, how)
<1> DEFINE p == Busy(q)
<1>1. /\ p \in Queue /\ ~p.idle /\ p.value = q.value
      /\ p.tasks = q.tasks /\ p.bucket = q.bucket
  BY DEF Queue, Busy
<1> HIDE DEF p
<1> QED
  BY <1>1 DEF Accounted, Counted, Top, p

LEMMA IncKeeps ==
  ASSUME NEW how, NEW q, NEW A, NEW u, Accounted(q, A, u, how), NEW t, NEW B, Joins(t, A, B),
         NEW w, \A id \in Clamp : Good(w[t][id], how) /\ Agree(u, w, id, A)
  PROVE  Accounted(uclamp_rq_inc(q, w[t]), B, w, how)
<1> DEFINE p == uclamp_rq_inc_id(q, "min", w[t]["min"])
           r == uclamp_rq_inc_id(p, "max", w[t]["max"])
<1>1. /\ q \in Queue /\ IsFiniteSet(A)
      /\ \A id \in Clamp : Counted(q, id, A, u, how) /\ Good(w[t][id], how) /\ Agree(u, w, id, A)
      /\ IF A = {} THEN q.idle /\ q.value["min"] = 0
         ELSE ~q.idle /\ \A id \in Clamp : Top(q, id, how)
  BY DEF Accounted
<1>2. "min" \in Clamp /\ "max" \in Clamp \ {"min"} /\ "max" \in Clamp /\ "min" \in Clamp \ {"max"}
  BY DEF Clamp
<1>3. B = A \cup {t} /\ B # {} /\ IsFiniteSet(B)
  <2>1. B = A \cup {t}
    BY DEF Joins
  <2> QED
    BY <1>1, <2>1, FS_AddElement
<1>4. /\ p \in Queue /\ OthersKept(p, q, "min") /\ p.idle = q.idle
      /\ Counted(p, "min", B, w, how) /\ Top(p, "min", how)
  <2>1. Counted(q, "min", A, u, how) /\ Good(w[t]["min"], how) /\ Agree(u, w, "min", A)
    BY <1>1, <1>2
  <2>2. Shown(q, "min", A, how)
    BY <1>1, <1>2 DEF Shown
  <2> QED
    BY <1>1, <1>2, <2>1, <2>2, IncId
<1> HIDE DEF p
<1>5. Counted(p, "max", A, u, how) /\ (A # {} => Top(p, "max", how))
  BY <1>1, <1>2, <1>4, OtherClamp
<1>6. /\ r \in Queue /\ OthersKept(r, p, "max") /\ Counted(r, "max", B, w, how) /\ Top(r, "max", how)
  <2>1. Good(w[t]["max"], how) /\ Agree(u, w, "max", A)
    BY <1>1, <1>2
  <2>2. Shown(p, "max", A, how)
    BY <1>1, <1>4, <1>5 DEF Shown
  <2> QED
    BY <1>1, <1>2, <1>4, <1>5, <2>1, <2>2, IncId
<1> HIDE DEF r
<1>7. Counted(r, "min", B, w, how) /\ Top(r, "min", how)
  BY <1>2, <1>4, <1>6, OtherClamp
<1>8. \A id \in Clamp : Counted(r, id, B, w, how) /\ Top(r, id, how)
  BY <1>6, <1>7 DEF Clamp
<1>9. uclamp_rq_inc(q, w[t]) = Busy(r)
  BY DEF uclamp_rq_inc, p, r, Busy
<1> QED
  BY <1>3, <1>6, <1>8, <1>9, MarkBusy

LEMMA DecKeeps ==
  ASSUME NEW how, NEW q, NEW A, NEW u, Accounted(q, A, u, how), NEW t, NEW B, Leaves(t, A, B),
         NEW w, \A id \in Clamp : Agree(u, w, id, B)
  PROVE  Accounted(uclamp_rq_dec(q, u[t]), B, w, how)
<1> DEFINE p == uclamp_rq_dec_id(q, "min", u[t]["min"])
           r == uclamp_rq_dec_id(p, "max", u[t]["max"])
<1>1. /\ q \in Queue /\ IsFiniteSet(A) /\ ~q.idle
      /\ \A id \in Clamp : Counted(q, id, A, u, how) /\ Top(q, id, how)
  BY DEF Accounted, Leaves
<1>2. "min" \in Clamp /\ "max" \in Clamp \ {"min"} /\ "max" \in Clamp /\ "min" \in Clamp \ {"max"}
  BY DEF Clamp
<1>3. IsFiniteSet(B)
  <2>1. B = A \ {t}
    BY DEF Leaves
  <2> QED
    BY <1>1, <2>1, FS_RemoveElement
<1>4. /\ p \in Queue /\ OthersKept(p, q, "min") /\ Counted(p, "min", B, w, how) /\ ~p.idle
      /\ IF B = {} THEN p.value["min"] = 0 ELSE Top(p, "min", how)
  <2>1. Counted(q, "min", A, u, how) /\ Top(q, "min", how) /\ Agree(u, w, "min", B)
    BY <1>1, <1>2
  <2>2. /\ p \in Queue /\ OthersKept(p, q, "min") /\ Counted(p, "min", B, w, how)
        /\ IF B = {} THEN IF "min" = "max" THEN p.idle ELSE ~p.idle /\ p.value["min"] = 0
           ELSE ~p.idle /\ Top(p, "min", how)
    BY <1>1, <1>2, <2>1, DecId
  <2> QED
    BY <2>2
<1> HIDE DEF p
<1>5. Counted(p, "max", A, u, how) /\ Top(p, "max", how)
  BY <1>1, <1>2, <1>4, OtherClamp
<1>6. /\ r \in Queue /\ OthersKept(r, p, "max") /\ Counted(r, "max", B, w, how)
      /\ IF B = {} THEN r.idle ELSE ~r.idle /\ Top(r, "max", how)
  <2>1. Agree(u, w, "max", B)
    BY <1>2
  <2>2. /\ r \in Queue /\ OthersKept(r, p, "max") /\ Counted(r, "max", B, w, how)
        /\ IF B = {} THEN IF "max" = "max" THEN r.idle ELSE ~r.idle /\ r.value["min"] = 0
           ELSE ~r.idle /\ Top(r, "max", how)
    BY <1>1, <1>2, <1>4, <1>5, <2>1, DecId
  <2> QED
    BY <2>2
<1>7. r = uclamp_rq_dec(q, u[t])
  BY DEF uclamp_rq_dec, p, r
<1> HIDE DEF r
<1>8. /\ Counted(r, "min", B, w, how) /\ (B # {} => Top(r, "min", how))
      /\ (B = {} => r.value["min"] = 0)
  <2>1. /\ Counted(p, "min", B, w, how) => Counted(r, "min", B, w, how)
        /\ Top(p, "min", how) => Top(r, "min", how)
        /\ r.value["min"] = p.value["min"]
    BY <1>2, <1>6, OtherClamp
  <2> QED
    BY <1>4, <2>1
<1>9. \A id \in Clamp : Counted(r, id, B, w, how) /\ (B # {} => Top(r, id, how))
  BY <1>6, <1>8 DEF Clamp
<1> QED
  BY <1>3, <1>6, <1>7, <1>8, <1>9 DEF Accounted

LEMMA ReincId ==
  ASSUME NEW how, NEW q \in Queue, NEW id \in Clamp, NEW A, IsFiniteSet(A), NEW t, NEW B,
         Leaves(t, A, B), NEW u, NEW w, Agree(u, w, id, B), Good(w[t][id], how),
         Counted(q, id, A, u, how), Top(q, id, how), ~q.idle
  PROVE  LET p == uclamp_rq_inc_id(uclamp_rq_dec_id(q, id, u[t][id]), id, w[t][id])
         IN  /\ p \in Queue /\ OthersKept(p, q, id)
             /\ Counted(p, id, A, w, how) /\ Top(p, id, how)
             /\ id = "min" => ~p.idle
<1> DEFINE p == uclamp_rq_dec_id(q, id, u[t][id])
           r == uclamp_rq_inc_id(p, id, w[t][id])
<1>1. /\ p \in Queue /\ OthersKept(p, q, id) /\ Counted(p, id, B, w, how)
      /\ IF B = {} THEN IF id = "max" THEN p.idle ELSE ~p.idle /\ p.value["min"] = 0
         ELSE ~p.idle /\ Top(p, id, how)
  BY DecId
<1> HIDE DEF p
<1>2. IsFiniteSet(B) /\ Joins(t, B, A) /\ Agree(w, w, id, B)
  <2>1. B \subseteq A /\ Joins(t, B, A)
    BY DEF Leaves, Joins
  <2>2. IsFiniteSet(B)
    BY <2>1, FS_Subset
  <2> QED
    BY <2>1, <2>2 DEF Agree
<1>3. Shown(p, id, B, how)
  BY <1>1 DEF Shown, Clamp
<1>4. /\ r \in Queue /\ OthersKept(r, p, id) /\ r.idle = p.idle
      /\ Counted(r, id, A, w, how) /\ Top(r, id, how)
  BY <1>1, <1>2, <1>3, IncId
<1>5. OthersKept(r, q, id)
  BY <1>1, <1>4 DEF OthersKept
<1>6. id = "min" => ~r.idle
  BY <1>1, <1>4
<1> QED
  BY <1>4, <1>5, <1>6 DEF p

LEMMA ReincKeeps ==
  ASSUME NEW how, NEW q, NEW A, NEW u, Accounted(q, A, u, how), NEW t, NEW B, Leaves(t, A, B),
         NEW w, \A id \in Clamp : Good(w[t][id], how) /\ Agree(u, w, id, B)
  PROVE  Accounted(uclamp_rq_reinc(q, u[t], w[t]), A, w, how)
<1> DEFINE p == uclamp_rq_inc_id(uclamp_rq_dec_id(q, "min", u[t]["min"]), "min", w[t]["min"])
           r == uclamp_rq_inc_id(uclamp_rq_dec_id(p, "max", u[t]["max"]), "max", w[t]["max"])
<1>1. /\ q \in Queue /\ IsFiniteSet(A) /\ A # {} /\ ~q.idle
      /\ \A id \in Clamp : Counted(q, id, A, u, how) /\ Top(q, id, how)
  BY DEF Accounted, Leaves
<1>2. "min" \in Clamp /\ "max" \in Clamp \ {"min"} /\ "max" \in Clamp /\ "min" \in Clamp \ {"max"}
  BY DEF Clamp
<1>3. /\ p \in Queue /\ OthersKept(p, q, "min") /\ ~p.idle
      /\ Counted(p, "min", A, w, how) /\ Top(p, "min", how)
  <2>1. /\ Counted(q, "min", A, u, how) /\ Top(q, "min", how)
        /\ Agree(u, w, "min", B) /\ Good(w[t]["min"], how)
    BY <1>1, <1>2
  <2> QED
    BY <1>1, <1>2, <2>1, ReincId
<1> HIDE DEF p
<1>4. Counted(p, "max", A, u, how) /\ Top(p, "max", how)
  BY <1>1, <1>2, <1>3, OtherClamp
<1>5. r \in Queue /\ OthersKept(r, p, "max") /\ Counted(r, "max", A, w, how) /\ Top(r, "max", how)
  <2>1. Agree(u, w, "max", B) /\ Good(w[t]["max"], how)
    BY <1>2
  <2> QED
    BY <1>1, <1>2, <1>3, <1>4, <2>1, ReincId
<1>6. uclamp_rq_reinc(q, u[t], w[t]) = Busy(r)
  BY DEF uclamp_rq_reinc, p, r, Busy
<1> HIDE DEF r
<1>7. Counted(r, "min", A, w, how) /\ Top(r, "min", how)
  BY <1>2, <1>3, <1>5, OtherClamp
<1>8. \A id \in Clamp : Counted(r, id, A, w, how) /\ Top(r, id, how)
  BY <1>5, <1>7 DEF Clamp
<1> QED
  BY <1>1, <1>5, <1>6, <1>8, MarkBusy

-----------------------------------------------------------------------------
(* Runqueues and tasks.  A runqueue is accounted for the tasks that are in *)
(* it, a task is counted only while it is runnable and may be clamped.     *)
\* The clamps after t was given those of x, and the tasks counted in c if k is
\* where the tasks are.
Given(t, x) == [uclamp EXCEPT ![t] = x.u]
On(w, k, c) == {s \in Task : w[s] # NotActive /\ k[s] = c}
Clamps == [Clamp -> Se] \cup {NotActive}

RqShape ==
  /\ uclamp \in [Task -> Clamps]
  /\ cpu \in [Task -> CPU] /\ on_rq \in [Task -> BOOLEAN]
  /\ DOMAIN rq = CPU /\ rq = [c \in CPU |-> rq[c]]
  /\ css \in [Task -> Group] /\ group \in [Task -> Group]
  /\ policy \in [Task -> Policy] /\ boosted \in [Task -> Boost]
OnlyRunnable ==
  \A t \in Task :
    /\ uclamp[t] # NotActive =>
         on_rq[t] /\ sched_uclamp_used /\ class(policy[t], boosted[t]) # "dl"
    /\ on_rq[t] => stage[t] = "live"
AllAccounted(how) == \A c \in CPU : Accounted(rq[c], On(uclamp, cpu, c), uclamp, how)

\* Every request and default is a clamp, an exact one as long as every default
\* for realtime tasks that was written to a request was below Width.
Rt(v, how) == v \in Nat /\ (how = "exact" => v < Width)
GoodValues(how) ==
  /\ \A t \in Task, id \in Clamp : Good(uclamp_req[t][id].se, how)
  /\ uclamp_default = [id \in Clamp |-> uclamp_default[id]]
  /\ \A id \in Clamp : Good(uclamp_default[id], how)

RqInv(how) == RqShape /\ OnlyRunnable /\ AllAccounted(how)

LEMMA NotBoth == NotActive \notin [Clamp -> Se]
<1>1. DOMAIN NotActive = {}
  BY DEF NotActive
<1>2. \A f \in [Clamp -> Se] : "min" \in DOMAIN f
  BY DEF Clamp
<1> QED
  BY <1>1, <1>2

LEMMA SameMembers ==
  ASSUME NEW how, NEW q, NEW A, NEW u, NEW w, Accounted(q, A, u, how), \A s \in A : w[s] = u[s]
  PROVE  Accounted(q, A, w, how)
<1>1. ASSUME NEW id \in Clamp, Counted(q, id, A, u, how) PROVE Counted(q, id, A, w, how)
  <2>1. \A b \in Bucket : Members(A, w, id, b) = Members(A, u, id, b)
    BY DEF Members
  <2> QED
    BY <1>1, <2>1 DEF Counted
<1> QED
  BY <1>1 DEF Accounted

\* The runqueue of c and the clamps of t are replaced by those of x.
LEMMA PutDone ==
  ASSUME NEW how, RqShape, AllAccounted(how), NEW t \in Task, NEW c \in CPU, NEW x, Put(t, c, x),
         cpu' = [cpu EXCEPT ![t] = c], uclamp[t] = NotActive \/ cpu[t] = c,
         x.u \in Clamps,
         Accounted(x.q, On(Given(t, x), cpu', c), Given(t, x), how)
  PROVE  /\ AllAccounted(how)' /\ uclamp' \in [Task -> Clamps] /\ cpu' \in [Task -> CPU]
         /\ DOMAIN rq' = CPU /\ rq' = [d \in CPU |-> rq'[d]]
<1>1. /\ uclamp' = Given(t, x) /\ uclamp' \in [Task -> Clamps]
      /\ \A s \in Task \ {t} : uclamp'[s] = uclamp[s] /\ cpu'[s] = cpu[s]
      /\ cpu' \in [Task -> CPU] /\ cpu'[t] = c
  BY DEF Put, Given, RqShape
<1>2. /\ DOMAIN rq' = CPU /\ rq' = [d \in CPU |-> rq'[d]] /\ rq'[c] = x.q
      /\ \A d \in CPU \ {c} : rq'[d] = rq[d]
  BY DEF Put, RqShape
<1>3. ASSUME NEW d \in CPU PROVE Accounted(rq'[d], On(uclamp', cpu', d), uclamp', how)
  <2>1. CASE d = c
    BY <1>1, <1>2, <2>1
  <2>2. CASE d # c
    <3>1. On(uclamp', cpu', d) = On(uclamp, cpu, d)
      BY <1>1, <2>2 DEF On
    <3>2. \A s \in On(uclamp, cpu, d) : uclamp'[s] = uclamp[s]
      BY <1>1, <2>2 DEF On
    <3>3. Accounted(rq[d], On(uclamp, cpu, d), uclamp, how)
      BY DEF AllAccounted
    <3>4. Accounted(rq[d], On(uclamp, cpu, d), uclamp', how)
      BY <3>2, <3>3, SameMembers
    <3> QED
      BY <1>2, <2>2, <3>1, <3>4
  <2> QED
    BY <2>1, <2>2
<1>4. AllAccounted(how)'
  BY <1>3 DEF AllAccounted
<1> QED
  BY <1>1, <1>2, <1>4

\* A runnable task is taken out.
LEMMA TakenOut ==
  ASSUME NEW how, RqInv(how), NEW t \in Task
  PROVE  LET x == dequeue_task(t)
         IN  x.u = NotActive /\ Accounted(x.q, On(Given(t, x), cpu, cpu[t]), Given(t, x), how)
<1> DEFINE x == dequeue_task(t)
<1>1. Accounted(rq[cpu[t]], On(uclamp, cpu, cpu[t]), uclamp, how)
  BY DEF RqInv, RqShape, AllAccounted
<1>2. CASE uclamp[t] = NotActive
  <2>1. x.q = rq[cpu[t]] /\ x.u = NotActive
    BY <1>2 DEF dequeue_task
  <2>2. Given(t, x) = uclamp
    BY <1>2, <2>1 DEF Given, RqInv, RqShape
  <2> QED
    BY <1>1, <2>1, <2>2
<1>3. CASE uclamp[t] # NotActive
  <2>1. x.q = uclamp_rq_dec(rq[cpu[t]], uclamp[t]) /\ x.u = NotActive
    BY <1>3 DEF dequeue_task, RqInv, OnlyRunnable, uclamp_enabled, class
  <2> HIDE DEF x
  <2> DEFINE A == On(uclamp, cpu, cpu[t])
             B == On(Given(t, x), cpu, cpu[t])
             w == Given(t, x)
  <2>2. /\ \A s \in Task \ {t} : w[s] = uclamp[s]
        /\ w[t] = NotActive
    BY <2>1 DEF Given, RqInv, RqShape
  <2>3. Leaves(t, A, B)
    BY <1>3, <2>2 DEF On, Leaves
  <2>4. \A id \in Clamp : Agree(uclamp, w, id, B)
    BY <2>2, <2>3 DEF Leaves, Agree, On
  <2>5. Accounted(uclamp_rq_dec(rq[cpu[t]], uclamp[t]), B, w, how)
    <3> HIDE DEF A, B, w
    <3>1. Accounted(rq[cpu[t]], A, uclamp, how)
      BY <1>1 DEF A
    <3> QED
      BY <2>3, <2>4, <3>1, DecKeeps
  <2> QED
    BY <2>1, <2>5 DEF x
<1> QED
  BY <1>2, <1>3

LEMMA SetGood ==
  ASSUME NEW how, NEW v, Rt(v, how)
  PROVE  Good(uclamp_se_set(v), how)
<1>1. v \in Nat /\ Width \in Nat \ {0} /\ v % Width \in Value
  BY ScaleAssumption, SMT DEF Rt, Value
<1>2. how = "exact" => v % Width = v
  BY <1>1, SMT DEF Rt
<1>3. uclamp_bucket_id(v) \in Bucket
  BY <1>1, BucketGrows
<1> QED
  BY <1>1, <1>2, <1>3 DEF Good, Se, uclamp_se_set

LEMMA InScale == ASSUME NEW how, NEW v \in 0..Scale PROVE Rt(v, how)
BY ScaleAssumption DEF Rt

LEMMA RequestGood ==
  ASSUME NEW how, NEW v, Rt(v, how), NEW user PROVE Good(Request(v, user).se, how)
BY SetGood DEF Request

GoodReq(r, how) == \A id \in Clamp : Good(r[id].se, how)

LEMMA EffGood ==
  ASSUME NEW how, TreeTypeOK, GoodValues(how), NEW g \in Group, NEW r, GoodReq(r, how)
  PROVE  /\ uclamp_eff_get(r, g) \in [Clamp -> Se]
         /\ \A id \in Clamp : Good(uclamp_eff_get(r, g)[id], how)
<1>1. ASSUME NEW id \in Clamp PROVE Good(uclamp_tg_restrict(r[id].se, g), how)
  <2>1. CASE g = Root
    BY <2>1 DEF uclamp_tg_restrict, GoodReq
  <2>2. CASE g # Root
    <3> DEFINE v == Least(Most(r[id].se.value, tg_eff[g]["min"]), tg_eff[g]["max"])
    <3>1. tg_eff[g]["min"] \in 0..Scale /\ tg_eff[g]["max"] \in 0..Scale
      BY DEF TreeTypeOK, Clamp
    <3>2. r[id].se.value \in Nat
      BY ScaleAssumption DEF GoodReq, Good, Se, Value
    <3>3. v \in 0..Scale
      BY <3>1, <3>2, ScaleAssumption DEF Least, Most
    <3> HIDE DEF v
    <3>4. Good(uclamp_se_set(v), how)
      BY <3>3, InScale, SetGood
    <3> QED
      BY <2>2, <3>4 DEF uclamp_tg_restrict, v
  <2> QED
    BY <2>1, <2>2
<1>2. ASSUME NEW id \in Clamp PROVE Good(uclamp_eff_get(r, g)[id], how)
  BY <1>1 DEF uclamp_eff_get, GoodValues
<1>3. uclamp_eff_get(r, g) = [id \in Clamp |-> uclamp_eff_get(r, g)[id]]
  BY DEF uclamp_eff_get
<1>4. \A id \in Clamp : uclamp_eff_get(r, g)[id] \in Se
  BY <1>2 DEF Good
<1> HIDE DEF Good
<1> QED
  BY <1>2, <1>3, <1>4

\* A task that is not counted is put in.
LEMMA PutIn ==
  ASSUME NEW how, RqShape, TreeTypeOK, GoodValues(how), NEW t \in Task, NEW k, NEW x,
         x.u = NotActive, Accounted(x.q, On(Given(t, x), k, k[t]), Given(t, x), how),
         NEW g \in Group, NEW r, GoodReq(r, how), NEW cls
  PROVE  LET y == enqueue_task(x, r, g, cls)
         IN  /\ y.u \in Clamps
             /\ Accounted(y.q, On(Given(t, y), k, k[t]), Given(t, y), how)
             /\ y.u # NotActive => sched_uclamp_used /\ cls # "dl"
<1> DEFINE y == enqueue_task(x, r, g, cls)
<1>1. CASE ~(sched_uclamp_used /\ uclamp_enabled(cls))
  <2>1. y = x
    BY <1>1 DEF enqueue_task
  <2> QED
    BY <2>1 DEF Clamps
<1>2. CASE sched_uclamp_used /\ uclamp_enabled(cls)
  <2> DEFINE e == uclamp_eff_get(r, g)
             A == On(Given(t, x), k, k[t])
             B == On(Given(t, y), k, k[t])
             u == Given(t, x)
             w == Given(t, y)
  <2>1. y.q = uclamp_rq_inc(x.q, e) /\ y.u = e
    BY <1>2 DEF enqueue_task
  <2>2. e \in [Clamp -> Se] /\ (\A id \in Clamp : Good(e[id], how)) /\ e # NotActive
    BY EffGood, NotBoth
  <2> HIDE DEF y, e
  <2>3. /\ \A s \in Task \ {t} : w[s] = u[s]
        /\ w[t] = e /\ u[t] = NotActive
    BY <2>1 DEF Given, RqShape
  <2>4. Joins(t, A, B)
    BY <2>2, <2>3 DEF On, Joins
  <2>5. \A id \in Clamp : Good(w[t][id], how) /\ Agree(u, w, id, A)
    BY <2>2, <2>3, <2>4 DEF Agree, Joins, On
  <2>6. Accounted(uclamp_rq_inc(x.q, w[t]), B, w, how)
    <3> HIDE DEF A, B, u, w
    <3>1. Accounted(x.q, A, u, how)
      BY DEF A, u
    <3> QED
      BY <2>4, <2>5, <3>1, IncKeeps
  <2>7. y.u \in Clamps
    BY <2>1, <2>2 DEF Clamps
  <2>8. cls # "dl"
    BY <1>2 DEF uclamp_enabled
  <2> QED
    BY <1>2, <2>1, <2>3, <2>6, <2>7, <2>8 DEF y
<1> QED
  BY <1>1, <1>2

LEMMA Requeued ==
  ASSUME NEW how, RqInv(how), TreeTypeOK, GoodValues(how), NEW t \in Task, NEW r,
         NEW g \in Group, NEW pol, NEW boost, GoodReq(r, how),
         Requeue(t, r, g, class(pol, boost)), cpu' = cpu
  PROVE  /\ AllAccounted(how)' /\ uclamp' \in [Task -> Clamps]
         /\ DOMAIN rq' = CPU /\ rq' = [d \in CPU |-> rq'[d]]
         /\ \A s \in Task \ {t} : uclamp'[s] = uclamp[s]
         /\ uclamp'[t] # NotActive =>
              on_rq[t] /\ sched_uclamp_used /\ class(pol, boost) # "dl"
<1>0. RqShape /\ AllAccounted(how) /\ OnlyRunnable
  BY DEF RqInv
<1>1. CASE ~on_rq[t]
  <2>1. uclamp' = uclamp /\ rq' = rq
    BY <1>1 DEF Requeue, rqVars
  <2>2. AllAccounted(how)'
    BY <1>0, <2>1 DEF AllAccounted
  <2> QED
    BY <1>0, <1>1, <2>1, <2>2 DEF RqShape, OnlyRunnable
<1>2. CASE on_rq[t]
  <2> DEFINE x == dequeue_task(t)
             cls == class(pol, boost)
             y == enqueue_task(x, r, g, cls)
  <2>1. Put(t, cpu[t], y)
    BY <1>2 DEF Requeue
  <2>2. x.u = NotActive /\ Accounted(x.q, On(Given(t, x), cpu, cpu[t]), Given(t, x), how)
    BY TakenOut
  <2>3. cpu \in [Task -> CPU] /\ cpu[t] \in CPU /\ cpu' = [cpu EXCEPT ![t] = cpu[t]]
    BY <1>0 DEF RqShape
  <2> HIDE DEF x, cls
  <2>4. /\ y.u \in Clamps
        /\ Accounted(y.q, On(Given(t, y), cpu, cpu[t]), Given(t, y), how)
        /\ y.u # NotActive => sched_uclamp_used /\ cls # "dl"
    BY <1>0, <2>2, PutIn
  <2> HIDE DEF y
  <2>5. Accounted(y.q, On(Given(t, y), cpu', cpu[t]), Given(t, y), how)
    BY <2>4
  <2>6. /\ AllAccounted(how)' /\ uclamp' \in [Task -> Clamps]
        /\ DOMAIN rq' = CPU /\ rq' = [d \in CPU |-> rq'[d]]
    BY <1>0, <2>1, <2>3, <2>4, <2>5, PutDone
  <2>7. uclamp' = [uclamp EXCEPT ![t] = y.u]
    BY <2>1 DEF Put
  <2> QED
    BY <1>0, <1>2, <2>4, <2>6, <2>7 DEF RqShape, cls
<1> QED
  BY <1>1, <1>2

-----------------------------------------------------------------------------
(* Every step keeps the accounting.                                        *)
ClampInv(how) == RqInv(how) /\ GoodValues(how)

LEMMA InitRq == ASSUME NEW how, Init PROVE ClampInv(how)
<1>1. RqShape
  BY OnlineAssumption, GroupAssumption DEF Init, RqShape, Clamps, Policy, Boost
<1>2. OnlyRunnable
  BY DEF Init, OnlyRunnable
<1>3. Rt(0, how) /\ Rt(Scale, how)
  BY ScaleAssumption DEF Rt
<1>4. GoodValues(how)
  <2>1. \A id \in Clamp : Good(Request(uclamp_none(id), FALSE).se, how)
    BY <1>3, RequestGood DEF uclamp_none
  <2>2. \A id \in Clamp : Good(uclamp_se_set(Scale), how)
    BY <1>3, SetGood
  <2> QED
    BY <1>3, <2>1, <2>2 DEF Init, GoodValues, NoRequest
<1>5. ASSUME NEW c \in CPU PROVE Accounted(rq[c], On(uclamp, cpu, c), uclamp, how)
  <2>1. On(uclamp, cpu, c) = {}
    BY DEF On, Init
  <2> DEFINE q == init_uclamp_rq
  <2>2. \A id \in Clamp, b \in Bucket : q.tasks[id][b] = 0 /\ q.bucket[id][b] = 0
    BY DEF init_uclamp_rq
  <2>3. q.idle /\ q.value["min"] = 0
    BY DEF init_uclamp_rq, uclamp_none, Clamp
  <2>4. q \in Queue
    <3>1. 0 \in Value /\ Scale \in Value /\ 0 \in Nat
      BY ScaleAssumption DEF Value
    <3> QED
      BY <3>1 DEF Queue, init_uclamp_rq, uclamp_none
  <2> HIDE DEF q
  <2>5. ASSUME NEW id \in Clamp PROVE Counted(q, id, {}, uclamp, how)
    <3>1. \A b \in Bucket : Members({}, uclamp, id, b) = {}
      BY DEF Members
    <3>2. \A b \in Bucket : q.tasks[id][b] = Cardinality(Members({}, uclamp, id, b))
      BY <2>2, <3>1, FS_EmptySet
    <3>3. \A b \in Bucket : ~(q.tasks[id][b] > 0)
      BY <2>2
    <3> QED
      BY <2>2, <3>2, <3>3 DEF Counted
  <2>6. rq[c] = q
    BY DEF Init, q
  <2> QED
    BY <2>1, <2>3, <2>4, <2>5, <2>6, FS_EmptySet DEF Accounted
<1>6. AllAccounted(how)
  BY <1>5 DEF AllAccounted
<1> QED
  BY <1>1, <1>2, <1>4, <1>6 DEF ClampInv, RqInv

\* Steps that leave the runqueues and the places of the tasks alone.
LEMMA RqStutter ==
  ASSUME NEW how, RqInv(how), UNCHANGED <<uclamp, rq, cpu, on_rq, policy, boosted>>,
         css' \in [Task -> Group], group' = group,
         sched_uclamp_used => sched_uclamp_used',
         \A t \in Task : stage[t] = "live" => stage'[t] = "live"
  PROVE  RqInv(how)'
<1>1. AllAccounted(how)'
  BY DEF RqInv, AllAccounted
<1>2. RqShape' /\ OnlyRunnable'
  BY DEF RqInv, RqShape, OnlyRunnable
<1> QED
  BY <1>1, <1>2 DEF RqInv

LEMMA GoodStutter ==
  ASSUME NEW how, GoodValues(how), UNCHANGED <<uclamp_req, uclamp_default>>
  PROVE  GoodValues(how)'
BY DEF GoodValues

LEMMA EnqueueRq ==
  ASSUME NEW how, ClampInv(how), TreeTypeOK, UserShape, NEW t \in Task, NEW c \in CPU, Enqueue(t, c)
  PROVE  ClampInv(how)'
<1>1. RqInv(how) /\ RqShape /\ OnlyRunnable /\ AllAccounted(how) /\ GoodValues(how)
  BY DEF ClampInv, RqInv
<1> DEFINE x == [q |-> rq[c], u |-> uclamp[t]]
           cls == class(policy[t], boosted[t])
           g == group[t]
           r == uclamp_req[t]
           k == cpu'
           y == enqueue_task(x, r, g, cls)
<1>2. uclamp[t] = NotActive /\ stage[t] = "live" /\ ~on_rq[t]
  BY <1>1 DEF Enqueue, OnlyRunnable
<1>3. /\ k = [cpu EXCEPT ![t] = c] /\ k[t] = c /\ Given(t, x) = uclamp
      /\ g \in Group /\ x.u = NotActive /\ x.q = rq[c]
  BY <1>1, <1>2 DEF Enqueue, RqShape, Given
<1>4. On(uclamp, k, c) = On(uclamp, cpu, c)
  BY <1>1, <1>2, <1>3 DEF On, RqShape
<1>5. Accounted(x.q, On(Given(t, x), k, k[t]), Given(t, x), how)
  BY <1>1, <1>3, <1>4 DEF AllAccounted
<1>6. GoodReq(r, how)
  BY <1>1 DEF GoodValues, GoodReq
<1>7. Put(t, c, y)
  BY DEF Enqueue
<1> HIDE DEF x, cls, g, r
<1>8. /\ y.u \in Clamps
      /\ Accounted(y.q, On(Given(t, y), k, k[t]), Given(t, y), how)
      /\ y.u # NotActive => sched_uclamp_used /\ cls # "dl"
  <2>1. g \in Group /\ x.u = NotActive /\ RqShape /\ GoodValues(how)
    BY <1>1, <1>3
  <2> HIDE DEF k
  <2> QED
    BY <1>5, <1>6, <2>1, PutIn
<1> HIDE DEF y
<1>9. /\ AllAccounted(how)' /\ uclamp' \in [Task -> Clamps] /\ cpu' \in [Task -> CPU]
      /\ DOMAIN rq' = CPU /\ rq' = [d \in CPU |-> rq'[d]]
  BY <1>1, <1>2, <1>3, <1>7, <1>8, PutDone
<1>10. uclamp' = [uclamp EXCEPT ![t] = y.u]
  BY <1>7 DEF Put
<1>11. /\ UNCHANGED <<stage, policy, boosted, uclamp_req, css, group, sched_uclamp_used, op>>
       /\ UNCHANGED <<uclamp_default, sysctl>>
       /\ on_rq' = [on_rq EXCEPT ![t] = TRUE]
  BY DEF Enqueue, sysVars
<1>13. OnlyRunnable'
  BY <1>1, <1>2, <1>8, <1>10, <1>11 DEF OnlyRunnable, RqShape, cls
<1>14. RqShape'
  BY <1>1, <1>9, <1>11 DEF RqShape
<1>15. GoodValues(how)'
  BY <1>1, <1>11, GoodStutter
<1> QED
  BY <1>9, <1>13, <1>14, <1>15 DEF ClampInv, RqInv

LEMMA DequeueRq == ASSUME NEW how, ClampInv(how), NEW t \in Task, Dequeue(t) PROVE ClampInv(how)'
<1>1. RqInv(how) /\ RqShape /\ OnlyRunnable /\ AllAccounted(how) /\ GoodValues(how)
  BY DEF ClampInv, RqInv
<1> DEFINE x == dequeue_task(t)
<1>2. Put(t, cpu[t], x) /\ cpu' = cpu /\ cpu' = [cpu EXCEPT ![t] = cpu[t]] /\ cpu[t] \in CPU
  BY <1>1 DEF Dequeue, RqShape
<1>3. x.u = NotActive /\ Accounted(x.q, On(Given(t, x), cpu', cpu[t]), Given(t, x), how)
  BY <1>1, <1>2, TakenOut
<1> HIDE DEF x
<1>4. x.u \in Clamps
  BY <1>3 DEF Clamps
<1>5. /\ AllAccounted(how)' /\ uclamp' \in [Task -> Clamps] /\ cpu' \in [Task -> CPU]
      /\ DOMAIN rq' = CPU /\ rq' = [d \in CPU |-> rq'[d]]
  BY <1>1, <1>2, <1>3, <1>4, PutDone
<1>6. uclamp' = [uclamp EXCEPT ![t] = NotActive]
  BY <1>2, <1>3 DEF Put
<1>7. /\ UNCHANGED <<stage, policy, boosted, uclamp_req, css, group, sched_uclamp_used, op>>
      /\ UNCHANGED <<uclamp_default, sysctl>>
      /\ on_rq' = [on_rq EXCEPT ![t] = FALSE]
  BY DEF Dequeue, sysVars
<1>8. OnlyRunnable'
  BY <1>1, <1>6, <1>7 DEF OnlyRunnable, RqShape
<1>9. RqShape'
  BY <1>1, <1>5, <1>7 DEF RqShape
<1>10. GoodValues(how)'
  BY <1>1, <1>7, GoodStutter
<1> QED
  BY <1>5, <1>8, <1>9, <1>10 DEF ClampInv, RqInv

\* A runnable task is taken out, changed and put in again.
LEMMA RequeueRq ==
  ASSUME NEW how, RqInv(how), TreeTypeOK, GoodValues(how), NEW t \in Task, NEW r, NEW g \in Group,
         NEW pol \in Policy, NEW boost \in Boost, GoodReq(r, how),
         Requeue(t, r, g, class(pol, boost)),
         UNCHANGED <<stage, cpu, on_rq, css, sched_uclamp_used>>,
         group' = [group EXCEPT ![t] = g], policy' = [policy EXCEPT ![t] = pol],
         boosted' = [boosted EXCEPT ![t] = boost]
  PROVE  RqInv(how)'
<1>1. RqShape /\ OnlyRunnable
  BY DEF RqInv
<1>2. cpu' = cpu
  OBVIOUS
<1>3. /\ AllAccounted(how)' /\ uclamp' \in [Task -> Clamps]
      /\ DOMAIN rq' = CPU /\ rq' = [d \in CPU |-> rq'[d]]
      /\ \A s \in Task \ {t} : uclamp'[s] = uclamp[s]
      /\ uclamp'[t] # NotActive =>
           on_rq[t] /\ sched_uclamp_used /\ class(pol, boost) # "dl"
  BY <1>2, Requeued
<1>4. RqShape'
  BY <1>1, <1>3 DEF RqShape
<1>5. OnlyRunnable'
  BY <1>1, <1>3 DEF OnlyRunnable, RqShape
<1> QED
  BY <1>3, <1>4, <1>5 DEF RqInv

LEMMA BoostRq ==
  ASSUME NEW how, ClampInv(how), TreeTypeOK, NEW t \in Task, rt_mutex_setprio(t)
  PROVE  ClampInv(how)'
<1>0. PICK boost \in Boost :
        /\ boosted' = [boosted EXCEPT ![t] = boost]
        /\ Requeue(t, uclamp_req[t], group[t], class(policy[t], boost))
  BY DEF rt_mutex_setprio
<1>1. RqInv(how) /\ RqShape /\ GoodValues(how)
  BY DEF ClampInv, RqInv
<1> DEFINE r == uclamp_req[t]
           g == group[t]
           pol == policy[t]
<1>2. /\ g \in Group /\ pol \in Policy
      /\ group' = [group EXCEPT ![t] = g] /\ policy' = [policy EXCEPT ![t] = pol]
      /\ boosted' = [boosted EXCEPT ![t] = boost]
      /\ UNCHANGED <<stage, cpu, on_rq, css, sched_uclamp_used>>
      /\ UNCHANGED <<uclamp_req, uclamp_default>>
      /\ Requeue(t, r, g, class(pol, boost))
  BY <1>0, <1>1 DEF rt_mutex_setprio, RqShape, sysVars
<1>3. GoodReq(r, how)
  BY <1>1 DEF GoodValues, GoodReq
<1> HIDE DEF r, g, pol
<1>4. RqInv(how)'
  BY <1>1, <1>2, <1>3, RequeueRq
<1>5. GoodValues(how)'
  BY <1>1, <1>2, GoodStutter
<1> QED
  BY <1>4, <1>5 DEF ClampInv

LEMMA MoveRq ==
  ASSUME NEW how, ClampInv(how), TreeTypeOK, NEW t \in Task, sched_move_task(t) PROVE ClampInv(how)'
<1>1. RqInv(how) /\ RqShape /\ GoodValues(how)
  BY DEF ClampInv, RqInv
<1> DEFINE r == uclamp_req[t]
           g == css[t]
           pol == policy[t]
           boost == boosted[t]
<1>2. /\ g \in Group /\ pol \in Policy /\ boost \in Boost
      /\ group' = [group EXCEPT ![t] = g] /\ policy' = [policy EXCEPT ![t] = pol]
      /\ boosted' = [boosted EXCEPT ![t] = boost]
      /\ UNCHANGED <<stage, cpu, on_rq, css, sched_uclamp_used>>
      /\ UNCHANGED <<uclamp_req, uclamp_default, sysctl>> /\ op' = op
      /\ Requeue(t, r, g, class(pol, boost))
  BY <1>1 DEF sched_move_task, RqShape, sysVars
<1>3. GoodReq(r, how)
  BY <1>1 DEF GoodValues, GoodReq
<1> HIDE DEF r, g, pol, boost
<1>4. RqInv(how)'
  BY <1>1, <1>2, <1>3, RequeueRq
<1>5. GoodValues(how)'
  BY <1>1, <1>2, GoodStutter
<1> QED
  BY <1>4, <1>5 DEF ClampInv

\* What a call makes of a request is again one.
LEMMA CallGood ==
  ASSUME NEW how, NEW r, GoodReq(r, how), NEW attr \in Argument, NEW rt,
         rt /\ uclamp_reset(attr, "min", r["min"].user) => Rt(sysctl["rt"], how)
  PROVE  GoodReq(setscheduler_uclamp(r, attr, rt), how)
<1>1. ASSUME NEW id \in Clamp PROVE Good(setscheduler_uclamp(r, attr, rt)[id].se, how)
  <2>1. CASE id \in DOMAIN attr.util /\ attr.util[id] # -1
    <3>1. attr.util[id] \in 0..Scale
      <4>1. attr.util \in UNION {[ids -> -1..Scale] : ids \in SUBSET Clamp}
        BY DEF Argument
      <4>2. attr.util[id] \in -1..Scale
        BY <2>1, <4>1
      <4> QED
        BY <2>1, <4>2, ScaleAssumption
    <3> DEFINE v == attr.util[id]
    <3>2. setscheduler_uclamp(r, attr, rt)[id] = Request(v, TRUE)
      BY <2>1 DEF setscheduler_uclamp
    <3> HIDE DEF v
    <3>3. Rt(v, how)
      BY <3>1, InScale DEF v
    <3> QED
      BY <3>2, <3>3, RequestGood
  <2>2. CASE ~(id \in DOMAIN attr.util /\ attr.util[id] # -1)
    <3> DEFINE d == IF rt /\ id = "min" THEN sysctl["rt"] ELSE uclamp_none(id)
    <3>1. CASE ~uclamp_reset(attr, id, r[id].user)
      BY <2>2, <3>1 DEF setscheduler_uclamp, GoodReq
    <3>2. CASE uclamp_reset(attr, id, r[id].user)
      <4>1. setscheduler_uclamp(r, attr, rt)[id] = Request(d, FALSE)
        BY <2>2, <3>2 DEF setscheduler_uclamp
      <4>2. Rt(d, how)
        <5>1. Rt(uclamp_none(id), how)
          BY ScaleAssumption DEF Rt, uclamp_none
        <5> QED
          BY <3>2, <5>1
      <4> HIDE DEF d
      <4> QED
        BY <4>1, <4>2, RequestGood
    <3> QED
      BY <3>1, <3>2
  <2> QED
    BY <2>1, <2>2
<1> QED
  BY <1>1 DEF GoodReq

LEMMA SchedulerRq ==
  ASSUME NEW how, ClampInv(how), TreeTypeOK, UserShape, NEW t \in Task, NEW attr \in Argument,
         SetScheduler(t, attr), sched_uclamp_used' = sched_uclamp_used,
         how = "exact" => ~wrapped'
  PROVE  ClampInv(how)'
<1>1. RqInv(how) /\ RqShape /\ GoodValues(how)
  BY DEF ClampInv, RqInv
<1> DEFINE g == group[t]
           pol == IF attr.policy = "keep" THEN policy[t] ELSE attr.policy
           boost == boosted[t]
           r == setscheduler_uclamp(uclamp_req[t], attr, rt_task(pol, boost))
<1>2. /\ g \in Group /\ pol \in Policy /\ boost \in Boost
      /\ group' = [group EXCEPT ![t] = g] /\ policy' = [policy EXCEPT ![t] = pol]
      /\ boosted' = [boosted EXCEPT ![t] = boost]
  <2>1. attr.policy \in Policy \cup {"keep"}
    BY DEF Argument
  <2> QED
    BY <1>1, <2>1 DEF SetScheduler, RqShape
<1>3. /\ UNCHANGED <<stage, cpu, on_rq, css, sched_uclamp_used>>
      /\ UNCHANGED <<uclamp_default, sysctl>> /\ op' = op
      /\ uclamp_req' = [uclamp_req EXCEPT ![t] = r]
      /\ Requeue(t, r, g, class(pol, boost))
  BY DEF SetScheduler, sysVars
<1>4. GoodReq(r, how)
  <2>1. GoodReq(uclamp_req[t], how)
    BY <1>1 DEF GoodValues, GoodReq
  <2>2. rt_task(pol, boost) /\ uclamp_reset(attr, "min", uclamp_req[t]["min"].user)
          => Rt(sysctl["rt"], how)
    <3>1. ASSUME rt_task(pol, boost), uclamp_reset(attr, "min", uclamp_req[t]["min"].user)
          PROVE  wrapped' = (wrapped \/ sysctl["rt"] >= Width)
      BY <3>1 DEF SetScheduler, TakesKnob
    <3>2. sysctl["rt"] \in Nat /\ Width \in Nat
      BY ScaleAssumption DEF TreeTypeOK, Knob
    <3>3. ASSUME how = "exact", rt_task(pol, boost),
                 uclamp_reset(attr, "min", uclamp_req[t]["min"].user)
          PROVE  ~(sysctl["rt"] >= Width)
      BY <3>1, <3>3
    <3> HIDE DEF pol, boost
    <3> QED
      BY <3>2, <3>3 DEF Rt
  <2> HIDE DEF pol, boost
  <2> QED
    BY <2>1, <2>2, CallGood
<1> HIDE DEF r, g, pol, boost
<1>5. RqInv(how)'
  BY <1>1, <1>2, <1>3, <1>4, RequeueRq
<1>6. GoodValues(how)'
  <2>1. \A s \in Task, id \in Clamp : Good(uclamp_req'[s][id].se, how)
    BY <1>1, <1>3, <1>4 DEF GoodValues, GoodReq, UserShape
  <2> QED
    BY <1>1, <1>3, <2>1 DEF GoodValues
<1> QED
  BY <1>5, <1>6 DEF ClampInv

\* WalkTask: the clamps of a counted task are computed again.
LEMMA UpdateRq ==
  ASSUME NEW how, ClampInv(how), TreeTypeOK, NEW t \in Task, WalkTask(t) PROVE ClampInv(how)'
<1>1. RqInv(how) /\ RqShape /\ OnlyRunnable /\ AllAccounted(how) /\ GoodValues(how)
  BY DEF ClampInv, RqInv
<1>2. /\ UNCHANGED <<stage, policy, boosted, uclamp_req, cpu, on_rq, css, group>>
      /\ UNCHANGED <<sched_uclamp_used, uclamp_default, sysctl>>
  BY DEF WalkTask, taskVars, sysVars
<1>3. GoodValues(how)'
  BY <1>1, <1>2, GoodStutter
<1>4. CASE UNCHANGED rqVars
  <2>1. UNCHANGED <<uclamp, rq, cpu, on_rq, policy, boosted>> /\ css' \in [Task -> Group]
        /\ group' = group /\ (sched_uclamp_used => sched_uclamp_used')
        /\ \A s \in Task : stage[s] = "live" => stage'[s] = "live"
    BY <1>1, <1>2, <1>4 DEF rqVars, RqShape
  <2> QED
    BY <1>1, <1>3, <2>1, RqStutter DEF ClampInv
<1>5. CASE ~UNCHANGED rqVars
  <2> DEFINE u == uclamp_eff_get(uclamp_req[t], group[t])
             x == [q |-> uclamp_rq_reinc(rq[cpu[t]], uclamp[t], u), u |-> u]
             A == On(uclamp, cpu, cpu[t])
             B == {s \in A : s # t}
             w == Given(t, x)
  <2>1. uclamp[t] # NotActive /\ Put(t, cpu[t], x)
    BY <1>5 DEF WalkTask, uclamp_update_active
  <2>2. u \in [Clamp -> Se] /\ (\A id \in Clamp : Good(u[id], how)) /\ u # NotActive
    <3>1. GoodReq(uclamp_req[t], how) /\ group[t] \in Group
      BY <1>1 DEF GoodValues, GoodReq, RqShape
    <3> QED
      BY <1>1, <3>1, EffGood, NotBoth
  <2>3. x.u = u /\ x.q = uclamp_rq_reinc(rq[cpu[t]], uclamp[t], u)
    OBVIOUS
  <2> HIDE DEF x, u
  <2>4. /\ \A s \in Task \ {t} : w[s] = uclamp[s]
        /\ w[t] = u
    BY <1>1, <2>3 DEF Given, RqShape
  <2>5. Leaves(t, A, B)
    BY <2>1 DEF Leaves, On
  <2>6. \A id \in Clamp : Good(w[t][id], how) /\ Agree(uclamp, w, id, B)
    BY <2>2, <2>4 DEF Agree, On
  <2>7. On(w, cpu, cpu[t]) = A
    BY <2>1, <2>2, <2>4 DEF On
  <2>8. Accounted(uclamp_rq_reinc(rq[cpu[t]], uclamp[t], w[t]), A, w, how)
    <3>1. Accounted(rq[cpu[t]], A, uclamp, how)
      BY <1>1 DEF AllAccounted, RqShape
    <3> HIDE DEF A, B, w
    <3> QED
      BY <2>5, <2>6, <3>1, ReincKeeps
  <2>9. /\ Accounted(x.q, On(Given(t, x), cpu', cpu[t]), Given(t, x), how)
        /\ cpu' = [cpu EXCEPT ![t] = cpu[t]] /\ cpu[t] \in CPU /\ x.u \in Clamps
    BY <1>1, <1>2, <2>2, <2>3, <2>4, <2>7, <2>8 DEF Clamps, RqShape
  <2>10. /\ AllAccounted(how)' /\ uclamp' \in [Task -> Clamps] /\ cpu' \in [Task -> CPU]
         /\ DOMAIN rq' = CPU /\ rq' = [d \in CPU |-> rq'[d]]
    BY <1>1, <2>1, <2>9, PutDone
  <2>11. uclamp' = [uclamp EXCEPT ![t] = x.u]
    BY <2>1 DEF Put
  <2>12. RqShape'
    BY <1>1, <1>2, <2>10 DEF RqShape
  <2>13. OnlyRunnable'
    BY <1>1, <1>2, <2>1, <2>11 DEF OnlyRunnable, RqShape
  <2> QED
    BY <1>3, <2>10, <2>12, <2>13 DEF ClampInv, RqInv
<1> QED
  BY <1>4, <1>5

LEMMA ForkRq ==
  ASSUME NEW how, ClampInv(how), UserShape, NEW t \in Task, NEW child \in Task, NEW reset \in Roof,
         Fork(t, child, reset)
  PROVE  ClampInv(how)'
<1>1. RqInv(how) /\ RqShape /\ OnlyRunnable /\ AllAccounted(how) /\ GoodValues(how)
  BY DEF ClampInv, RqInv
<1>2. /\ stage[child] = "none" /\ uclamp[child] = NotActive /\ ~on_rq[child] /\ child # t
      /\ stage' = [stage EXCEPT ![child] = "new"]
      /\ uclamp' = uclamp /\ cpu' = [cpu EXCEPT ![child] = cpu[t]]
  BY <1>1 DEF Fork, OnlyRunnable, uclamp_fork, RqShape
<1>3. UNCHANGED <<boosted, on_rq, rq, sched_uclamp_used, op, uclamp_default, sysctl>>
  BY DEF Fork, sysVars
<1>4. AllAccounted(how)'
  <2>1. ASSUME NEW c \in CPU PROVE On(uclamp', cpu', c) = On(uclamp, cpu, c)
    BY <1>1, <1>2 DEF On, RqShape
  <2> QED
    BY <1>1, <1>2, <1>3, <2>1 DEF AllAccounted
<1>5. RqShape'
  <2>1. policy' \in [Task -> Policy]
    BY <1>1 DEF Fork, RqShape, Policy
  <2>2. css' \in [Task -> Group] /\ group' \in [Task -> Group] /\ cpu' \in [Task -> CPU]
    BY <1>1 DEF Fork, RqShape
  <2> QED
    BY <1>1, <1>2, <1>3, <2>1, <2>2 DEF RqShape
<1>6. OnlyRunnable'
  <2>1. \A s \in Task : uclamp[s] # NotActive \/ on_rq[s] => s # child /\ stage[s] = "live"
    BY <1>1, <1>2 DEF OnlyRunnable
  <2>2. \A s \in Task \ {child} : policy'[s] = policy[s] /\ stage'[s] = stage[s]
    BY <1>1, <1>2 DEF Fork, RqShape, UserShape
  <2> QED
    BY <1>1, <1>2, <1>3, <2>1, <2>2 DEF OnlyRunnable
<1>7. GoodValues(how)'
  <2> DEFINE r == IF reset THEN NoRequest ELSE uclamp_req[t]
  <2>1. uclamp_req' = [uclamp_req EXCEPT ![child] = r]
    BY DEF Fork, uclamp_fork
  <2>2. GoodReq(r, how)
    <3>1. \A id \in Clamp : Rt(uclamp_none(id), how)
      BY ScaleAssumption DEF Rt, uclamp_none
    <3>2. \A id \in Clamp : Good(NoRequest[id].se, how)
      BY <3>1, RequestGood DEF NoRequest
    <3> QED
      BY <1>1, <3>2 DEF GoodReq, GoodValues
  <2> HIDE DEF r
  <2>3. \A s \in Task, id \in Clamp : Good(uclamp_req'[s][id].se, how)
    BY <1>1, <2>1, <2>2 DEF GoodValues, GoodReq, UserShape
  <2> QED
    BY <1>1, <1>3, <2>3 DEF GoodValues
<1> QED
  BY <1>4, <1>5, <1>6, <1>7 DEF ClampInv, RqInv

\* The default of a realtime task, as it is at this moment.
LEMMA SyncGood ==
  ASSUME NEW how, GoodValues(how), UserShape, TreeTypeOK, NEW t \in Task,
         __uclamp_update_util_min_rt_default(t), UNCHANGED sysVars,
         how = "exact" => ~wrapped'
  PROVE  GoodValues(how)'
<1>0. CASE uclamp_req' = uclamp_req
  BY <1>0 DEF GoodValues, sysVars
<1> DEFINE v == sysctl["rt"]
           r == [uclamp_req[t] EXCEPT !["min"] = Request(v, FALSE)]
<1>1. CASE uclamp_req' # uclamp_req
  <2>1. uclamp_req' = [uclamp_req EXCEPT ![t] = r] /\ (how = "exact" => ~(v >= Width))
    BY <1>1 DEF __uclamp_update_util_min_rt_default, TakesKnob
  <2>2. Rt(v, how)
    <3>1. v \in Nat /\ Width \in Nat
      BY ScaleAssumption DEF TreeTypeOK, Knob
    <3> HIDE DEF v, r
    <3> QED
      BY <2>1, <3>1 DEF Rt
  <2>3. \A id \in Clamp : Good(r[id].se, how)
    <3> HIDE DEF v
    <3>1. Good(Request(v, FALSE).se, how)
      BY <2>2, RequestGood
    <3>2. uclamp_req[t] = [id \in Clamp |-> uclamp_req[t][id]]
      BY DEF UserShape
    <3> HIDE DEF Good
    <3>3. \A id \in Clamp : r[id] = uclamp_req[t][id] \/ r[id] = Request(v, FALSE)
      BY <3>2 DEF Clamp
    <3> QED
      BY <3>1, <3>3 DEF GoodValues
  <2> HIDE DEF r
  <2>4. \A s \in Task, id \in Clamp : Good(uclamp_req'[s][id].se, how)
    BY <2>1, <2>3 DEF GoodValues, UserShape
  <2> QED
    BY <2>4 DEF GoodValues, sysVars
<1> QED
  BY <1>0, <1>1

LEMMA SyncRq ==
  ASSUME NEW how, ClampInv(how), UserShape, TreeTypeOK, NEW t \in Task,
         uclamp_post_fork(t) \/ PostForkSync(t) \/ SyncTask(t), how = "exact" => ~wrapped'
  PROVE  ClampInv(how)'
<1>1. RqInv(how) /\ RqShape /\ OnlyRunnable /\ GoodValues(how)
  BY DEF ClampInv, RqInv
<1>2. GoodValues(how)'
  <2>1. CASE uclamp_post_fork(t)
    BY <1>1, <2>1, GoodStutter DEF uclamp_post_fork, sysVars
  <2>2. CASE PostForkSync(t) \/ SyncTask(t)
    <3>1. __uclamp_update_util_min_rt_default(t) /\ UNCHANGED sysVars
      BY <2>2 DEF PostForkSync, SyncTask
    <3> QED
      BY <1>1, <3>1, SyncGood
  <2> QED
    BY <2>1, <2>2
<1>3. /\ UNCHANGED <<uclamp, rq, cpu, on_rq, policy, boosted>> /\ css' \in [Task -> Group]
      /\ group' = group /\ (sched_uclamp_used => sched_uclamp_used')
  BY <1>1 DEF uclamp_post_fork, PostForkSync, SyncTask, rqVars, RqShape
<1>4. \A s \in Task : stage[s] = "live" => stage'[s] = "live"
  BY DEF uclamp_post_fork, PostForkSync, SyncTask, UserShape
<1> QED
  BY <1>1, <1>2, <1>3, <1>4, RqStutter DEF ClampInv

\* Steps that neither move a task nor change what is asked for.
QuietStep ==
  \/ \E t \in Task, a \in Attrs : SetAttrCheck(t, a)
  \/ \E g \in Group \ {Root} : GroupAlloc(g) \/ GroupOnline(g) \/ GroupUpdate(g)
  \/ \E g \in Group, id \in Clamp, v \in Limits : cpu_uclamp_write(g, id, v)
  \/ \E g \in Group : WalkGroup(g)
  \/ WalkStore
  \/ \E t \in Task, g \in Group : MoveCss(t, g)
  \/ \E t \in Task : SyncTest(t)

LEMMA QuietRq == ASSUME NEW how, ClampInv(how), TreeTypeOK, QuietStep PROVE ClampInv(how)'
<1>1. RqInv(how) /\ RqShape /\ GoodValues(how)
  BY DEF ClampInv, RqInv
<1> DEFINE Same == /\ UNCHANGED <<stage, uclamp, rq, cpu, on_rq, policy, boosted, group>>
                   /\ UNCHANGED <<uclamp_req, uclamp_default>>
                   /\ css' \in [Task -> Group]
                   /\ sched_uclamp_used => sched_uclamp_used'
<1> USE DEF taskVars, rqVars, sysVars
<1>2. ASSUME NEW t \in Task, NEW a \in Attrs, SetAttrCheck(t, a) PROVE Same
  BY <1>1, <1>2 DEF SetAttrCheck, RqShape
<1>3. ASSUME NEW g \in Group \ {Root}, GroupAlloc(g) PROVE Same
  BY <1>1, <1>3 DEF GroupAlloc, RqShape
<1>4. ASSUME NEW g \in Group \ {Root}, GroupOnline(g) PROVE Same
  BY <1>1, <1>4 DEF GroupOnline, RqShape
<1>5. ASSUME NEW g \in Group \ {Root}, GroupUpdate(g) PROVE Same
  BY <1>1, <1>5 DEF GroupUpdate, RqShape
<1>6. ASSUME NEW g \in Group, NEW id \in Clamp, NEW v \in Limits, cpu_uclamp_write(g, id, v)
      PROVE  Same
  BY <1>1, <1>6 DEF cpu_uclamp_write, RqShape
<1>7. ASSUME NEW g \in Group, WalkGroup(g) PROVE Same
  BY <1>1, <1>7 DEF WalkGroup, RqShape
<1>8. ASSUME WalkStore PROVE Same
  BY <1>1, <1>8 DEF WalkStore, RqShape
<1>9. ASSUME NEW t \in Task, NEW g \in Group, MoveCss(t, g) PROVE Same
  BY <1>1, <1>9 DEF MoveCss, RqShape
<1>10. ASSUME NEW t \in Task, SyncTest(t) PROVE Same
  BY <1>1, <1>10 DEF SyncTest, RqShape
<1>11. Same
  BY <1>2, <1>3, <1>4, <1>5, <1>6, <1>7, <1>8, <1>9, <1>10 DEF QuietStep
<1>12. RqInv(how)'
  BY <1>1, <1>11, RqStutter
<1>13. GoodValues(how)'
  BY <1>1, <1>11, GoodStutter
<1> QED
  BY <1>12, <1>13 DEF ClampInv

KnobStep ==
  \/ \E k \in Knob : \E v \in Written[k] : SysctlWrite(k, v)
  \/ SysctlUndo \/ SysctlDefault \/ SysctlRtDefault

LEMMA KnobRq ==
  ASSUME NEW how, ClampInv(how), TreeTypeOK, KnobStep PROVE ClampInv(how)'
<1>1. /\ RqInv(how) /\ RqShape /\ GoodValues(how)
      /\ sysctl \in [Knob -> Nat] /\ op.knob \in Knob
  BY DEF ClampInv, RqInv, TreeTypeOK
<1>2. RqInv(how)'
  <2>1. /\ UNCHANGED <<stage, uclamp, rq, cpu, on_rq, policy, boosted, group, css>>
        /\ sched_uclamp_used => sched_uclamp_used'
    BY DEF KnobStep, SysctlWrite, SysctlUndo, SysctlDefault, SysctlRtDefault, taskVars, rqVars
  <2>2. css' \in [Task -> Group]
    BY <1>1, <2>1 DEF RqShape
  <2> QED
    BY <1>1, <2>1, <2>2, RqStutter
<1>3. CASE UNCHANGED <<uclamp_req, uclamp_default>>
  BY <1>1, <1>2, <1>3, GoodStutter DEF ClampInv
<1>4. CASE ~UNCHANGED <<uclamp_req, uclamp_default>>
  <2>1. SysctlDefault
    BY <1>4 DEF KnobStep, SysctlWrite, SysctlUndo, SysctlRtDefault, taskVars, sysVars
  <2>2. /\ uclamp_req' = uclamp_req /\ op.knob \in Clamp
        /\ uclamp_default' = [uclamp_default EXCEPT ![op.knob] = uclamp_se_set(sysctl[op.knob])]
    BY <1>4, <2>1 DEF SysctlDefault, taskVars
  <2>3. Rt(sysctl[op.knob], how)
    <3>1. sysctl["min"] \in Nat /\ sysctl["max"] \in Nat
      BY <1>1 DEF Knob, Clamp
    <3>2. sysctl["min"] <= Scale /\ sysctl["max"] <= Scale
      BY <2>1, <3>1, ScaleAssumption DEF SysctlDefault, SysctlValid
    <3>3. Rt(sysctl["min"], how) /\ Rt(sysctl["max"], how)
      BY <3>1, <3>2, ScaleAssumption DEF Rt
    <3> QED
      BY <2>2, <3>3 DEF Clamp
  <2>4. Good(uclamp_se_set(sysctl[op.knob]), how)
    BY <2>3, SetGood
  <2>5. GoodValues(how)'
    BY <1>1, <2>2, <2>4 DEF GoodValues
  <2> QED
    BY <1>2, <2>5 DEF ClampInv
<1> QED
  BY <1>3, <1>4

LEMMA StepRq ==
  ASSUME NEW how, ClampInv(how), TreeTypeOK, UserShape, [Next]_vars,
         how = "exact" => ~wrapped'
  PROVE  ClampInv(how)'
<1>1. CASE QuietStep
  BY <1>1, QuietRq
<1>2. CASE KnobStep
  BY <1>2, KnobRq
<1>3. ASSUME NEW t \in Task, NEW c \in CPU, Enqueue(t, c) PROVE ClampInv(how)'
  BY <1>3, EnqueueRq
<1>4. ASSUME NEW t \in Task, Dequeue(t) PROVE ClampInv(how)'
  BY <1>4, DequeueRq
<1>5. ASSUME NEW t \in Task, rt_mutex_setprio(t) PROVE ClampInv(how)'
  BY <1>5, BoostRq
<1>6. ASSUME NEW t \in Task, NEW a \in Attrs, SetPolicy(t, a) PROVE ClampInv(how)'
  <2>1. a \in Argument
    BY InputAssumption
  <2>2. SetScheduler(t, a) /\ sched_uclamp_used' = sched_uclamp_used
    BY <1>6 DEF SetPolicy
  <2> QED
    BY <2>1, <2>2, SchedulerRq
<1>7. ASSUME NEW x \in setattr, SetAttr(x) PROVE ClampInv(how)'
  <2> DEFINE t == x.task
             a == x.attr
  <2>1. t \in Task /\ a \in Argument
    BY DEF UserShape
  <2>2. SetScheduler(t, a) /\ sched_uclamp_used' = sched_uclamp_used
    BY <1>7 DEF SetAttr
  <2> HIDE DEF t, a
  <2> QED
    BY <2>1, <2>2, SchedulerRq
<1>8. ASSUME NEW t \in Task, NEW child \in Task, NEW reset \in Roof, Fork(t, child, reset)
      PROVE  ClampInv(how)'
  BY <1>8, ForkRq
<1>9. ASSUME NEW t \in Task, uclamp_post_fork(t) \/ PostForkSync(t) \/ SyncTask(t)
      PROVE  ClampInv(how)'
  BY <1>9, SyncRq
<1>10. ASSUME NEW t \in Task, WalkTask(t) PROVE ClampInv(how)'
  BY <1>10, UpdateRq
<1>11. ASSUME NEW t \in Task, sched_move_task(t) PROVE ClampInv(how)'
  BY <1>11, MoveRq
<1>12. CASE UNCHANGED vars
  <2>1. /\ UNCHANGED <<uclamp, rq, cpu, on_rq, policy, boosted, css, group, stage>>
        /\ UNCHANGED <<uclamp_req, uclamp_default, sysctl, op, sched_uclamp_used>>
    BY <1>12 DEF vars, taskVars, rqVars, sysVars
  <2>2. RqInv(how) /\ GoodValues(how) /\ css' \in [Task -> Group]
    BY <2>1 DEF ClampInv, RqInv, RqShape
  <2>3. RqInv(how)'
    BY <2>1, <2>2, RqStutter
  <2>4. GoodValues(how)'
    BY <2>1, <2>2, GoodStutter
  <2> QED
    BY <2>3, <2>4 DEF ClampInv
<1> QED
  BY <1>1, <1>2, <1>3, <1>4, <1>5, <1>6, <1>7, <1>8, <1>9, <1>10, <1>11, <1>12
     DEF Next, QuietStep, KnobStep

\* Once a request has been made that does not fit, none of these facts comes back.
LEMMA WrappedStays == ASSUME [Next]_vars, ~wrapped' PROVE ~wrapped
<1> USE DEF histVars
<1>1. CASE QuietStep
  BY <1>1
     DEF QuietStep, SetAttrCheck, GroupAlloc, GroupOnline, GroupUpdate, cpu_uclamp_write,
         WalkGroup, WalkStore, MoveCss, SyncTest
<1>2. CASE KnobStep
  BY <1>2 DEF KnobStep, SysctlWrite, SysctlUndo, SysctlDefault, SysctlRtDefault
<1>3. ASSUME NEW t \in Task, NEW c \in CPU, Enqueue(t, c) PROVE ~wrapped
  BY <1>3 DEF Enqueue
<1>4. ASSUME NEW t \in Task,
             Dequeue(t) \/ rt_mutex_setprio(t) \/ WalkTask(t) \/ sched_move_task(t)
      PROVE  ~wrapped
  BY <1>4 DEF Dequeue, rt_mutex_setprio, WalkTask, sched_move_task
<1>5. ASSUME NEW t, NEW a, SetScheduler(t, a) PROVE ~wrapped
  BY <1>5 DEF SetScheduler, TakesKnob
<1>6. ASSUME NEW t \in Task, NEW a \in Attrs, SetPolicy(t, a) PROVE ~wrapped
  BY <1>5, <1>6 DEF SetPolicy
<1>7. ASSUME NEW x \in setattr, SetAttr(x) PROVE ~wrapped
  BY <1>5, <1>7 DEF SetAttr
<1>8. ASSUME NEW t \in Task, NEW child \in Task, NEW reset \in Roof, Fork(t, child, reset)
      PROVE  ~wrapped
  BY <1>8 DEF Fork
<1>9. ASSUME NEW t \in Task, uclamp_post_fork(t) \/ PostForkSync(t) \/ SyncTask(t)
      PROVE  ~wrapped
  BY <1>9
     DEF uclamp_post_fork, PostForkSync, SyncTask, __uclamp_update_util_min_rt_default,
         TakesKnob
<1>10. CASE UNCHANGED vars
  BY <1>10 DEF vars
<1> QED
  BY <1>1, <1>2, <1>3, <1>4, <1>6, <1>7, <1>8, <1>9, <1>10 DEF Next, QuietStep, KnobStep

AccountInv == ClampInv("any") /\ (~wrapped => ClampInv("exact"))

\* While every value fits, a runqueue shows the largest value of its buckets, and it
\* covers every task.
LEMMA ShowsTop ==
  ASSUME ClampInv("exact"), NEW c \in CPU, Active(c) # {} PROVE CoversActive(c)
<1>1. Active(c) = On(uclamp, cpu, c) /\ Accounted(rq[c], Active(c), uclamp, "exact")
  BY DEF ClampInv, RqInv, RqShape, AllAccounted, Active, On
<1>2. ASSUME NEW id \in Clamp
      PROVE  /\ rq[c].value[id] = Max({rq[c].bucket[id][b] : b \in Bucket})
             /\ \A t \in Active(c) :
                  /\ rq[c].bucket[id][uclamp[t][id].bucket] \in
                       uclamp[t][id].value..rq[c].value[id]
                  /\ ~Warns(rq[c], id, uclamp[t][id])
  <2> DEFINE q == rq[c]
             A == Active(c)
  <2>1. q \in Queue /\ IsFiniteSet(A) /\ Counted(q, id, A, uclamp, "exact") /\ Top(q, id, "exact")
    BY <1>1 DEF Accounted
  <2> HIDE DEF q, A
  <2>2. q.value[id] \in Nat /\ \A b \in Bucket : q.bucket[id][b] \in Nat
    BY <2>1, ScaleAssumption DEF Queue, Value
  <2>3. q.value[id] = Max({q.bucket[id][b] : b \in Bucket})
    <3> DEFINE S == {q.bucket[id][b] : b \in Bucket}
               m == q.value[id]
    <3>1. m \in S /\ (\A y \in S : y <= m) /\ S \subseteq Nat /\ m \in Nat
      BY <2>1, <2>2 DEF Top
    <3> HIDE DEF S, m
    <3>2. \A y \in S : m >= y
      BY <3>1
    <3>3. ASSUME NEW x \in S, \A y \in S : x >= y PROVE x = m
      <4>1. x >= m /\ m >= x /\ x \in Nat
        BY <3>1, <3>2, <3>3
      <4> QED
        BY <3>1, <4>1
    <3>4. (CHOOSE x \in S : \A y \in S : x >= y) = m
      BY <3>1, <3>2, <3>3
    <3> QED
      BY <3>4 DEF Max, S, m
  <2>4. ASSUME NEW t \in A
        PROVE  /\ q.bucket[id][uclamp[t][id].bucket] \in uclamp[t][id].value..q.value[id]
               /\ ~Warns(q, id, uclamp[t][id])
    <3> DEFINE b == uclamp[t][id].bucket
    <3>1. b \in Bucket /\ q.tasks[id][b] \in Nat /\ q.tasks[id][b] > 0
      BY <2>1, MembersEmpty
    <3>2. uclamp[t][id].value \in Nat /\ uclamp[t][id].value <= q.bucket[id][b]
      BY <2>1, ScaleAssumption DEF Counted, Good, Se, Value
    <3>3. q.bucket[id][b] <= q.value[id]
      BY <2>1, <3>1 DEF Top
    <3> HIDE DEF b
    <3>4. q.bucket[id][b] \in uclamp[t][id].value..q.value[id]
      BY <2>2, <3>1, <3>2, <3>3
    <3>5. q.tasks[id][b] # 0 /\ ~(q.bucket[id][b] > q.value[id])
      BY <2>2, <3>1, <3>3
    <3> QED
      BY <3>4, <3>5 DEF Warns, b
  <2> QED
    BY <2>3, <2>4 DEF q, A
<1> QED
  BY <1>2 DEF CoversActive

\* The counters and the value are those of the tasks that are counted.
LEMMA ShowsAccounting == ASSUME AccountInv PROVE AccountingHolds
<1>1. RqShape /\ OnlyRunnable /\ AllAccounted("any") /\ (~wrapped => ClampInv("exact"))
  BY DEF AccountInv, ClampInv, RqInv
<1>2. ASSUME NEW t \in Task, uclamp[t] # NotActive
      PROVE  on_rq[t] /\ sched_uclamp_used /\ uclamp_enabled(class(policy[t], boosted[t]))
  BY <1>1, <1>2 DEF OnlyRunnable, uclamp_enabled
<1>3. ASSUME NEW c \in CPU
      PROVE  Active(c) = On(uclamp, cpu, c) /\ Accounted(rq[c], Active(c), uclamp, "any")
  BY <1>1 DEF AllAccounted, Active, On
<1>4. ASSUME NEW c \in CPU, NEW id \in Clamp, NEW b \in Bucket
      PROVE  rq[c].tasks[id][b] = Cardinality({t \in Active(c) : uclamp[t][id].bucket = b})
  BY <1>3 DEF Accounted, Counted, Members
<1>5. ASSUME NEW c \in CPU
      PROVE  IF Active(c) = {} THEN rq[c].idle /\ rq[c].value["min"] = 0 ELSE ~rq[c].idle
  BY <1>3 DEF Accounted
<1>6. BucketsCountActive
  BY <1>2, <1>4 DEF BucketsCountActive
<1>7. RqValueIsTop
  BY <1>1, <1>5, ShowsTop DEF RqValueIsTop
<1> QED
  BY <1>6, <1>7 DEF AccountingHolds

\* Whatever tasks do and whatever is written to the sysctls, the counters and the idle
\* flag of every runqueue are right, and so are its values and its buckets' until a
\* request was made that does not fit uclamp_se::value (uclamp_rq_inc_id,
\* uclamp_rq_dec_id, uclamp_rq_max_value).
THEOREM AccountingIsRight == Spec => []AccountingHolds
<1> DEFINE Inv == TreeInv /\ UserInv /\ AccountInv
<1>1. Init => Inv
  BY InitTree, InitUser, InitRq DEF AccountInv
<1>2. ASSUME Inv, [Next]_vars PROVE Inv'
  <2>1. TreeInv' /\ UserInv' /\ TreeTypeOK /\ UserShape
    BY <1>2, StepTree, StepUser DEF TreeInv, UserInv
  <2>2. ClampInv("any")'
    <3>1. ClampInv("any") /\ ("any" = "exact" => ~wrapped')
      BY <1>2 DEF AccountInv
    <3> QED
      BY <1>2, <2>1, <3>1, StepRq
  <2>3. ASSUME ~wrapped' PROVE ClampInv("exact")'
    <3>1. ClampInv("exact")
      BY <1>2, <2>3, WrappedStays DEF AccountInv
    <3>2. "exact" = "exact" => ~wrapped'
      BY <2>3
    <3> QED
      BY <1>2, <2>1, <3>1, <3>2, StepRq
  <2> QED
    BY <2>1, <2>2, <2>3 DEF AccountInv
<1>3. Inv => AccountingHolds
  BY ShowsAccounting
<1> QED
  BY <1>1, <1>2, <1>3, PTL DEF Spec

-----------------------------------------------------------------------------
(* Requests for boost that nobody made.                                    *)
\* The default for realtime tasks that holds until a written one was checked.
RtNow == IF Unchecked THEN op.val ELSE sysctl["rt"]
Awaits(t) == op.kind = "sync" /\ t \in op.todo
\* Nothing keeps t from the default of its policy.
Straight(t) == ~uclamp_req[t]["min"].user /\ astray[t] \cap Excuses(policy[t]) = {}
Follows(t) ==
  stage[t] # "none" /\ Straight(t) =>
    IF policy[t] = "fair" THEN uclamp_req[t]["min"].se.value = 0
    ELSE stage[t] = "live" /\ ~Awaits(t) => uclamp_req[t]["min"].se.value = RtNow

FollowShape ==
  /\ policy \in [Task -> Policy]
  /\ astray = [t \in Task |-> astray[t]]
  /\ RtNow \in 0..Scale
FollowInv == FollowShape /\ \A t \in Task : Follows(t)

LEMMA InitFollow == ASSUME Init PROVE FollowInv
<1>1. FollowShape
  BY ScaleAssumption DEF Init, FollowShape, RtNow, Unchecked, Idle, Knob, Policy
<1>2. ASSUME NEW t \in Task PROVE Follows(t)
  <2>1. uclamp_req[t]["min"].se.value = 0
    <3>1. uclamp_req[t]["min"] = Request(0, FALSE)
      BY DEF Init, NoRequest, uclamp_none, Clamp
    <3>2. 0 \in 0..Scale
      BY ScaleAssumption
    <3>3. Request(0, FALSE).se.value = 0
      BY <3>2, InRange
    <3> QED
      BY <3>1, <3>3
  <2>2. policy[t] = "fair"
    BY DEF Init
  <2> QED
    BY <2>1, <2>2 DEF Follows
<1> QED
  BY <1>1, <1>2 DEF FollowInv

\* Steps that concern neither requests nor policies.
LEMMA FollowStutter ==
  ASSUME FollowInv, UNCHANGED <<stage, policy, uclamp_req, astray>>, RtNow' = RtNow,
         \A t \in Task : Awaits(t) => Awaits(t)'
  PROVE  FollowInv'
<1>1. FollowShape'
  BY DEF FollowInv, FollowShape
<1>2. ASSUME NEW t \in Task PROVE Follows(t)'
  BY DEF FollowInv, Follows, Straight
<1> QED
  BY <1>1, <1>2 DEF FollowInv

\* The default for realtime tasks is written to a request.
LEMMA DefaultFollows ==
  ASSUME FollowShape, NEW t \in Task, NEW pol, NEW boost, TakesKnob(t, pol, boost),
         astray'[t] \cap Excuses(pol) = {}
  PROVE  pol # "fair" /\ Request(sysctl["rt"], FALSE).se.value = RtNow
<1>1. astray'[t] = IF pol # "fair" THEN IF Unchecked THEN {"unchecked"} ELSE {}
                   ELSE IF boost # "no" THEN {"boosted"} ELSE {"raced"}
  BY DEF TakesKnob, FollowShape
<1>2. pol # "fair" /\ ~Unchecked
  BY <1>1 DEF Excuses
<1>3. sysctl["rt"] = RtNow /\ sysctl["rt"] \in 0..Scale
  BY <1>2 DEF RtNow, FollowShape
<1> QED
  BY <1>2, <1>3, InRange

LEMMA SyncFollows ==
  ASSUME FollowInv, UserShape, NEW t \in Task, __uclamp_update_util_min_rt_default(t),
         UNCHANGED <<policy, sysctl>>, RtNow' = RtNow,
         \A s \in Task \ {t} : Awaits(s) => Awaits(s)',
         \A s \in Task \ {t} : stage'[s] = stage[s]
  PROVE  FollowInv'
<1>1. FollowShape /\ \A s \in Task : Follows(s)
  BY DEF FollowInv
<1>2. FollowShape'
  BY <1>1 DEF FollowShape, __uclamp_update_util_min_rt_default, TakesKnob
<1>3. ASSUME NEW s \in Task \ {t} PROVE Follows(s)'
  <2>1. uclamp_req'[s] = uclamp_req[s] /\ astray'[s] = astray[s]
    BY <1>1 DEF __uclamp_update_util_min_rt_default, TakesKnob, UserShape, FollowShape
  <2> QED
    BY <1>1, <2>1 DEF Follows, Straight
<1>4. CASE uclamp_req[t]["min"].user
  <2>1. uclamp_req' = uclamp_req
    BY <1>4 DEF __uclamp_update_util_min_rt_default
  <2> QED
    BY <1>2, <1>3, <1>4, <2>1 DEF FollowInv, Follows, Straight
<1>5. CASE ~uclamp_req[t]["min"].user
  <2>1. uclamp_req'[t]["min"] = Request(sysctl["rt"], FALSE)
    <3>1. uclamp_req' = [uclamp_req EXCEPT ![t]["min"] = Request(sysctl["rt"], FALSE)]
      BY <1>5 DEF __uclamp_update_util_min_rt_default
    <3>2. uclamp_req = [s \in Task |-> [id \in Clamp |-> uclamp_req[s][id]]] /\ "min" \in Clamp
      BY DEF UserShape, Clamp
    <3> HIDE DEF Request
    <3> QED
      BY <3>1, <3>2
  <2>2. TakesKnob(t, policy[t], boosted[t])
    BY <1>5 DEF __uclamp_update_util_min_rt_default
  <2>3. astray'[t] \cap Excuses(policy[t]) = {} =>
          policy[t] # "fair" /\ uclamp_req'[t]["min"].se.value = RtNow
    BY <1>1, <2>1, <2>2, DefaultFollows
  <2> QED
    BY <1>2, <1>3, <2>3 DEF FollowInv, Follows, Straight
<1> QED
  BY <1>4, <1>5

\* A child that is not realtime any more has no default to wait for.
LEMMA PostForkFollows ==
  ASSUME FollowInv, UserShape, NEW t \in Task, uclamp_post_fork(t) \/ PostForkSync(t)
  PROVE  FollowInv'
<1>1. UNCHANGED <<policy, sysctl, op>> /\ stage[t] # "none"
  BY DEF uclamp_post_fork, PostForkSync, sysVars
<1>2. RtNow' = RtNow /\ (\A s \in Task : Awaits(s)' <=> Awaits(s))
  BY <1>1 DEF RtNow, Unchecked, Awaits
<1>3. \A s \in Task \ {t} : stage'[s] = stage[s]
  BY DEF uclamp_post_fork, PostForkSync, UserShape
<1>4. CASE PostForkSync(t)
  BY <1>1, <1>2, <1>3, <1>4, SyncFollows DEF PostForkSync
<1>5. CASE uclamp_post_fork(t)
  <2>1. UNCHANGED <<uclamp_req, astray>>
    BY <1>5 DEF uclamp_post_fork, histVars
  <2>2. stage'[t] = "live" => policy[t] = "fair"
    <3>1. stage'[t] = "live" => ~rt_task(policy[t], boosted[t])
      BY <1>5 DEF uclamp_post_fork, UserShape
    <3>2. policy[t] \in Policy
      BY DEF FollowInv, FollowShape
    <3> QED
      BY <3>1, <3>2 DEF rt_task, class, Policy
  <2>3. FollowShape'
    BY <1>1, <1>2, <2>1 DEF FollowInv, FollowShape
  <2>4. ASSUME NEW s \in Task PROVE Follows(s)'
    BY <1>1, <1>2, <1>3, <2>1, <2>2 DEF FollowInv, Follows, Straight
  <2> QED
    BY <2>3, <2>4 DEF FollowInv
<1> QED
  BY <1>4, <1>5

\* The sweep passes one task on.
LEMMA PassedOn ==
  ASSUME TreeInv, NEW t \in Task, op.kind = "sync", op' = Next_task(t), UNCHANGED sysctl
  PROVE  RtNow' = RtNow /\ \A s \in Task \ {t} : Awaits(s) => Awaits(s)'
<1>1. op'.kind # "check" /\ \A s \in Task \ {t} : Awaits(s) => Awaits(s)'
  <2>1. CASE op.todo = {t}
    <3>1. op' = Walk(op.rest)
      BY <2>1 DEF Next_task
    <3>2. op'.kind # "check"
      BY <3>1 DEF Walk, Idle
    <3> QED
      BY <2>1, <3>2 DEF Awaits
  <2>2. CASE op.todo # {t}
    <3>1. op' = [op EXCEPT !.todo = @ \ {t}, !.on = {}]
      BY <2>2 DEF Next_task
    <3>2. op'.kind = "sync" /\ op'.todo = op.todo \ {t}
      BY <3>1 DEF TreeInv, TreeTypeOK
    <3> QED
      BY <3>2 DEF Awaits
  <2> QED
    BY <2>1, <2>2
<1> QED
  BY <1>1 DEF RtNow, Unchecked

LEMMA SyncTaskFollows ==
  ASSUME FollowInv, UserShape, TreeInv, NEW t \in Task, SyncTask(t)
  PROVE  FollowInv'
<1>1. /\ __uclamp_update_util_min_rt_default(t) /\ UNCHANGED <<policy, sysctl, stage>>
      /\ op.kind = "sync" /\ op' = Next_task(t)
  BY DEF SyncTask, sysVars
<1>2. RtNow' = RtNow /\ \A s \in Task \ {t} : Awaits(s) => Awaits(s)'
  BY <1>1, PassedOn
<1> QED
  BY <1>1, <1>2, SyncFollows

\* A task that is passed over without a lock is not realtime.
LEMMA SyncTestFollows ==
  ASSUME FollowInv, TreeInv, NEW t \in Task, SyncTest(t) PROVE FollowInv'
<1>1. UNCHANGED <<stage, policy, uclamp_req, astray, sysctl>> /\ op.kind = "sync"
  BY DEF SyncTest, taskVars, sysVars, histVars
<1>2. CASE op' = [op EXCEPT !.on = {t}]
  <2>1. op'.kind = op.kind /\ op'.todo = op.todo /\ op'.val = op.val /\ op'.knob = op.knob
    BY <1>2 DEF TreeInv, TreeTypeOK
  <2>2. RtNow' = RtNow /\ \A s \in Task : Awaits(s) => Awaits(s)'
    BY <1>1, <2>1 DEF RtNow, Unchecked, Awaits
  <2> QED
    BY <1>1, <2>2, FollowStutter
<1>3. CASE op' = Next_task(t) /\ ~rt_task(policy[t], boosted[t])
  <2>1. RtNow' = RtNow /\ \A s \in Task \ {t} : Awaits(s) => Awaits(s)'
    BY <1>1, <1>3, PassedOn
  <2>2. policy[t] = "fair"
    BY <1>3 DEF FollowInv, FollowShape, rt_task, class, Policy
  <2>3. FollowShape'
    BY <1>1, <2>1 DEF FollowInv, FollowShape
  <2>4. ASSUME NEW s \in Task PROVE Follows(s)'
    BY <1>1, <2>1, <2>2 DEF FollowInv, Follows, Straight
  <2> QED
    BY <2>3, <2>4 DEF FollowInv
<1> QED
  BY <1>2, <1>3 DEF SyncTest

\* The request for boost that a call leaves.
LEMMA CallMin ==
  ASSUME NEW r, NEW attr, NEW rt
  PROVE  LET m == setscheduler_uclamp(r, attr, rt)["min"]
         IN  \/ m.user
             \/ /\ uclamp_reset(attr, "min", r["min"].user)
                /\ rt => m = Request(sysctl["rt"], FALSE)
                /\ ~rt => m = Request(0, FALSE)
             \/ ~uclamp_reset(attr, "min", r["min"].user) /\ m = r["min"]
<1>1. CASE "min" \in DOMAIN attr.util /\ attr.util["min"] # -1
  BY <1>1, UserOf DEF setscheduler_uclamp, Clamp
<1>2. CASE ~("min" \in DOMAIN attr.util /\ attr.util["min"] # -1)
  BY <1>2 DEF setscheduler_uclamp, Clamp, uclamp_none
<1> QED
  BY <1>1, <1>2

LEMMA SchedulerFollows ==
  ASSUME FollowInv, UserShape, NEW t \in Task, NEW attr \in Argument, SetScheduler(t, attr)
  PROVE  FollowInv'
<1>1. FollowShape /\ \A s \in Task : Follows(s)
  BY DEF FollowInv
<1> DEFINE pol == IF attr.policy = "keep" THEN policy[t] ELSE attr.policy
           rt == rt_task(pol, boosted[t])
           r == setscheduler_uclamp(uclamp_req[t], attr, rt)
           reset == uclamp_reset(attr, "min", uclamp_req[t]["min"].user)
           kept == (pol = "fair") # (policy[t] = "fair")
<1>2. /\ uclamp_req' = [uclamp_req EXCEPT ![t] = r]
      /\ policy' = [policy EXCEPT ![t] = pol]
      /\ UNCHANGED <<stage, sysctl, op>>
      /\ IF reset /\ rt THEN TakesKnob(t, pol, boosted[t])
         ELSE astray' = [astray EXCEPT ![t] =
                IF r["min"].user \/ reset THEN {} ELSE IF kept THEN @ \cup {"kept"} ELSE @]
  BY DEF SetScheduler, sysVars
<1>3. \/ r["min"].user
      \/ /\ reset
         /\ rt => r["min"] = Request(sysctl["rt"], FALSE)
         /\ ~rt => r["min"] = Request(0, FALSE)
      \/ ~reset /\ r["min"] = uclamp_req[t]["min"]
  <2> HIDE DEF rt
  <2> QED
    BY CallMin
<1>9. pol \in Policy
  BY <1>1 DEF FollowShape, Argument
<1> HIDE DEF pol, rt, r, reset
<1>4. /\ uclamp_req'[t] = r /\ policy'[t] = pol
      /\ \A s \in Task \ {t} : uclamp_req'[s] = uclamp_req[s] /\ policy'[s] = policy[s]
                               /\ astray'[s] = astray[s]
  BY <1>1, <1>2 DEF UserShape, FollowShape, TakesKnob
<1>5. RtNow' = RtNow /\ (\A s \in Task : Awaits(s)' <=> Awaits(s))
  BY <1>2 DEF RtNow, Unchecked, Awaits
<1>6. FollowShape'
  BY <1>1, <1>2, <1>5, <1>9 DEF FollowShape, TakesKnob
<1>7. ASSUME NEW s \in Task \ {t} PROVE Follows(s)'
  BY <1>1, <1>2, <1>4, <1>5 DEF Follows, Straight
<1>8. Follows(t)'
  <2>1. CASE r["min"].user
    BY <1>4, <2>1 DEF Follows, Straight
  <2>2. CASE ~r["min"].user /\ reset /\ rt
    <3>1. TakesKnob(t, pol, boosted[t]) /\ r["min"] = Request(sysctl["rt"], FALSE)
      BY <1>2, <1>3, <2>2
    <3>2. astray'[t] \cap Excuses(pol) = {} => pol # "fair" /\ r["min"].se.value = RtNow
      BY <1>1, <3>1, DefaultFollows
    <3> QED
      BY <1>4, <1>5, <3>2 DEF Follows, Straight
  <2>3. CASE ~r["min"].user /\ reset /\ ~rt
    <3>1. r["min"] = Request(0, FALSE) /\ pol = "fair"
      BY <1>3, <1>9, <2>3 DEF rt, rt_task, class, Policy
    <3>2. Request(0, FALSE).se.value = 0
      <4>1. 0 \in 0..Scale
        BY ScaleAssumption
      <4> QED
        BY <4>1, InRange
    <3> QED
      BY <1>4, <3>1, <3>2 DEF Follows
  <2>4. CASE ~r["min"].user /\ ~reset
    <3>1. astray' = [astray EXCEPT ![t] = IF kept THEN @ \cup {"kept"} ELSE @]
      BY <1>2, <2>4
    <3>2. astray'[t] \cap Excuses(pol) = {} =>
            astray[t] \cap Excuses(policy[t]) = {} /\ ~kept
      BY <1>1, <3>1 DEF FollowShape, Excuses
    <3>3. r["min"] = uclamp_req[t]["min"]
      BY <1>3, <2>4
    <3> QED
      BY <1>1, <1>2, <1>4, <1>5, <3>2, <3>3 DEF Follows, Straight
  <2> QED
    BY <2>1, <2>2, <2>3, <2>4
<1> QED
  BY <1>6, <1>7, <1>8 DEF FollowInv

LEMMA ForkFollows ==
  ASSUME FollowInv, UserShape, NEW t \in Task, NEW child \in Task, NEW reset \in Roof,
         Fork(t, child, reset)
  PROVE  FollowInv'
<1>1. FollowShape /\ \A s \in Task : Follows(s)
  BY DEF FollowInv
<1> DEFINE r == IF reset THEN NoRequest ELSE uclamp_req[t]
<1>2. /\ stage[t] = "live" /\ UNCHANGED <<sysctl, op>>
      /\ stage' = [stage EXCEPT ![child] = "new"]
      /\ policy' = [policy EXCEPT ![child] = IF reset THEN "fair" ELSE policy[t]]
      /\ uclamp_req' = [uclamp_req EXCEPT ![child] = r]
      /\ astray' = [astray EXCEPT ![child] = IF reset THEN {} ELSE astray[t]]
  BY DEF Fork, uclamp_fork, sysVars
<1> HIDE DEF r
<1>3. RtNow' = RtNow /\ (\A s \in Task : Awaits(s)' <=> Awaits(s))
  BY <1>2 DEF RtNow, Unchecked, Awaits
<1>4. FollowShape'
  BY <1>1, <1>2, <1>3 DEF FollowShape, Policy
<1>5. ASSUME NEW s \in Task \ {child} PROVE Follows(s)'
  <2>1. /\ uclamp_req'[s] = uclamp_req[s] /\ policy'[s] = policy[s]
        /\ astray'[s] = astray[s] /\ stage'[s] = stage[s]
    BY <1>1, <1>2 DEF UserShape, FollowShape
  <2> QED
    BY <1>1, <1>3, <2>1 DEF Follows, Straight
<1>6. Follows(child)'
  <2>1. /\ uclamp_req'[child] = r /\ stage'[child] = "new"
        /\ policy'[child] = IF reset THEN "fair" ELSE policy[t]
        /\ astray'[child] = IF reset THEN {} ELSE astray[t]
    BY <1>1, <1>2 DEF UserShape, FollowShape
  <2>2. CASE reset
    <3>1. 0 \in 0..Scale /\ r["min"] = Request(0, FALSE)
      BY <2>2, ScaleAssumption DEF r, NoRequest, uclamp_none, Clamp
    <3>2. Request(0, FALSE).se.value = 0
      BY <3>1, InRange
    <3> QED
      BY <2>1, <2>2, <3>1, <3>2 DEF Follows
  <2>3. CASE ~reset
    BY <1>1, <1>2, <2>1, <2>3 DEF Follows, Straight, r
  <2> QED
    BY <2>2, <2>3
<1> QED
  BY <1>4, <1>5, <1>6 DEF FollowInv

LEMMA KnobFollows ==
  ASSUME FollowInv, TreeInv, UserShape, KnobStep PROVE FollowInv'
<1>1. /\ FollowShape /\ (\A s \in Task : Follows(s))
      /\ sysctl \in [Knob -> Nat] /\ op.knob \in Knob /\ "rt" \in Knob
      /\ RtNow \in 0..Scale
  BY DEF FollowInv, FollowShape, TreeInv, TreeTypeOK, Knob
<1>2. UNCHANGED <<stage, policy, uclamp_req, astray>>
  BY DEF KnobStep, SysctlWrite, SysctlUndo, SysctlDefault, SysctlRtDefault, taskVars, histVars
<1>3. ASSUME NEW k \in Knob, NEW v \in Written[k], SysctlWrite(k, v) PROVE FollowInv'
  <2>1. op.kind = "idle" /\ sysctl' = [sysctl EXCEPT ![k] = v]
        /\ op' = [Idle EXCEPT !.kind = "check", !.knob = k, !.val = sysctl[k]]
    BY <1>3 DEF SysctlWrite
  <2>2. op'.knob = k /\ op'.val = sysctl[k] /\ op'.kind = "check"
    BY <2>1 DEF Idle
  <2>3. RtNow' = RtNow /\ \A s \in Task : ~Awaits(s)
    BY <1>1, <2>1, <2>2 DEF RtNow, Unchecked, Awaits
  <2> QED
    BY <1>2, <2>3, FollowStutter
<1>4. ASSUME SysctlUndo PROVE FollowInv'
  <2>1. op.kind = "check" /\ sysctl' = [sysctl EXCEPT ![op.knob] = op.val] /\ op'.kind = "idle"
    BY <1>4 DEF SysctlUndo, Idle
  <2>2. RtNow' = RtNow /\ \A s \in Task : ~Awaits(s)
    BY <1>1, <2>1 DEF RtNow, Unchecked, Awaits
  <2> QED
    BY <1>2, <2>2, FollowStutter
<1>5. ASSUME SysctlDefault PROVE FollowInv'
  <2>1. op.kind = "check" /\ op.knob # "rt" /\ sysctl' = sysctl
        /\ (op' = Idle \/ op' = Walk(Subtree(Root)))
    BY <1>5 DEF SysctlDefault, SysctlValid, Clamp
  <2>2. op'.kind # "check"
    <3>1. Idle.kind # "check" /\ Walk(Subtree(Root)).kind # "check"
      BY DEF Idle, Walk
    <3> QED
      BY <2>1, <3>1
  <2>3. RtNow' = RtNow /\ \A s \in Task : ~Awaits(s)
    BY <1>1, <2>1, <2>2 DEF RtNow, Unchecked, Awaits
  <2> QED
    BY <1>2, <2>3, FollowStutter
<1>6. ASSUME SysctlRtDefault PROVE FollowInv'
  <2>1. op.kind = "check" /\ op.knob = "rt" /\ sysctl' = sysctl /\ sysctl["rt"] \in 0..Scale
    BY <1>1, <1>6, ScaleAssumption DEF SysctlRtDefault, SysctlValid, sysVars
  <2>2. CASE sysctl["rt"] = op.val
    <3>1. op'.kind = "idle"
      BY <1>6, <2>2 DEF SysctlRtDefault, Idle
    <3>2. RtNow' = RtNow /\ \A s \in Task : ~Awaits(s)
      BY <2>1, <2>2, <3>1 DEF RtNow, Unchecked, Awaits
    <3> QED
      BY <1>2, <3>2, FollowStutter
  <2>3. CASE sysctl["rt"] # op.val
    <3>1. op' = IF Visible = {} THEN Idle ELSE [Idle EXCEPT !.kind = "sync", !.todo = Visible]
      BY <1>6, <2>3 DEF SysctlRtDefault
    <3>2. op'.kind # "check" /\ \A s \in Visible : Awaits(s)'
      BY <3>1 DEF Awaits, Idle
    <3>3. RtNow' = sysctl["rt"]
      BY <2>1, <3>2 DEF RtNow, Unchecked
    <3>4. FollowShape'
      BY <1>1, <1>2, <2>1, <3>3 DEF FollowShape
    <3>5. ASSUME NEW s \in Task PROVE Follows(s)'
      BY <1>1, <1>2, <3>2 DEF Follows, Straight, Visible
    <3> QED
      BY <3>4, <3>5 DEF FollowInv
  <2> QED
    BY <2>2, <2>3
<1> QED
  BY <1>3, <1>4, <1>5, <1>6 DEF KnobStep

\* Steps that change neither a request nor a policy nor a sysctl.
PlainStep ==
  \/ QuietStep
  \/ \E t \in Task, c \in CPU : Enqueue(t, c)
  \/ \E t \in Task : Dequeue(t) \/ rt_mutex_setprio(t) \/ WalkTask(t) \/ sched_move_task(t)

LEMMA PlainFollows ==
  ASSUME FollowInv, TreeInv, PlainStep PROVE FollowInv'
<1> DEFINE Same == UNCHANGED <<stage, policy, uclamp_req, astray, sysctl>>
           Still == op' = op
           Free == op.kind \notin {"check", "sync"} /\ op'.kind # "check"
<1>0. op \in [kind : {"idle", "check", "walk", "store", "tasks", "sync"},
              knob : Knob, val : Nat, rest : SUBSET Group, at : Group,
              todo : SUBSET Task, on : SUBSET Task]
  BY DEF TreeInv, TreeTypeOK
<1> USE DEF taskVars, sysVars, histVars
<1>1. ASSUME NEW t \in Task, NEW a \in Attrs, SetAttrCheck(t, a) PROVE Same /\ Still
  BY <1>1 DEF SetAttrCheck
<1>2. ASSUME NEW g \in Group \ {Root}, GroupAlloc(g) \/ GroupOnline(g) PROVE Same /\ Still
  BY <1>2 DEF GroupAlloc, GroupOnline
<1>3. ASSUME NEW g \in Group \ {Root}, GroupUpdate(g) PROVE Same /\ Free
  BY <1>3 DEF GroupUpdate, Walk, Idle
<1>4. ASSUME NEW g \in Group, NEW id \in Clamp, NEW v \in Limits, cpu_uclamp_write(g, id, v)
      PROVE  Same /\ Free
  BY <1>4 DEF cpu_uclamp_write, Walk, Idle
<1>5. ASSUME NEW g \in Group, WalkGroup(g) PROVE Same /\ Free
  <2>1. op'.kind # "check"
    <3>1. CASE op' = Walk(op.rest \ Subtree(g))
      BY <3>1 DEF Walk, Idle
    <3>2. CASE op' = [op EXCEPT !.kind = "store", !.at = g, !.rest = @ \ {g},
                                !.val = Effective(g)["max"]]
      BY <1>0, <3>2
    <3> QED
      BY <1>5, <3>1, <3>2 DEF WalkGroup
  <2> QED
    BY <1>5, <2>1 DEF WalkGroup
<1>6. ASSUME WalkStore PROVE Same /\ Free
  <2>1. op'.kind # "check"
    BY <1>0, <1>6 DEF WalkStore, Walk, Idle
  <2> QED
    BY <1>6, <2>1 DEF WalkStore
<1>7. ASSUME NEW t \in Task, NEW g \in Group, MoveCss(t, g) PROVE Same /\ Still
  BY <1>7 DEF MoveCss
<1>8. ASSUME NEW t \in Task, NEW c \in CPU, Enqueue(t, c) PROVE Same /\ Still
  BY <1>8 DEF Enqueue
<1>9. ASSUME NEW t \in Task, Dequeue(t) \/ rt_mutex_setprio(t) \/ sched_move_task(t)
      PROVE  Same /\ Still
  BY <1>9 DEF Dequeue, rt_mutex_setprio, sched_move_task
<1>10. ASSUME NEW t \in Task, WalkTask(t) PROVE Same /\ Free
  <2>1. op'.kind # "check"
    BY <1>0, <1>10 DEF WalkTask, Next_task, Walk, Idle
  <2> QED
    BY <1>10, <2>1 DEF WalkTask
<1>11. ASSUME Same, Still \/ Free PROVE FollowInv'
  <2>1. RtNow' = RtNow /\ \A t \in Task : Awaits(t) => Awaits(t)'
    BY <1>11 DEF RtNow, Unchecked, Awaits
  <2> QED
    BY <1>11, <2>1, FollowStutter
<1>12. CASE \E t \in Task : SyncTest(t)
  BY <1>12, SyncTestFollows
<1>13. CASE ~\E t \in Task : SyncTest(t)
  <2>1. Same /\ (Still \/ Free)
    BY <1>1, <1>2, <1>3, <1>4, <1>5, <1>6, <1>7, <1>8, <1>9, <1>10, <1>13
       DEF PlainStep, QuietStep
  <2> QED
    BY <1>11, <2>1
<1> QED
  BY <1>12, <1>13

LEMMA StepFollows ==
  ASSUME FollowInv, TreeInv, UserShape, [Next]_vars PROVE FollowInv'
<1>1. CASE PlainStep
  BY <1>1, PlainFollows
<1>2. CASE KnobStep
  BY <1>2, KnobFollows
<1>3. ASSUME NEW t \in Task, NEW a \in Attrs, SetPolicy(t, a) PROVE FollowInv'
  BY <1>3, SchedulerFollows, InputAssumption DEF SetPolicy
<1>4. ASSUME NEW x \in setattr, SetAttr(x) PROVE FollowInv'
  <2> DEFINE t == x.task
             a == x.attr
  <2>1. t \in Task /\ a \in Argument /\ SetScheduler(t, a)
    BY <1>4 DEF UserShape, SetAttr
  <2> HIDE DEF t, a
  <2> QED
    BY <2>1, SchedulerFollows
<1>5. ASSUME NEW t \in Task, NEW child \in Task, NEW reset \in Roof, Fork(t, child, reset)
      PROVE  FollowInv'
  BY <1>5, ForkFollows
<1>6. ASSUME NEW t \in Task, uclamp_post_fork(t) \/ PostForkSync(t) PROVE FollowInv'
  BY <1>6, PostForkFollows
<1>7. ASSUME NEW t \in Task, SyncTask(t) PROVE FollowInv'
  BY <1>7, SyncTaskFollows
<1>8. CASE UNCHANGED vars
  <2>1. UNCHANGED <<stage, policy, uclamp_req, astray, sysctl, op>>
    BY <1>8 DEF vars, taskVars, sysVars, histVars
  <2>2. RtNow' = RtNow /\ \A t \in Task : Awaits(t) => Awaits(t)'
    BY <2>1 DEF RtNow, Unchecked, Awaits
  <2> QED
    BY <2>1, <2>2, FollowStutter
<1> QED
  BY <1>1, <1>2, <1>3, <1>4, <1>5, <1>6, <1>7, <1>8 DEF Next, PlainStep, QuietStep, KnobStep

\* A request for boost that userspace has not made is the default of the task's
\* policy at rest, unless the task went astray in a named way: a fork and the sweep
\* of sysctl_sched_uclamp_handler never both miss a new default.
THEOREM DefaultsFollowPolicy == Spec => []RequestFollowsPolicy
<1> DEFINE Inv == TreeInv /\ UserInv /\ FollowInv
<1>1. Init => Inv
  BY InitTree, InitUser, InitFollow
<1>2. Inv /\ [Next]_vars => Inv'
  BY StepTree, StepUser, StepFollows DEF UserInv
<1>3. Inv => RequestFollowsPolicy
  <2> SUFFICES ASSUME Inv, AtRest, NEW t \in Task, stage[t] = "live",
                      ~uclamp_req[t]["min"].user, astray[t] \cap Excuses(policy[t]) = {}
               PROVE  uclamp_req[t]["min"].se.value = IF policy[t] = "fair" THEN 0 ELSE sysctl["rt"]
    BY DEF RequestFollowsPolicy
  <2>1. RtNow = sysctl["rt"] /\ ~Awaits(t)
    BY DEF AtRest, RtNow, Unchecked, Awaits
  <2> QED
    BY <2>1 DEF FollowInv, Follows, Straight
<1> QED
  BY <1>1, <1>2, <1>3, PTL DEF Spec

-----------------------------------------------------------------------------
(* The least clamps on a path, by induction over its length.               *)
\* Induction over the naturals, for a set instead of a predicate.
LEMMA NatInduct ==
  ASSUME NEW G, 0 \in G, \A n \in Nat : n \in G => n + 1 \in G
  PROVE  Nat \subseteq G
<1>1. ASSUME Nat \ G # {} PROVE FALSE
  <2>1. PICK n \in Nat \ G : \A m \in Nat \ G : n =< m
    BY <1>1, NatMin
  <2>2. n - 1 \in Nat /\ n - 1 \in G
    BY <2>1
  <2> QED
    BY <2>1, <2>2
<1> QED
  BY <1>1

\* What EffectiveIsLeast says of one group.
LeastAt(g) ==
  /\ \E h \in Ancestors[g] : tg_eff[g]["max"] = tg_req[h]["max"]
  /\ \A h \in Ancestors[g] : tg_eff[g]["max"] <= tg_req[h]["max"]
  /\ \E h \in Ancestors[g], id \in Clamp : tg_eff[g]["min"] = tg_req[h][id]
  /\ \A h \in Ancestors[g], id \in Clamp : tg_eff[g]["min"] <= tg_req[h][id]

LEMMA LeastRoot ==
  ASSUME TreeTypeOK, Current(Root) PROVE LeastAt(Root)
<1>1. Ancestors[Root] = {Root} /\ Root \in Group
  BY AncestorsAssumption, GroupAssumption
<1> DEFINE q == tg_req[Root]
           e == tg_eff[Root]
<1>2. q["min"] \in Nat /\ q["max"] \in Nat
  BY <1>1, ScaleAssumption DEF TreeTypeOK, Clamp
<1>3. e["max"] = q["max"] /\ e["min"] = Least(q["min"], q["max"])
  BY DEF Current, Effective, Clamp
<1> HIDE DEF q, e
<1>4. /\ e["min"] = q["min"] \/ e["min"] = q["max"]
      /\ e["min"] <= q["min"] /\ e["min"] <= q["max"] /\ e["max"] <= q["max"]
  BY <1>2, <1>3 DEF Least
<1> QED
  BY <1>1, <1>3, <1>4 DEF LeastAt, Clamp, q, e

LEMMA LeastBelow ==
  ASSUME TreeTypeOK, NEW g \in Group \ {Root}, tg[g] = "online", Current(g), LeastAt(Parent[g])
  PROVE  LeastAt(g)
<1> DEFINE p == Parent[g]
           q == tg_req[g]
           e == tg_eff[g]
           f == tg_eff[p]
<1>1. p \in Group /\ Ancestors[g] = {g} \cup Ancestors[p] /\ Ancestors[p] \subseteq Group
  BY GroupAssumption, AncestorsAssumption
<1>2. /\ q["min"] \in Nat /\ q["max"] \in Nat /\ e["min"] \in Nat /\ e["max"] \in Nat
      /\ f["min"] \in Nat /\ f["max"] \in Nat
      /\ \A h \in Ancestors[p], id \in Clamp : tg_req[h][id] \in Nat
  BY <1>1, ScaleAssumption DEF TreeTypeOK, Clamp
<1>3. /\ e["max"] = Least(q["max"], f["max"])
      /\ e["min"] = Least(Least(q["min"], f["min"]), Least(q["max"], f["max"]))
  BY DEF Current, Effective, Clamp
<1>4. /\ \E h \in Ancestors[p] : f["max"] = tg_req[h]["max"]
      /\ \A h \in Ancestors[p] : f["max"] <= tg_req[h]["max"]
      /\ \E h \in Ancestors[p], id \in Clamp : f["min"] = tg_req[h][id]
      /\ \A h \in Ancestors[p], id \in Clamp : f["min"] <= tg_req[h][id]
  BY DEF LeastAt
<1>5. f["min"] <= f["max"]
  BY <1>4 DEF Clamp
<1> HIDE DEF p, q, e, f
<1>6. /\ e["max"] = q["max"] \/ e["max"] = f["max"]
      /\ e["max"] <= q["max"] /\ e["max"] <= f["max"]
      /\ e["min"] = q["min"] \/ e["min"] = q["max"] \/ e["min"] = f["min"]
      /\ e["min"] <= q["min"] /\ e["min"] <= q["max"] /\ e["min"] <= f["min"]
  BY <1>2, <1>3, <1>5 DEF Least
<1>7. /\ \E h \in Ancestors[g] : e["max"] = tg_req[h]["max"]
      /\ \E h \in Ancestors[g], id \in Clamp : e["min"] = tg_req[h][id]
  BY <1>1, <1>4, <1>6 DEF q, Clamp
<1>8. ASSUME NEW h \in Ancestors[p]
      PROVE  e["max"] <= tg_req[h]["max"] /\ \A id \in Clamp : e["min"] <= tg_req[h][id]
  <2>1. f["max"] <= tg_req[h]["max"] /\ tg_req[h]["max"] \in Nat
    BY <1>2, <1>4 DEF Clamp
  <2>2. e["max"] <= tg_req[h]["max"]
    BY <1>2, <1>6, <2>1
  <2>3. ASSUME NEW id \in Clamp PROVE e["min"] <= tg_req[h][id]
    <3>1. f["min"] <= tg_req[h][id] /\ tg_req[h][id] \in Nat
      BY <1>2, <1>4
    <3> QED
      BY <1>2, <1>6, <3>1
  <2> QED
    BY <2>2, <2>3
<1>9. e["max"] <= tg_req[g]["max"] /\ \A id \in Clamp : e["min"] <= tg_req[g][id]
  BY <1>6 DEF q, Clamp
<1> QED
  BY <1>1, <1>7, <1>8, <1>9 DEF LeastAt, e

LEMMA LeastEverywhere ==
  ASSUME TreeInv, op.kind \notin Holding, NEW g \in Group, tg[g] = "online"
  PROVE  Current(g) /\ LeastAt(g) /\ Root \in Ancestors[g]
<1>1. ASSUME NEW h \in Group, tg[h] = "online" PROVE Current(h)
  BY <1>1 DEF TreeInv, RestInv, Fresh, Due, Storing, Holding
<1> DEFINE G == {n \in Nat : \A h \in Group :
                    tg[h] = "online" /\ Cardinality(Ancestors[h]) = n
                      => LeastAt(h) /\ Root \in Ancestors[h]}
<1>2. \A h \in Group : IsFiniteSet(Ancestors[h]) /\ Cardinality(Ancestors[h]) \in Nat
                       /\ h \in Ancestors[h]
  <2>1. \A h \in Group : h \in Ancestors[h] /\ IsFiniteSet(Ancestors[h])
    BY AncestorsAssumption
  <2> QED
    BY <2>1, FS_CardinalityType
<1>3. 0 \in G
  BY <1>2, FS_EmptySet
<1>4. ASSUME NEW n \in Nat, n \in G PROVE n + 1 \in G
  <2> SUFFICES ASSUME NEW h \in Group, tg[h] = "online", Cardinality(Ancestors[h]) = n + 1
               PROVE  LeastAt(h) /\ Root \in Ancestors[h]
    OBVIOUS
  <2>1. CASE h = Root
    BY <1>1, <1>2, <2>1, LeastRoot DEF TreeInv
  <2>2. CASE h # Root
    <3> DEFINE p == Parent[h]
    <3>1. /\ p \in Group /\ tg[p] = "online"
          /\ Ancestors[h] = {h} \cup Ancestors[p] /\ h \notin Ancestors[p]
      BY <2>2, GroupAssumption, AncestorsAssumption DEF TreeInv, ParentsOnline
    <3>2. Cardinality(Ancestors[p]) = n
      <4>1. Ancestors[p] = Ancestors[h] \ {h}
        BY <3>1
      <4>2. Cardinality(Ancestors[h] \ {h}) = Cardinality(Ancestors[h]) - 1
        BY <1>2, FS_RemoveElement
      <4> QED
        BY <4>1, <4>2
    <3>3. LeastAt(p) /\ Root \in Ancestors[p]
      BY <1>4, <3>1, <3>2
    <3> QED
      BY <1>1, <2>2, <3>1, <3>3, LeastBelow DEF TreeInv
  <2> QED
    BY <2>1, <2>2
<1> HIDE DEF G
<1>5. Nat \subseteq G
  BY <1>3, <1>4, NatInduct
<1> QED
  BY <1>1, <1>2, <1>5 DEF G

LEMMA MinIs ==
  ASSUME NEW S \in SUBSET Nat, NEW m \in S, \A y \in S : m <= y
  PROVE  Min(S) = m
<1>1. ASSUME NEW x \in S, \A y \in S : x =< y PROVE x = m
  BY <1>1
<1>2. (CHOOSE x \in S : \A y \in S : x =< y) = m
  BY <1>1
<1> QED
  BY <1>2 DEF Min

LEMMA ShowsLeast == ASSUME TreeInv PROVE EffectiveIsLeast
<1>1. ASSUME AtRest, NEW g \in Group, tg[g] = "online"
      PROVE  tg_eff[g]["max"] = Min(LimitsAbove(g)) /\ tg_eff[g]["min"] = Min(ClampsAbove(g))
  <2>1. LeastAt(g)
    BY <1>1, LeastEverywhere DEF AtRest, Holding
  <2>2. Ancestors[g] \subseteq Group
    BY AncestorsAssumption
  <2>3. \A h \in Ancestors[g], id \in Clamp : tg_req[h][id] \in Nat
    BY <2>2, ScaleAssumption DEF TreeInv, TreeTypeOK
  <2>4. LimitsAbove(g) \in SUBSET Nat /\ ClampsAbove(g) \in SUBSET Nat
    BY <2>3 DEF Clamp, LimitsAbove, ClampsAbove
  <2>5. tg_eff[g]["max"] \in LimitsAbove(g) /\ \A y \in LimitsAbove(g) : tg_eff[g]["max"] <= y
    BY <2>1 DEF LeastAt, LimitsAbove
  <2>6. tg_eff[g]["min"] \in ClampsAbove(g) /\ \A y \in ClampsAbove(g) : tg_eff[g]["min"] <= y
    BY <2>1 DEF LeastAt, ClampsAbove
  <2> HIDE DEF LimitsAbove, ClampsAbove
  <2> QED
    BY <2>4, <2>5, <2>6, MinIs
<1> QED
  BY <1>1 DEF EffectiveIsLeast

-----------------------------------------------------------------------------
(* System defaults and what they bound.                                    *)
\* The system defaults are what is requested for the root group, and what the sysctls
\* say or said before one was written that is not checked yet.
Standing(id) == IF op.kind = "check" /\ op.knob = id THEN op.val ELSE sysctl[id]
DefaultInv ==
  /\ uclamp_default = [id \in Clamp |-> uclamp_default[id]]
  /\ \A id \in Clamp :
       uclamp_default[id].value = tg_req[Root][id] /\ tg_req[Root][id] = Standing(id)
  /\ tg_req[Root]["min"] <= tg_req[Root]["max"]

LEMMA InitDefault == ASSUME Init PROVE DefaultInv
<1>1. Scale \in 0..Scale /\ Root \in Group
  BY ScaleAssumption, GroupAssumption
<1>2. uclamp_se_set(Scale).value = Scale
  BY ScaleAssumption DEF uclamp_se_set
<1>3. /\ uclamp_default = [id \in Clamp |-> uclamp_se_set(Scale)]
      /\ tg_req[Root] = [id \in Clamp |-> Scale]
      /\ op.kind = "idle" /\ \A id \in Clamp : sysctl[id] = Scale
  BY <1>1 DEF Init, Idle, Clamp, Knob
<1> HIDE DEF uclamp_se_set
<1>4. uclamp_default = [id \in Clamp |-> uclamp_default[id]]
  BY <1>3
<1>5. ASSUME NEW id \in Clamp
      PROVE  uclamp_default[id].value = tg_req[Root][id] /\ tg_req[Root][id] = Standing(id)
  BY <1>2, <1>3 DEF Standing
<1>6. tg_req[Root]["min"] <= tg_req[Root]["max"]
  BY <1>1, <1>3 DEF Clamp
<1> QED
  BY <1>4, <1>5, <1>6 DEF DefaultInv

LEMMA DefaultStutter ==
  ASSUME DefaultInv, UNCHANGED <<sysctl, uclamp_default>>, tg_req'[Root] = tg_req[Root],
         op' = op \/ (op.kind # "check" /\ op'.kind # "check")
  PROVE  DefaultInv'
<1>1. \A id \in Clamp : Standing(id)' = Standing(id)
  BY DEF Standing
<1> QED
  BY <1>1 DEF DefaultInv

LEMMA KnobDefault == ASSUME DefaultInv, TreeInv, KnobStep PROVE DefaultInv'
<1>1. /\ sysctl \in [Knob -> Nat] /\ op.knob \in Knob /\ op.val \in Nat /\ Root \in Group
      /\ tg_req \in [Group -> [Clamp -> 0..Scale]]
  BY GroupAssumption DEF TreeInv, TreeTypeOK
<1>2. Clamp \subseteq Knob
  BY DEF Knob
<1>3. ASSUME NEW k \in Knob, NEW v \in Written[k], SysctlWrite(k, v) PROVE DefaultInv'
  <2>1. /\ sysctl' = [sysctl EXCEPT ![k] = v] /\ op.kind = "idle"
        /\ op'.kind = "check" /\ op'.knob = k /\ op'.val = sysctl[k]
        /\ UNCHANGED <<uclamp_default, tg_req>>
    BY <1>3 DEF SysctlWrite, Idle, groupVars
  <2>2. \A id \in Clamp : Standing(id)' = Standing(id)
    BY <1>1, <1>2, <2>1 DEF Standing
  <2> QED
    BY <2>1, <2>2 DEF DefaultInv
<1>4. ASSUME SysctlUndo PROVE DefaultInv'
  <2>1. /\ sysctl' = [sysctl EXCEPT ![op.knob] = op.val] /\ op.kind = "check"
        /\ op'.kind = "idle" /\ UNCHANGED <<uclamp_default, tg_req>>
    BY <1>4 DEF SysctlUndo, Idle, groupVars
  <2>2. \A id \in Clamp : Standing(id)' = Standing(id)
    BY <1>1, <1>2, <2>1 DEF Standing
  <2> QED
    BY <2>1, <2>2 DEF DefaultInv
<1>5. ASSUME SysctlRtDefault PROVE DefaultInv'
  <2>1. UNCHANGED <<sysctl, uclamp_default, tg_req>> /\ op.knob = "rt" /\ op'.kind # "check"
    <3>1. /\ UNCHANGED <<sysctl, uclamp_default, tg_req>> /\ op.knob = "rt"
          /\ op' = Idle \/ op' = [Idle EXCEPT !.kind = "sync", !.todo = Visible]
      BY <1>5 DEF SysctlRtDefault, SysctlValid, groupVars, sysVars
    <3>2. /\ Idle.kind # "check"
          /\ [Idle EXCEPT !.kind = "sync", !.todo = Visible].kind # "check"
      BY DEF Idle
    <3> QED
      BY <3>1, <3>2
  <2>2. \A id \in Clamp : Standing(id)' = Standing(id)
    BY <2>1 DEF Standing, Clamp
  <2> QED
    BY <2>1, <2>2 DEF DefaultInv
<1>6. ASSUME SysctlDefault PROVE DefaultInv'
  <2>1. op.kind = "check" /\ op.knob \in Clamp /\ sysctl' = sysctl
    BY <1>6 DEF SysctlDefault, SysctlValid
  <2>2. /\ sysctl["min"] \in Nat /\ sysctl["max"] \in Nat
        /\ sysctl["min"] <= sysctl["max"] /\ sysctl["max"] <= Scale
    BY <1>1, <1>6 DEF SysctlDefault, SysctlValid, Knob, Clamp
  <2>3. op'.kind # "check"
    <3>1. op' = Idle \/ op' = Walk(Subtree(Root))
      BY <1>6 DEF SysctlDefault
    <3>2. Idle.kind # "check" /\ Walk(Subtree(Root)).kind # "check"
      BY DEF Idle, Walk
    <3> QED
      BY <3>1, <3>2
  <2>4. \A id \in Clamp : Standing(id)' = sysctl[id]
    BY <2>1, <2>3 DEF Standing
  <2>5. CASE sysctl[op.knob] = op.val
    <3>1. UNCHANGED <<uclamp_default, tg_req>>
      BY <1>6, <2>5 DEF SysctlDefault
    <3>2. \A id \in Clamp : Standing(id) = sysctl[id]
      BY <2>5 DEF Standing
    <3> QED
      BY <2>4, <3>1, <3>2 DEF DefaultInv
  <2>6. CASE sysctl[op.knob] # op.val
    <3>1. /\ uclamp_default' = [uclamp_default EXCEPT ![op.knob] = uclamp_se_set(sysctl[op.knob])]
          /\ tg_req'[Root] = [id \in Clamp |-> sysctl[id]]
      BY <1>1, <1>6, <2>6 DEF SysctlDefault
    <3>2. uclamp_se_set(sysctl[op.knob]).value = sysctl[op.knob]
      <4>1. sysctl[op.knob] \in 0..Scale
        <5>1. sysctl["min"] \in 0..Scale /\ sysctl["max"] \in 0..Scale
          BY <2>2, ScaleAssumption
        <5> QED
          BY <2>1, <5>1 DEF Clamp
      <4> DEFINE v == sysctl[op.knob]
      <4>v. v \in 0..Scale
        BY <4>1
      <4> HIDE DEF v
      <4>2. Request(v, FALSE).se.value = v
        BY <4>v, InRange
      <4> QED
        BY <4>2 DEF Request, v
    <3> HIDE DEF uclamp_se_set
    <3>3. \A id \in Clamp : Standing(id) = IF id = op.knob THEN op.val ELSE sysctl[id]
      BY <2>1 DEF Standing
    <3>4. \A id \in Clamp : uclamp_default'[id].value = sysctl[id]
      BY <2>1, <3>1, <3>2, <3>3 DEF DefaultInv
    <3>5. uclamp_default' = [id \in Clamp |-> uclamp_default'[id]]
      BY <2>1, <3>1 DEF DefaultInv
    <3>6. \A id \in Clamp : tg_req'[Root][id] = sysctl[id]
      BY <3>1
    <3>7. tg_req'[Root]["min"] <= tg_req'[Root]["max"]
      BY <2>2, <3>6 DEF Clamp
    <3> QED
      BY <2>4, <3>4, <3>5, <3>6, <3>7 DEF DefaultInv
  <2> QED
    BY <2>5, <2>6
<1> QED
  BY <1>3, <1>4, <1>5, <1>6 DEF KnobStep

\* No other step touches a default, or starts or ends a check of one.
LEMMA DefaultsElsewhere ==
  ASSUME TreeInv, [Next]_vars, ~KnobStep
  PROVE  /\ UNCHANGED <<sysctl, uclamp_default>> /\ tg_req'[Root] = tg_req[Root]
         /\ op' = op \/ (op.kind # "check" /\ op'.kind # "check")
<1> DEFINE Same == UNCHANGED <<sysctl, uclamp_default, tg_req>>
           Still == op' = op
           Free == op.kind # "check" /\ op'.kind # "check"
           Done == /\ UNCHANGED <<sysctl, uclamp_default>> /\ tg_req'[Root] = tg_req[Root]
                   /\ op' = op \/ Free
<1>0. /\ op \in [kind : {"idle", "check", "walk", "store", "tasks", "sync"},
                 knob : Knob, val : Nat, rest : SUBSET Group, at : Group,
                 todo : SUBSET Task, on : SUBSET Task]
      /\ tg_req \in [Group -> [Clamp -> 0..Scale]] /\ Root \in Group
  BY GroupAssumption DEF TreeInv, TreeTypeOK
<1>9. ASSUME UNCHANGED vars PROVE UNCHANGED <<sysVars, groupVars, op>>
  BY <1>9 DEF vars
<1> USE DEF sysVars, groupVars
<1>1. ASSUME TaskStep PROVE Same /\ Still
  BY <1>1, TaskStepKeeps
<1>2. ASSUME NEW g \in Group \ {Root}, GroupAlloc(g)
      PROVE  UNCHANGED <<sysctl, uclamp_default>> /\ tg_req'[Root] = tg_req[Root] /\ op' = op
  BY <1>0, <1>2 DEF GroupAlloc
<1>3. ASSUME NEW g \in Group \ {Root}, GroupOnline(g) PROVE Same /\ Still
  BY <1>3 DEF GroupOnline
<1>4. ASSUME NEW g \in Group \ {Root}, GroupUpdate(g) PROVE Same /\ Free
  BY <1>4 DEF GroupUpdate, Walk, Idle
<1>5. ASSUME NEW g \in Group, NEW id \in Clamp, NEW v \in Limits, cpu_uclamp_write(g, id, v)
      PROVE  UNCHANGED <<sysctl, uclamp_default>> /\ tg_req'[Root] = tg_req[Root] /\ Free
  BY <1>0, <1>5 DEF cpu_uclamp_write, Walk, Idle
<1>6. ASSUME NEW g \in Group, WalkGroup(g) PROVE Same /\ Free
  <2>1. op'.kind # "check"
    <3>1. CASE op' = Walk(op.rest \ Subtree(g))
      BY <3>1 DEF Walk, Idle
    <3>2. CASE op' = [op EXCEPT !.kind = "store", !.at = g, !.rest = @ \ {g},
                                !.val = Effective(g)["max"]]
      BY <1>0, <3>2
    <3> QED
      BY <1>6, <3>1, <3>2 DEF WalkGroup
  <2> QED
    BY <1>6, <2>1 DEF WalkGroup
<1>7. ASSUME WalkStore PROVE Same /\ Free
  <2>1. op'.kind # "check"
    BY <1>0, <1>7 DEF WalkStore, Walk, Idle
  <2> QED
    BY <1>7, <2>1 DEF WalkStore
<1>8. ASSUME NEW t \in Task, WalkTask(t) \/ SyncTest(t) \/ SyncTask(t) PROVE Same /\ Free
  <2>0. /\ Same /\ op.kind \in {"tasks", "sync"}
        /\ op' = Next_task(t) \/ op' = [op EXCEPT !.on = {t}]
    BY <1>8 DEF WalkTask, SyncTest, SyncTask
  <2>1. op'.kind # "check"
    <3>1. CASE op' = Next_task(t)
      BY <1>0, <2>0, <3>1 DEF Next_task, Walk, Idle
    <3>2. CASE op' = [op EXCEPT !.on = {t}]
      BY <1>0, <2>0, <3>2
    <3> QED
      BY <2>0, <3>1, <3>2
  <2> QED
    BY <2>0, <2>1
<1>10. CASE UNCHANGED vars
  BY <1>9, <1>10
<1>11. ASSUME Next PROVE Done
  <2>1. ASSUME TaskStep PROVE Done
    BY <1>1, <2>1
  <2>2. ASSUME NEW g \in Group \ {Root}, GroupAlloc(g) \/ GroupOnline(g) \/ GroupUpdate(g)
        PROVE  Done
    BY <1>2, <1>3, <1>4, <2>2
  <2>3. ASSUME NEW g \in Group, NEW id \in Clamp, NEW v \in Limits, cpu_uclamp_write(g, id, v)
        PROVE  Done
    BY <1>5, <2>3
  <2>4. ASSUME NEW g \in Group, WalkGroup(g) PROVE Done
    BY <1>6, <2>4
  <2>5. ASSUME NEW t \in Task, WalkTask(t) \/ SyncTest(t) \/ SyncTask(t) PROVE Done
    BY <1>8, <2>5
  <2>6. ASSUME WalkStore PROVE Done
    BY <1>7, <2>6
  <2> HIDE DEF Done
  <2> QED
    BY <1>11, <2>1, <2>2, <2>3, <2>4, <2>5, <2>6 DEF Next, TaskStep, KnobStep
<1> QED
  BY <1>10, <1>11

LEMMA StepDefault == ASSUME DefaultInv, TreeInv, [Next]_vars PROVE DefaultInv'
BY KnobDefault, DefaultsElsewhere, DefaultStutter

-----------------------------------------------------------------------------
\* A group's effective clamps leave room below the system default.
Settled(g) ==
  tg_eff[g]["min"] <= tg_eff[g]["max"] /\ tg_eff[g]["min"] <= uclamp_default["min"].value
Fits(u, g) ==
  IF g = Root THEN Current(Root) => \A id \in Clamp : u[id].value <= uclamp_default[id].value
  ELSE Settled(g) => \A id \in Clamp : u[id].value \in tg_eff[g]["min"]..tg_eff[g]["max"]
Measured(r) == \A id \in Clamp : r[id].se.value \in Nat

LEMMA EffFits ==
  ASSUME TreeTypeOK, DefaultInv, NEW g \in Group, NEW r, Measured(r)
  PROVE  Fits(uclamp_eff_get(r, g), g)
<1> DEFINE u == uclamp_eff_get(r, g)
<1>0. /\ \A id \in Clamp : uclamp_default[id].value \in Nat
      /\ uclamp_default["min"].value <= uclamp_default["max"].value
      /\ tg_eff[g]["min"] \in 0..Scale /\ tg_eff[g]["max"] \in 0..Scale
  BY GroupAssumption, ScaleAssumption DEF TreeTypeOK, DefaultInv, Clamp
<1>1. ASSUME NEW id \in Clamp
      PROVE  u[id] = IF uclamp_tg_restrict(r[id].se, g).value > uclamp_default[id].value
                       THEN uclamp_default[id] ELSE uclamp_tg_restrict(r[id].se, g)
  BY DEF uclamp_eff_get
<1> HIDE DEF u
<1>2. ASSUME g = Root, NEW id \in Clamp PROVE u[id].value <= uclamp_default[id].value
  <2>1. uclamp_tg_restrict(r[id].se, g) = r[id].se /\ r[id].se.value \in Nat
    BY <1>2 DEF uclamp_tg_restrict, Measured
  <2> QED
    BY <1>0, <1>1, <2>1
<1>3. ASSUME g # Root, Settled(g), NEW id \in Clamp
      PROVE  u[id].value \in tg_eff[g]["min"]..tg_eff[g]["max"]
  <2> DEFINE v == r[id].se.value
             lo == tg_eff[g]["min"]
             hi == tg_eff[g]["max"]
             m == Least(Most(v, lo), hi)
             d == uclamp_default[id].value
  <2>1. v \in Nat /\ lo \in 0..Scale /\ hi \in 0..Scale /\ lo <= hi /\ d \in Nat
    BY <1>0, <1>3 DEF Measured, Settled
  <2>2. lo <= d
    <3>1. lo <= uclamp_default["min"].value /\ uclamp_default["min"].value \in Nat
          /\ uclamp_default["max"].value \in Nat
      BY <1>0, <1>3 DEF Settled, Clamp
    <3>2. CASE id = "min"
      BY <3>1, <3>2
    <3>3. CASE id = "max"
      BY <1>0, <2>1, <3>1, <3>3
    <3> QED
      BY <3>2, <3>3 DEF Clamp
  <2>3. uclamp_tg_restrict(r[id].se, g) = uclamp_se_set(m)
    BY <1>3 DEF uclamp_tg_restrict
  <2> HIDE DEF v, lo, hi, d
  <2>4. m \in lo..hi /\ m \in 0..Scale
    BY <2>1, ScaleAssumption DEF Least, Most
  <2> HIDE DEF m
  <2>5. uclamp_se_set(m).value = m
    <3>1. Request(m, FALSE).se.value = m
      BY <2>4, InRange
    <3> QED
      BY <3>1 DEF Request
  <2> HIDE DEF uclamp_se_set
  <2>6. u[id].value = IF m > d THEN d ELSE m
    BY <1>1, <2>3, <2>5 DEF d
  <2>7. u[id].value \in lo..hi
    BY <2>1, <2>2, <2>4, <2>6
  <2> QED
    BY <2>7 DEF lo, hi
<1> QED
  BY <1>2, <1>3 DEF Fits, u

-----------------------------------------------------------------------------
(* A task that the holder of uclamp_mutex need not visit any more is       *)
(* granted what its group and the defaults allow now.                      *)
GrantShape ==
  /\ uclamp = [t \in Task |-> uclamp[t]] /\ on_rq = [t \in Task |-> on_rq[t]]
  /\ policy = [t \in Task |-> policy[t]] /\ boosted = [t \in Task |-> boosted[t]]
  /\ css = [t \in Task |-> css[t]] /\ group = [t \in Task |-> group[t]]
Hosts(g) == g \in Group /\ tg[g] = "online"
Placed == \A t \in Task : Hosts(css[t]) /\ Hosts(group[t])
AllMeasured == \A t \in Task : Measured(uclamp_req[t])
GrantInv == GrantShape /\ OnlyRunnable /\ Placed /\ AllMeasured

\* The holder of uclamp_mutex has still to update the task.
Exempt(t) == Storing(group[t]) \/ (op.kind = "tasks" /\ t \in op.todo /\ op.at = group[t])
Within(t) ==
  IF group[t] = Root
    THEN Current(Root) => \A id \in Clamp : uclamp[t][id].value <= uclamp_default[id].value
    ELSE Settled(group[t]) =>
           \A id \in Clamp :
             uclamp[t][id].value \in tg_eff[group[t]]["min"]..tg_eff[group[t]]["max"]
Bound(t) == uclamp[t] # NotActive /\ css[t] = group[t] /\ ~Exempt(t) => Within(t)
BoundsInv == \A t \in Task : Bound(t)

LEMMA RequestMeasured ==
  ASSUME NEW v \in Int, NEW user PROVE Request(v, user).se.value \in Nat
BY ScaleAssumption DEF Request, uclamp_se_set

LEMMA NoRequestMeasured == Measured(NoRequest)
<1>1. ASSUME NEW id \in Clamp PROVE NoRequest[id].se.value \in Nat
  <2> DEFINE v == uclamp_none(id)
  <2>1. v \in Int /\ NoRequest[id] = Request(v, FALSE)
    BY ScaleAssumption DEF uclamp_none, NoRequest
  <2> HIDE DEF v
  <2> QED
    BY <2>1, RequestMeasured
<1> QED
  BY <1>1 DEF Measured

LEMMA InitGrant == ASSUME Init PROVE GrantInv /\ BoundsInv
<1>1. GrantShape /\ OnlyRunnable
  <2>1. GrantShape
    BY OnlineAssumption DEF Init, GrantShape
  <2>2. OnlyRunnable
    BY DEF Init, OnlyRunnable
  <2> QED
    BY <2>1, <2>2
<1>2. Placed
  BY OnlineAssumption DEF Init, Placed, Hosts
<1>3. AllMeasured
  BY NoRequestMeasured DEF Init, AllMeasured
<1>4. BoundsInv
  BY DEF Init, BoundsInv, Bound
<1> QED
  BY <1>1, <1>2, <1>3, <1>4 DEF GrantInv

LEMMA CallMeasured ==
  ASSUME NEW r, Measured(r), NEW attr \in Argument, NEW rt, sysctl["rt"] \in Nat
  PROVE  Measured(setscheduler_uclamp(r, attr, rt))
<1>1. ASSUME NEW id \in Clamp PROVE setscheduler_uclamp(r, attr, rt)[id].se.value \in Nat
  <2>1. CASE id \in DOMAIN attr.util /\ attr.util[id] # -1
    <3> DEFINE v == attr.util[id]
    <3>1. v \in Int
      <4>1. attr.util \in UNION {[ids -> -1..Scale] : ids \in SUBSET Clamp}
        BY DEF Argument
      <4>2. attr.util[id] \in -1..Scale
        BY <2>1, <4>1
      <4> QED
        BY <4>2, ScaleAssumption
    <3>2. setscheduler_uclamp(r, attr, rt)[id] = Request(v, TRUE)
      BY <2>1 DEF setscheduler_uclamp
    <3> HIDE DEF v
    <3> QED
      BY <3>1, <3>2, RequestMeasured
  <2>2. CASE ~(id \in DOMAIN attr.util /\ attr.util[id] # -1)
    <3> DEFINE d == IF rt /\ id = "min" THEN sysctl["rt"] ELSE uclamp_none(id)
    <3>1. \/ setscheduler_uclamp(r, attr, rt)[id] = r[id]
          \/ setscheduler_uclamp(r, attr, rt)[id] = Request(d, FALSE)
      BY <2>2 DEF setscheduler_uclamp
    <3>2. d \in Int
      BY ScaleAssumption DEF uclamp_none
    <3> HIDE DEF d
    <3> QED
      BY <3>1, <3>2, RequestMeasured DEF Measured
  <2> QED
    BY <2>1, <2>2
<1> QED
  BY <1>1 DEF Measured

LEMMA DefaultMeasured ==
  ASSUME AllMeasured, UserShape, sysctl["rt"] \in Nat, NEW t \in Task,
         __uclamp_update_util_min_rt_default(t)
  PROVE  AllMeasured'
<1> DEFINE r == [uclamp_req[t] EXCEPT !["min"] = Request(sysctl["rt"], FALSE)]
<1>1. uclamp_req' = uclamp_req \/ uclamp_req' = [uclamp_req EXCEPT ![t] = r]
  BY DEF __uclamp_update_util_min_rt_default
<1>2. Measured(r)
  <2>1. Request(sysctl["rt"], FALSE).se.value \in Nat
    <3> DEFINE v == sysctl["rt"]
    <3>1. v \in Int
      OBVIOUS
    <3> HIDE DEF v
    <3>2. Request(v, FALSE).se.value \in Nat
      BY <3>1, RequestMeasured
    <3> QED
      BY <3>2 DEF v
  <2>2. uclamp_req[t] = [id \in Clamp |-> uclamp_req[t][id]]
    BY DEF UserShape
  <2> HIDE DEF Request
  <2>3. \A id \in Clamp : r[id] = uclamp_req[t][id] \/ r[id] = Request(sysctl["rt"], FALSE)
    BY <2>2 DEF Clamp
  <2> QED
    BY <2>1, <2>3 DEF AllMeasured, Measured
<1> HIDE DEF r
<1> QED
  BY <1>1, <1>2 DEF AllMeasured, Measured, UserShape

\* A runnable task that is put in again is granted what its group allows.
LEMMA RequeueGrants ==
  ASSUME GrantInv, NEW t \in Task, NEW r, NEW g, NEW pol, NEW boost,
         Requeue(t, r, g, class(pol, boost))
  PROVE  /\ uclamp' = [uclamp EXCEPT ![t] = uclamp'[t]]
         /\ \/ uclamp'[t] = NotActive
            \/ /\ uclamp'[t] = uclamp_eff_get(r, g)
               /\ on_rq[t] /\ sched_uclamp_used /\ class(pol, boost) # "dl"
<1>0. GrantShape /\ OnlyRunnable
  BY DEF GrantInv
<1>1. CASE ~on_rq[t]
  BY <1>0, <1>1 DEF Requeue, rqVars, GrantShape, OnlyRunnable
<1>2. CASE on_rq[t]
  <2> DEFINE x == dequeue_task(t)
             cls == class(pol, boost)
             e == uclamp_eff_get(r, g)
             y == enqueue_task(x, r, g, cls)
  <2>1. Put(t, cpu[t], y)
    BY <1>2 DEF Requeue
  <2>2. x.u = NotActive
    BY <1>0 DEF dequeue_task, OnlyRunnable, uclamp_enabled
  <2> HIDE DEF x, cls, e
  <2>3. y.u = NotActive \/ (y.u = e /\ sched_uclamp_used /\ cls # "dl")
    BY <2>2 DEF enqueue_task, uclamp_enabled, e
  <2>4. uclamp' = [uclamp EXCEPT ![t] = y.u]
    BY <2>1 DEF Put
  <2> HIDE DEF y
  <2>5. uclamp'[t] = y.u /\ uclamp' = [uclamp EXCEPT ![t] = uclamp'[t]]
    BY <1>0, <2>4 DEF GrantShape
  <2> QED
    BY <1>2, <2>3, <2>5 DEF e, cls
<1> QED
  BY <1>1, <1>2

\* One task changes.
Alone(t) ==
  \A s \in Task \ {t} :
    /\ uclamp'[s] = uclamp[s] /\ on_rq'[s] = on_rq[s]
    /\ policy'[s] = policy[s] /\ boosted'[s] = boosted[s]
    /\ css'[s] = css[s] /\ group'[s] = group[s] /\ stage'[s] = stage[s]
Lawful(t) ==
  /\ uclamp'[t] # NotActive =>
       on_rq'[t] /\ sched_uclamp_used' /\ class(policy'[t], boosted'[t]) # "dl"
  /\ on_rq'[t] => stage'[t] = "live"
  /\ Hosts(css'[t]) /\ Hosts(group'[t])
  /\ \/ uclamp'[t] = NotActive
     \/ css'[t] # group'[t]
     \/ Fits(uclamp'[t], group'[t])
     \/ /\ uclamp'[t] = uclamp[t] /\ group'[t] = group[t] /\ css[t] = group[t]
SameOp == op' = op \/ (op.kind \notin {"store", "tasks"} /\ op'.kind \notin {"store", "tasks"})

LEMMA FitsLater ==
  ASSUME UNCHANGED <<groupVars, uclamp_default>>, NEW t \in Task, Fits(uclamp'[t], group'[t])
  PROVE  Within(t)'
<1>1. UNCHANGED <<tg_eff, tg, tg_req, uclamp_default>>
  BY DEF groupVars
<1>2. Current(Root)' <=> Current(Root)
  BY <1>1 DEF Current, Effective
<1>3. Settled(group'[t]) <=> (Settled(group[t]))'
  BY <1>1 DEF Settled
<1> QED
  BY <1>1, <1>2, <1>3 DEF Fits, Within

LEMMA OneTask ==
  ASSUME GrantInv, BoundsInv, NEW t \in Task, Alone(t), Lawful(t), SameOp, GrantShape',
         AllMeasured', UNCHANGED <<groupVars, uclamp_default>>,
         sched_uclamp_used => sched_uclamp_used'
  PROVE  GrantInv' /\ BoundsInv'
<1>0. GrantShape /\ OnlyRunnable /\ Placed /\ AllMeasured
  BY DEF GrantInv
<1>1. OnlyRunnable'
  BY <1>0 DEF OnlyRunnable, Alone, Lawful
<1>2. Placed'
  BY <1>0 DEF Placed, Alone, Lawful, Hosts, groupVars
<1>3. ASSUME NEW s \in Task, Exempt(s), group'[s] = group[s] PROVE Exempt(s)'
  BY <1>3 DEF Exempt, Storing, SameOp
<1>4. ASSUME NEW s \in Task, uclamp'[s] = uclamp[s], group'[s] = group[s], Within(s)
      PROVE  Within(s)'
  <2>1. Fits(uclamp'[s], group'[s])
    BY <1>4 DEF Within, Fits
  <2> QED
    BY <2>1, FitsLater
<1>5. ASSUME NEW s \in Task \ {t} PROVE Bound(s)'
  <2>1. uclamp'[s] = uclamp[s] /\ group'[s] = group[s] /\ css'[s] = css[s]
    BY DEF Alone
  <2> QED
    BY <1>3, <1>4, <2>1 DEF BoundsInv, Bound
<1>6. Bound(t)'
  <2>1. CASE Fits(uclamp'[t], group'[t])
    BY <2>1, FitsLater DEF Bound
  <2>2. CASE uclamp'[t] = uclamp[t] /\ group'[t] = group[t] /\ css[t] = group[t]
    BY <1>3, <1>4, <2>2 DEF BoundsInv, Bound
  <2> QED
    BY <2>1, <2>2 DEF Lawful, Bound
<1> QED
  BY <1>1, <1>2, <1>5, <1>6 DEF GrantInv, BoundsInv

LEMMA EnqueueBound ==
  ASSUME GrantInv, BoundsInv, UserShape, TreeTypeOK, DefaultInv, NEW t \in Task, NEW c \in CPU,
         Enqueue(t, c)
  PROVE  GrantInv' /\ BoundsInv'
<1>0. GrantShape /\ OnlyRunnable /\ Placed /\ AllMeasured
  BY DEF GrantInv
<1>1. /\ UNCHANGED <<stage, policy, boosted, uclamp_req, css, group, sysVars>>
      /\ UNCHANGED <<sched_uclamp_used, groupVars, op>>
      /\ on_rq' = [on_rq EXCEPT ![t] = TRUE] /\ stage[t] = "live" /\ ~on_rq[t]
      /\ uclamp[t] = NotActive
  BY <1>0 DEF Enqueue, OnlyRunnable
<1> DEFINE r == uclamp_req[t]
           g == group[t]
           e == uclamp_eff_get(r, g)
           cls == class(policy[t], boosted[t])
           y == enqueue_task([q |-> rq[c], u |-> uclamp[t]], r, g, cls)
<1>2. uclamp' = [uclamp EXCEPT ![t] = y.u]
  BY DEF Enqueue, Put
<1>3. y.u = NotActive \/ (y.u = e /\ sched_uclamp_used /\ cls # "dl")
  <2> HIDE DEF e, cls
  <2> QED
    BY <1>1 DEF enqueue_task, uclamp_enabled, e
<1>4. Fits(e, g)
  BY <1>0, EffFits DEF Placed, Hosts, AllMeasured
<1> HIDE DEF y, e
<1>5. uclamp'[t] = y.u /\ GrantShape'
  BY <1>0, <1>1, <1>2 DEF GrantShape
<1>6. Alone(t)
  BY <1>0, <1>1, <1>2 DEF Alone, GrantShape
<1>7. Lawful(t)
  <2>1. on_rq'[t] /\ Hosts(css'[t]) /\ Hosts(group'[t])
    BY <1>0, <1>1 DEF GrantShape, Placed
  <2> QED
    BY <1>1, <1>3, <1>4, <1>5, <2>1 DEF Lawful
<1>8. AllMeasured' /\ UNCHANGED <<groupVars, uclamp_default>> /\ SameOp
      /\ (sched_uclamp_used => sched_uclamp_used')
  BY <1>0, <1>1 DEF AllMeasured, Measured, SameOp, sysVars
<1> QED
  BY <1>5, <1>6, <1>7, <1>8, OneTask

LEMMA DequeueBound ==
  ASSUME GrantInv, BoundsInv, NEW t \in Task, Dequeue(t)
  PROVE  GrantInv' /\ BoundsInv'
<1>0. GrantShape /\ OnlyRunnable /\ Placed /\ AllMeasured
  BY DEF GrantInv
<1>1. /\ UNCHANGED <<stage, policy, boosted, uclamp_req, css, group, sysVars>>
      /\ UNCHANGED <<sched_uclamp_used, groupVars, op>>
      /\ on_rq' = [on_rq EXCEPT ![t] = FALSE]
  BY DEF Dequeue
<1>2. uclamp' = [uclamp EXCEPT ![t] = NotActive]
  <2>1. dequeue_task(t).u = NotActive
    BY <1>0 DEF dequeue_task, OnlyRunnable, uclamp_enabled
  <2> QED
    BY <2>1 DEF Dequeue, Put
<1>3. uclamp'[t] = NotActive /\ GrantShape' /\ Alone(t)
  BY <1>0, <1>1, <1>2 DEF GrantShape, Alone
<1>4. Lawful(t)
  BY <1>0, <1>1, <1>3 DEF Lawful, GrantShape, Placed
<1>5. AllMeasured' /\ UNCHANGED <<groupVars, uclamp_default>> /\ SameOp
      /\ (sched_uclamp_used => sched_uclamp_used')
  BY <1>0, <1>1 DEF AllMeasured, Measured, SameOp, sysVars
<1> QED
  BY <1>3, <1>4, <1>5, OneTask

\* dequeue, change, enqueue
LEMMA RequeueBound ==
  ASSUME GrantInv, BoundsInv, TreeTypeOK, DefaultInv, NEW t \in Task,
         NEW r, Measured(r), NEW g, Hosts(g), NEW pol, NEW boost,
         Requeue(t, r, g, class(pol, boost)),
         UNCHANGED <<stage, on_rq, css, uclamp_default, groupVars, op, sched_uclamp_used>>,
         group' = [group EXCEPT ![t] = g], policy' = [policy EXCEPT ![t] = pol],
         boosted' = [boosted EXCEPT ![t] = boost], AllMeasured'
  PROVE  GrantInv' /\ BoundsInv'
<1>0. GrantShape /\ OnlyRunnable /\ Placed
  BY DEF GrantInv
<1> DEFINE e == uclamp_eff_get(r, g)
<1>1. /\ uclamp' = [uclamp EXCEPT ![t] = uclamp'[t]]
      /\ \/ uclamp'[t] = NotActive
         \/ uclamp'[t] = e /\ on_rq[t] /\ sched_uclamp_used /\ class(pol, boost) # "dl"
  BY RequeueGrants
<1>2. Fits(e, g)
  BY EffFits DEF Hosts
<1> HIDE DEF e
<1>3. group'[t] = g /\ policy'[t] = pol /\ boosted'[t] = boost /\ GrantShape' /\ Alone(t)
  BY <1>0, <1>1 DEF GrantShape, Alone
<1>4. Lawful(t)
  BY <1>0, <1>1, <1>2, <1>3 DEF Lawful, Placed, OnlyRunnable
<1>5. UNCHANGED <<groupVars, uclamp_default>> /\ SameOp /\ (sched_uclamp_used => sched_uclamp_used')
  BY DEF SameOp
<1> QED
  BY <1>3, <1>4, <1>5, OneTask

LEMMA BoostBound ==
  ASSUME GrantInv, BoundsInv, TreeTypeOK, DefaultInv, NEW t \in Task, rt_mutex_setprio(t)
  PROVE  GrantInv' /\ BoundsInv'
<1>0. GrantShape /\ Placed /\ AllMeasured
  BY DEF GrantInv
<1> DEFINE r == uclamp_req[t]
           g == group[t]
           pol == policy[t]
<1>1. PICK boost \in Boost :
        /\ Requeue(t, r, g, class(pol, boost))
        /\ UNCHANGED <<stage, on_rq, css, uclamp_default, groupVars, op, sched_uclamp_used>>
        /\ uclamp_req' = uclamp_req /\ boosted' = [boosted EXCEPT ![t] = boost]
        /\ group' = [group EXCEPT ![t] = g] /\ policy' = [policy EXCEPT ![t] = pol]
  BY <1>0 DEF rt_mutex_setprio, GrantShape, sysVars
<1>2. Measured(r) /\ Hosts(g) /\ AllMeasured'
  BY <1>0, <1>1 DEF AllMeasured, Measured, Placed
<1> HIDE DEF r, g, pol
<1> QED
  BY <1>1, <1>2, RequeueBound

LEMMA MoveBound ==
  ASSUME GrantInv, BoundsInv, TreeTypeOK, DefaultInv, NEW t \in Task, sched_move_task(t)
  PROVE  GrantInv' /\ BoundsInv'
<1>0. GrantShape /\ Placed /\ AllMeasured
  BY DEF GrantInv
<1> DEFINE r == uclamp_req[t]
           g == css[t]
           pol == policy[t]
           boost == boosted[t]
<1>1. /\ Requeue(t, r, g, class(pol, boost))
      /\ UNCHANGED <<stage, on_rq, css, uclamp_default, groupVars, op, sched_uclamp_used>>
      /\ uclamp_req' = uclamp_req
      /\ group' = [group EXCEPT ![t] = g] /\ policy' = [policy EXCEPT ![t] = pol]
      /\ boosted' = [boosted EXCEPT ![t] = boost]
  BY <1>0 DEF sched_move_task, GrantShape, sysVars
<1>2. Measured(r) /\ Hosts(g) /\ AllMeasured'
  BY <1>0, <1>1 DEF AllMeasured, Measured, Placed
<1> HIDE DEF r, g, pol, boost
<1> QED
  BY <1>1, <1>2, RequeueBound

LEMMA SchedulerBound ==
  ASSUME GrantInv, BoundsInv, TreeTypeOK, DefaultInv, UserShape, NEW t \in Task,
         NEW attr \in Argument, SetScheduler(t, attr), sched_uclamp_used' = sched_uclamp_used
  PROVE  GrantInv' /\ BoundsInv'
<1>0. GrantShape /\ Placed /\ AllMeasured
  BY DEF GrantInv
<1> DEFINE g == group[t]
           pol == IF attr.policy = "keep" THEN policy[t] ELSE attr.policy
           boost == boosted[t]
           r == setscheduler_uclamp(uclamp_req[t], attr, rt_task(pol, boost))
<1>1. /\ Requeue(t, r, g, class(pol, boost))
      /\ UNCHANGED <<stage, on_rq, css, uclamp_default, groupVars, op, sched_uclamp_used>>
      /\ uclamp_req' = [uclamp_req EXCEPT ![t] = r]
      /\ group' = [group EXCEPT ![t] = g] /\ policy' = [policy EXCEPT ![t] = pol]
      /\ boosted' = [boosted EXCEPT ![t] = boost]
  BY <1>0 DEF SetScheduler, GrantShape, sysVars
<1>2. Measured(r)
  <2> HIDE DEF pol, boost
  <2>1. Measured(uclamp_req[t]) /\ sysctl["rt"] \in Nat
    BY <1>0 DEF AllMeasured, TreeTypeOK, Knob
  <2> QED
    BY <2>1, CallMeasured
<1>3. Hosts(g)
  BY <1>0 DEF Placed
<1> HIDE DEF r, g, pol, boost
<1>4. AllMeasured'
  BY <1>0, <1>1, <1>2 DEF AllMeasured, Measured, UserShape
<1> QED
  BY <1>1, <1>2, <1>3, <1>4, RequeueBound

LEMMA ForkBound ==
  ASSUME GrantInv, BoundsInv, UserShape, NEW t \in Task, NEW child \in Task, NEW reset \in Roof,
         Fork(t, child, reset)
  PROVE  GrantInv' /\ BoundsInv'
<1>0. GrantShape /\ OnlyRunnable /\ Placed /\ AllMeasured
  BY DEF GrantInv
<1>1. /\ UNCHANGED <<boosted, on_rq, sysVars, groupVars, op, sched_uclamp_used>>
      /\ stage[child] = "none" /\ stage' = [stage EXCEPT ![child] = "new"]
      /\ uclamp' = [uclamp EXCEPT ![child] = NotActive]
      /\ css' = [css EXCEPT ![child] = css[t]] /\ group' = [group EXCEPT ![child] = css[t]]
      /\ \E p : policy' = [policy EXCEPT ![child] = p]
      /\ uclamp_req' = [uclamp_req EXCEPT ![child] = IF reset THEN NoRequest ELSE uclamp_req[t]]
  BY DEF Fork, uclamp_fork
<1>2. ~on_rq[child]
  BY <1>0, <1>1 DEF OnlyRunnable
<1>3. uclamp'[child] = NotActive /\ css'[child] = css[t] /\ group'[child] = css[t]
  BY <1>0, <1>1 DEF GrantShape
<1>4. Alone(child) /\ GrantShape'
  BY <1>0, <1>1 DEF Alone, GrantShape, UserShape
<1>5. Lawful(child)
  BY <1>0, <1>1, <1>2, <1>3 DEF Lawful, Placed
<1>6. AllMeasured'
  <2> DEFINE r == IF reset THEN NoRequest ELSE uclamp_req[t]
  <2>1. Measured(r)
    BY <1>0, NoRequestMeasured DEF AllMeasured
  <2> HIDE DEF r
  <2>2. uclamp_req' = [uclamp_req EXCEPT ![child] = r]
    BY <1>1 DEF r
  <2> QED
    BY <1>0, <2>1, <2>2 DEF AllMeasured, Measured, UserShape
<1>7. UNCHANGED <<groupVars, uclamp_default>> /\ SameOp /\ (sched_uclamp_used => sched_uclamp_used')
  BY <1>1 DEF SameOp, sysVars
<1> QED
  BY <1>4, <1>5, <1>6, <1>7, OneTask

LEMMA MoveCssBound ==
  ASSUME GrantInv, BoundsInv, UserShape, TreeTypeOK, NEW t \in Task, NEW g \in Group, MoveCss(t, g)
  PROVE  GrantInv' /\ BoundsInv'
<1>0. GrantShape /\ OnlyRunnable /\ Placed /\ AllMeasured
  BY DEF GrantInv
<1>1. /\ UNCHANGED <<stage, policy, boosted, uclamp_req, on_rq, group, uclamp, sysVars>>
      /\ UNCHANGED <<groupVars, op>>
      /\ UNCHANGED sched_uclamp_used /\ Hosts(g) /\ css[t] # g /\ css[t] = group[t]
      /\ css' = [css EXCEPT ![t] = g]
  BY DEF MoveCss, rqVars, Hosts
<1>2. css'[t] = g /\ Alone(t) /\ GrantShape'
  BY <1>0, <1>1 DEF Alone, GrantShape
<1>3. Lawful(t)
  BY <1>0, <1>1, <1>2 DEF Lawful, Placed, OnlyRunnable
<1>4. AllMeasured'
  BY <1>0, <1>1 DEF AllMeasured, Measured
<1>5. UNCHANGED <<groupVars, uclamp_default>> /\ SameOp /\ (sched_uclamp_used => sched_uclamp_used')
  BY <1>1 DEF SameOp, sysVars
<1> QED
  BY <1>2, <1>3, <1>4, <1>5, OneTask

LEMMA SyncBound ==
  ASSUME GrantInv, BoundsInv, UserShape, TreeTypeOK, NEW t \in Task,
         uclamp_post_fork(t) \/ PostForkSync(t) \/ SyncTest(t) \/ SyncTask(t)
  PROVE  GrantInv' /\ BoundsInv'
<1>0. GrantShape /\ OnlyRunnable /\ Placed /\ AllMeasured
  BY DEF GrantInv
<1>1. /\ UNCHANGED <<policy, boosted, css, group, on_rq, uclamp, sysVars, groupVars>>
      /\ UNCHANGED sched_uclamp_used
      /\ uclamp_req' = uclamp_req \/ __uclamp_update_util_min_rt_default(t)
  BY DEF uclamp_post_fork, PostForkSync, SyncTest, SyncTask, taskVars, rqVars
<1>2. \/ stage' = stage
      \/ stage[t] # "live" /\ \E x : stage' = [stage EXCEPT ![t] = x]
  BY DEF uclamp_post_fork, PostForkSync, SyncTest, SyncTask, taskVars
<1>3. SameOp
  <2>1. \/ op' = op
        \/ op.kind = "sync" /\ (op' = Next_task(t) \/ op' = [op EXCEPT !.on = {t}])
    BY DEF uclamp_post_fork, PostForkSync, SyncTest, SyncTask
  <2>2. op.kind = "sync" => Next_task(t).kind \notin {"store", "tasks"}
                            /\ [op EXCEPT !.on = {t}].kind = "sync"
    BY DEF Next_task, Walk, Idle, TreeTypeOK
  <2> QED
    BY <2>1, <2>2 DEF SameOp
<1>4. AllMeasured'
  <2>1. CASE uclamp_req' = uclamp_req
    BY <1>0, <2>1 DEF AllMeasured, Measured
  <2>2. CASE __uclamp_update_util_min_rt_default(t)
    BY <1>0, <2>2, DefaultMeasured DEF TreeTypeOK, Knob
  <2> QED
    BY <1>1, <2>1, <2>2
<1>5. Alone(t) /\ GrantShape'
  BY <1>0, <1>1, <1>2 DEF Alone, GrantShape, UserShape
<1>6. on_rq[t] => stage'[t] = "live"
  BY <1>0, <1>2 DEF OnlyRunnable, UserShape
<1>7. Lawful(t)
  BY <1>0, <1>1, <1>6 DEF Lawful, Placed, OnlyRunnable
<1>8. UNCHANGED <<groupVars, uclamp_default>> /\ (sched_uclamp_used => sched_uclamp_used')
  BY <1>1 DEF sysVars
<1> QED
  BY <1>3, <1>4, <1>5, <1>7, <1>8, OneTask

-----------------------------------------------------------------------------
(* Steps of the holder of uclamp_mutex.                                    *)
\* Between updates every group's clamps leave room below the defaults.
LEMMA SettledAtRest ==
  ASSUME TreeInv, DefaultInv, op.kind \notin Holding, NEW g \in Group, tg[g] = "online"
  PROVE  Settled(g) /\ Current(g) /\ tg_eff[g]["max"] <= uclamp_default["max"].value
<1>1. Current(g) /\ LeastAt(g) /\ Root \in Ancestors[g]
  BY LeastEverywhere
<1>2. tg_eff[g]["min"] <= tg_req[Root]["min"] /\ tg_eff[g]["max"] <= tg_req[Root]["max"]
  BY <1>1 DEF LeastAt, Clamp
<1>3. tg_eff[g]["min"] <= tg_eff[g]["max"]
  BY <1>1 DEF LeastAt, Clamp
<1>4. \A id \in Clamp : uclamp_default[id].value = tg_req[Root][id]
  BY DEF DefaultInv
<1> QED
  BY <1>1, <1>2, <1>3, <1>4 DEF Settled, Clamp

\* What the tasks in group h have been granted remains right.
Steady(h) ==
  IF h = Root THEN Current(Root)' => Current(Root) /\ uclamp_default' = uclamp_default
  ELSE tg_eff'[h] = tg_eff[h] /\ (Settled(h)' => Settled(h))
Counts(t) == uclamp[t] # NotActive /\ css[t] = group[t]
TasksKept ==
  /\ UNCHANGED <<stage, policy, boosted, uclamp_req, on_rq, css, group, uclamp>>
  /\ sched_uclamp_used => sched_uclamp_used'

LEMMA BoundKept ==
  ASSUME GrantInv, BoundsInv, TasksKept, \A h \in Group : Hosts(h) => Hosts(h)',
         \A t \in Task : Counts(t) => Exempt(t)' \/ (~Exempt(t) /\ Steady(group[t]))
  PROVE  GrantInv' /\ BoundsInv'
<1>0. GrantShape /\ OnlyRunnable /\ Placed /\ AllMeasured
  BY DEF GrantInv
<1>1. GrantShape' /\ OnlyRunnable' /\ AllMeasured'
  BY <1>0 DEF TasksKept, GrantShape, OnlyRunnable, AllMeasured, Measured
<1>2. Placed'
  <2>1. \A t \in Task : css[t] \in Group /\ group[t] \in Group
    BY <1>0 DEF Placed, Hosts
  <2>2. \A t \in Task : tg'[css[t]] = "online" /\ tg'[group[t]] = "online"
    BY <1>0, <2>1 DEF Placed, Hosts
  <2> QED
    BY <2>1, <2>2 DEF Placed, Hosts, TasksKept
<1>3. ASSUME NEW t \in Task, Counts(t), ~Exempt(t), Steady(group[t]) PROVE Within(t)'
  <2>0. Within(t) /\ uclamp' = uclamp /\ group' = group
    BY <1>3 DEF BoundsInv, Bound, Counts, TasksKept
  <2>1. CASE group[t] = Root
    BY <1>3, <2>0, <2>1 DEF Steady, Within
  <2>2. CASE group[t] # Root
    <3>1. tg_eff'[group[t]] = tg_eff[group[t]] /\ (Settled(group[t])' => Settled(group[t]))
      BY <1>3, <2>2 DEF Steady
    <3>2. Settled(group[t])' => \A id \in Clamp :
             uclamp[t][id].value \in tg_eff[group[t]]["min"]..tg_eff[group[t]]["max"]
      BY <2>0, <2>2, <3>1 DEF Within
    <3> QED
      BY <2>0, <2>2, <3>1, <3>2 DEF Within
  <2> QED
    BY <2>1, <2>2
<1>4. ASSUME NEW t \in Task PROVE Bound(t)'
  <2>1. Counts(t)' <=> Counts(t)
    BY DEF TasksKept, Counts
  <2> QED
    BY <1>3, <2>1 DEF Bound, Counts
<1> QED
  BY <1>1, <1>2, <1>4 DEF GrantInv, BoundsInv

\* The clamps of the groups stay.
LEMMA ClampsKept ==
  ASSUME GrantInv, BoundsInv, TasksKept, \A h \in Group : Hosts(h) => Hosts(h)', SameOp,
         UNCHANGED <<tg_eff, uclamp_default>>, tg_req'[Root] = tg_req[Root]
  PROVE  GrantInv' /\ BoundsInv'
<1>1. Current(Root)' <=> Current(Root)
  BY DEF Current, Effective
<1>2. \A h \in Group : Settled(h)' <=> Settled(h)
  BY DEF Settled
<1>3. \A h \in Group : Steady(h)
  BY <1>1, <1>2 DEF Steady
<1>4. \A t \in Task : Exempt(t) => Exempt(t)'
  BY DEF Exempt, Storing, SameOp, TasksKept
<1>5. \A t \in Task : group[t] \in Group
  BY DEF GrantInv, Placed, Hosts
<1> QED
  BY <1>3, <1>4, <1>5, BoundKept

LEMMA KnobBound ==
  ASSUME GrantInv, BoundsInv, TreeInv, DefaultInv, KnobStep PROVE GrantInv' /\ BoundsInv'
<1>0. TasksKept
  BY DEF KnobStep, SysctlWrite, SysctlUndo, SysctlDefault, SysctlRtDefault, TasksKept, taskVars,
         rqVars
<1>1. UNCHANGED <<tg, tg_eff>> /\ \A h \in Group : Hosts(h) => Hosts(h)'
  BY DEF KnobStep, SysctlWrite, SysctlUndo, SysctlDefault, SysctlRtDefault, groupVars, Hosts
<1>2. SameOp /\ op.kind \notin Holding
  <2>1. op.kind \in {"idle", "check"}
    BY DEF KnobStep, SysctlWrite, SysctlUndo, SysctlDefault, SysctlRtDefault, SysctlValid
  <2>2. op'.kind \notin {"store", "tasks"}
    <3>1. \/ op' = Idle \/ op' = Walk(Subtree(Root))
          \/ op' = [Idle EXCEPT !.kind = "sync", !.todo = Visible]
          \/ \E k \in Knob : op' = [Idle EXCEPT !.kind = "check", !.knob = k, !.val = sysctl[k]]
      BY DEF KnobStep, SysctlWrite, SysctlUndo, SysctlDefault, SysctlRtDefault
    <3>2. Idle.kind = "idle" /\ Walk(Subtree(Root)).kind \in {"idle", "walk"}
      BY DEF Idle, Walk
    <3>3. [Idle EXCEPT !.kind = "sync", !.todo = Visible].kind = "sync"
      BY DEF Idle
    <3>4. \A k \in Knob :
            [Idle EXCEPT !.kind = "check", !.knob = k, !.val = sysctl[k]].kind = "check"
      BY DEF Idle
    <3> QED
      BY <3>1, <3>2, <3>3, <3>4
  <2> QED
    BY <2>1, <2>2 DEF SameOp, Holding
<1>3. CASE UNCHANGED <<uclamp_default, tg_req>>
  BY <1>0, <1>1, <1>2, <1>3, ClampsKept
<1>4. CASE ~UNCHANGED <<uclamp_default, tg_req>>
  <2>1. /\ SysctlDefault /\ sysctl[op.knob] # op.val
    BY <1>4 DEF KnobStep, SysctlWrite, SysctlUndo, SysctlDefault, SysctlRtDefault, sysVars, groupVars
  <2>2. /\ tg_req'[Root] = [id \in Clamp |-> sysctl[id]] /\ op.kind = "check" /\ op.knob \in Clamp
        /\ sysctl["min"] <= sysctl["max"] /\ sysctl["min"] \in Nat /\ sysctl["max"] \in Nat
    BY <2>1, GroupAssumption DEF SysctlDefault, SysctlValid, TreeInv, TreeTypeOK, Knob, Clamp
  <2>3. ~Current(Root)'
    <3>1. Root \in Group /\ tg[Root] = "online"
      BY GroupAssumption DEF TreeInv, ParentsOnline
    <3>2. Current(Root)
      BY <1>2, <3>1, SettledAtRest
    <3>3. /\ tg_req[Root]["min"] <= tg_req[Root]["max"]
          /\ tg_req[Root]["min"] \in Nat /\ tg_req[Root]["max"] \in Nat
          /\ tg_req[Root][op.knob] = op.val
      BY <2>2, <3>1, ScaleAssumption DEF DefaultInv, Standing, TreeInv, TreeTypeOK, Clamp
    <3>4. \A id \in Clamp : tg_eff[Root][id] = tg_req[Root][id]
      BY <3>2, <3>3 DEF Current, Effective, Clamp, Least
    <3>5. \A id \in Clamp : Effective(Root)'[id] = sysctl[id]
      BY <2>2 DEF Effective, Clamp, Least
    <3>6. tg_eff'[Root][op.knob] # Effective(Root)'[op.knob]
      BY <1>1, <2>1, <2>2, <3>3, <3>4, <3>5
    <3> QED
      BY <2>2, <3>6 DEF Current
  <2>4. ASSUME NEW t \in Task PROVE Steady(group[t]) /\ ~Exempt(t)
    <3>1. group[t] \in Group /\ tg[group[t]] = "online"
      BY DEF GrantInv, Placed, Hosts
    <3>2. Settled(group[t])
      BY <1>2, <3>1, SettledAtRest
    <3> QED
      BY <1>1, <2>2, <2>3, <3>2 DEF Steady, Exempt, Storing
  <2> QED
    BY <1>0, <1>1, <2>4, BoundKept
<1> QED
  BY <1>3, <1>4

LEMMA AllocBound ==
  ASSUME GrantInv, BoundsInv, NEW g \in Group \ {Root}, GroupAlloc(g), TreeTypeOK
  PROVE  GrantInv' /\ BoundsInv'
<1>1. /\ TasksKept /\ op' = op /\ uclamp_default' = uclamp_default /\ tg[g] = "none"
      /\ \A h \in Group \ {g} : tg'[h] = tg[h] /\ tg_eff'[h] = tg_eff[h] /\ tg_req'[h] = tg_req[h]
  BY DEF GroupAlloc, TasksKept, taskVars, rqVars, sysVars, TreeTypeOK
<1>2. \A h \in Group : Hosts(h) => Hosts(h)'
  BY <1>1 DEF Hosts
<1>3. Current(Root)' <=> Current(Root)
  BY <1>1, GroupAssumption DEF Current, Effective
<1>4. ASSUME NEW h \in Group \ {g} PROVE Steady(h)
  BY <1>1, <1>3 DEF Steady, Settled
<1>5. ASSUME NEW t \in Task PROVE group[t] \in Group \ {g} /\ (Exempt(t)' <=> Exempt(t))
  BY <1>1 DEF GrantInv, Placed, Hosts, Exempt, Storing, TasksKept
<1> QED
  BY <1>1, <1>2, <1>4, <1>5, BoundKept

LEMMA GroupBound ==
  ASSUME GrantInv, BoundsInv, TreeTypeOK, NEW g \in Group,
         \/ g # Root /\ (GroupOnline(g) \/ GroupUpdate(g))
         \/ \E id \in Clamp, v \in Limits : cpu_uclamp_write(g, id, v)
  PROVE  GrantInv' /\ BoundsInv'
<1>1. /\ TasksKept /\ UNCHANGED <<tg_eff, uclamp_default>> /\ tg_req'[Root] = tg_req[Root]
      /\ op' = op \/ (op.kind = "idle" /\ op' = Walk(Subtree(g)))
      /\ tg' = tg \/ tg' = [tg EXCEPT ![g] = "online"]
         \/ (tg[g] = "allocated" /\ tg' = [tg EXCEPT ![g] = "parented"])
  <2>1. CASE g # Root /\ GroupOnline(g)
    BY <2>1 DEF GroupOnline, TasksKept, taskVars, rqVars, sysVars
  <2>2. CASE g # Root /\ GroupUpdate(g)
    BY <2>2 DEF GroupUpdate, TasksKept, taskVars, rqVars, sysVars
  <2>3. CASE \E id \in Clamp, v \in Limits : cpu_uclamp_write(g, id, v)
    <3>1. PICK id \in Clamp, v \in Limits : cpu_uclamp_write(g, id, v)
      BY <2>3
    <3> QED
      BY <3>1, GroupAssumption DEF cpu_uclamp_write, TasksKept, taskVars, rqVars, sysVars, TreeTypeOK
  <2> QED
    BY <2>1, <2>2, <2>3
<1>2. SameOp
  <2>1. Walk(Subtree(g)).kind \in {"idle", "walk"}
    BY DEF Walk, Idle
  <2> QED
    BY <1>1, <2>1 DEF SameOp
<1>3. \A h \in Group : Hosts(h) => Hosts(h)'
  BY <1>1 DEF Hosts, TreeTypeOK
<1> QED
  BY <1>1, <1>2, <1>3, ClampsKept

\* A group is visited: its protection is stored, its tasks are to follow.
LEMMA VisitBound ==
  ASSUME GrantInv, BoundsInv, TreeTypeOK, NEW g \in Group, WalkGroup(g)
  PROVE  GrantInv' /\ BoundsInv'
<1>0. TasksKept /\ UNCHANGED <<tg, tg_req, uclamp_default>> /\ op.kind = "walk"
      /\ (\A h \in Group : Hosts(h) => Hosts(h)')
  BY DEF WalkGroup, TasksKept, taskVars, rqVars, sysVars, Hosts
<1>1. CASE UNCHANGED tg_eff /\ op' = Walk(op.rest \ Subtree(g))
  <2>1. SameOp
    BY <1>0, <1>1 DEF SameOp, Walk, Idle
  <2> QED
    BY <1>0, <1>1, <2>1, ClampsKept
<1>2. CASE /\ tg_eff' = [tg_eff EXCEPT ![g]["min"] = Effective(g)["min"]]
           /\ op' = [op EXCEPT !.kind = "store", !.at = g, !.rest = @ \ {g},
                               !.val = Effective(g)["max"]]
  <2>1. op'.kind = "store" /\ op'.at = g
    BY <1>2 DEF TreeTypeOK
  <2>2. \A h \in Group \ {g} : tg_eff'[h] = tg_eff[h]
    BY <1>2 DEF TreeTypeOK
  <2>3. Root # g => (Current(Root)' <=> Current(Root))
    BY <1>0, <2>2, GroupAssumption DEF Current, Effective
  <2>4. ASSUME NEW h \in Group \ {g} PROVE Steady(h)
    BY <1>0, <2>2, <2>3 DEF Steady, Settled
  <2>5. ASSUME NEW t \in Task PROVE Exempt(t)' \/ (~Exempt(t) /\ Steady(group[t]))
    <3>1. CASE group[t] = g
      BY <1>0, <2>1, <3>1 DEF Exempt, Storing, TasksKept
    <3>2. CASE group[t] # g
      <4>1. group[t] \in Group \ {g} /\ ~Exempt(t)
        BY <1>0, <3>2 DEF GrantInv, Placed, Hosts, Exempt, Storing
      <4> QED
        BY <2>4, <4>1
    <3> QED
      BY <3>1, <3>2
  <2> QED
    BY <1>0, <2>5, BoundKept
<1> QED
  BY <1>1, <1>2 DEF WalkGroup

\* The limit is stored: the tasks that are counted are all to be visited.
LEMMA StoreBound ==
  ASSUME GrantInv, BoundsInv, TreeTypeOK, WalkStore
  PROVE  GrantInv' /\ BoundsInv'
<1> DEFINE g == op.at
           todo == {t \in Visible : css[t] = op.at}
<1>0. /\ TasksKept /\ UNCHANGED <<tg, tg_req, uclamp_default>> /\ op.kind = "store" /\ g \in Group
      /\ \A h \in Group : Hosts(h) => Hosts(h)'
  BY DEF WalkStore, TasksKept, taskVars, rqVars, sysVars, Hosts, TreeTypeOK
<1>1. /\ tg_eff' = [tg_eff EXCEPT ![g]["max"] = op.val]
      /\ op' = IF todo = {} THEN Walk(op.rest) ELSE [op EXCEPT !.kind = "tasks", !.todo = todo]
  BY DEF WalkStore
<1>2. todo # {} => op'.kind = "tasks" /\ op'.todo = todo /\ op'.at = g
  BY <1>1 DEF TreeTypeOK
<1>3. \A h \in Group \ {g} : tg_eff'[h] = tg_eff[h]
  BY <1>1 DEF TreeTypeOK
<1>4. Root # g => (Current(Root)' <=> Current(Root))
  BY <1>0, <1>3, GroupAssumption DEF Current, Effective
<1>5. ASSUME NEW h \in Group \ {g} PROVE Steady(h)
  BY <1>0, <1>3, <1>4 DEF Steady, Settled
<1>6. ASSUME NEW t \in Task, Counts(t) PROVE Exempt(t)' \/ (~Exempt(t) /\ Steady(group[t]))
  <2>1. stage[t] = "live"
    BY <1>6 DEF Counts, GrantInv, OnlyRunnable
  <2>2. CASE group[t] = g
    <3>1. t \in todo
      BY <1>6, <2>1, <2>2 DEF Counts, Visible
    <3> QED
      BY <1>0, <1>2, <2>2, <3>1 DEF Exempt, TasksKept
  <2>3. CASE group[t] # g
    <3>1. group[t] \in Group \ {g} /\ ~Exempt(t)
      BY <1>0, <2>3 DEF GrantInv, Placed, Hosts, Exempt, Storing
    <3> QED
      BY <1>5, <3>1
  <2> QED
    BY <2>2, <2>3
<1> HIDE DEF g, todo
<1> QED
  BY <1>0, <1>6, BoundKept

\* A task is updated, or has left the group and is passed over.
LEMMA UpdateBound ==
  ASSUME GrantInv, BoundsInv, TreeTypeOK, DefaultInv, NEW t \in Task, WalkTask(t)
  PROVE  GrantInv' /\ BoundsInv'
<1>0. GrantShape /\ OnlyRunnable /\ Placed /\ AllMeasured
  BY DEF GrantInv
<1> DEFINE e == uclamp_eff_get(uclamp_req[t], group[t])
<1>1. /\ UNCHANGED <<stage, policy, boosted, uclamp_req, on_rq, css, group, sysVars, groupVars>>
      /\ UNCHANGED sched_uclamp_used /\ op.kind = "tasks" /\ op' = Next_task(t) /\ t \in op.todo
      /\ \/ uclamp[t] = NotActive /\ uclamp' = uclamp
         \/ uclamp[t] # NotActive /\ uclamp' = [uclamp EXCEPT ![t] = e]
         \/ css[t] # op.at /\ uclamp' = uclamp
  BY DEF WalkTask, taskVars, uclamp_update_active, rqVars, Put
<1>2. Fits(e, group[t])
  BY <1>0, EffFits DEF AllMeasured, Placed, Hosts
<1> HIDE DEF e
<1>3. \A s \in Task \ {t} : uclamp'[s] = uclamp[s]
  BY <1>0, <1>1 DEF GrantShape
<1>4. /\ \A s \in Task \ {t} : Exempt(s) => Exempt(s)'
      /\ ~Exempt(t) \/ css[t] # op.at \/ group[t] = op.at
  <2>1. ASSUME NEW s \in Task \ {t}, Exempt(s) PROVE Exempt(s)'
    <3>1. s \in op.todo /\ op.at = group[s] /\ op.todo # {t}
      BY <1>1, <2>1 DEF Exempt, Storing
    <3>2. op' = [op EXCEPT !.todo = @ \ {t}, !.on = {}]
      BY <1>1, <3>1 DEF Next_task
    <3>3. op'.kind = "tasks" /\ s \in op'.todo /\ op'.at = group'[s]
      BY <1>1, <3>1, <3>2 DEF TreeTypeOK
    <3> QED
      BY <3>3 DEF Exempt
  <2> QED
    BY <1>1, <2>1 DEF Exempt, Storing
<1>5. GrantInv'
  <2>1. GrantShape' /\ AllMeasured' /\ Placed'
    BY <1>0, <1>1 DEF GrantShape, AllMeasured, Measured, Placed, Hosts, groupVars
  <2>2. OnlyRunnable'
    <3>1. \A s \in Task : uclamp'[s] # NotActive => uclamp[s] # NotActive
      BY <1>0, <1>1, <1>3 DEF GrantShape
    <3> QED
      BY <1>0, <1>1, <3>1 DEF OnlyRunnable
  <2> QED
    BY <2>1, <2>2 DEF GrantInv
<1>6. UNCHANGED <<groupVars, uclamp_default>>
  BY <1>1 DEF sysVars
<1>7. ASSUME NEW s \in Task, uclamp'[s] = uclamp[s], Within(s) PROVE Within(s)'
  <2>1. Fits(uclamp'[s], group'[s])
    BY <1>1, <1>7 DEF Within, Fits
  <2> QED
    BY <1>6, <2>1, FitsLater
<1>8. ASSUME NEW s \in Task \ {t} PROVE Bound(s)'
  BY <1>1, <1>3, <1>4, <1>7 DEF BoundsInv, Bound
<1>9. Bound(t)'
  <2>1. CASE uclamp[t] = NotActive /\ uclamp' = uclamp
    BY <2>1 DEF Bound
  <2>2. CASE uclamp' = [uclamp EXCEPT ![t] = e]
    <3>1. uclamp'[t] = e /\ group'[t] = group[t]
      BY <1>0, <1>1, <2>2 DEF GrantShape
    <3>2. Fits(uclamp'[t], group'[t])
      BY <1>2, <3>1
    <3> QED
      BY <1>6, <3>2, FitsLater DEF Bound
  <2>3. CASE css[t] # op.at /\ uclamp' = uclamp
    <3>1. css[t] = group[t] => ~Exempt(t)
      BY <1>1, <2>3 DEF Exempt, Storing
    <3> QED
      BY <1>1, <1>7, <2>3, <3>1 DEF BoundsInv, Bound
  <2> QED
    BY <1>1, <2>1, <2>2, <2>3
<1> QED
  BY <1>5, <1>8, <1>9 DEF BoundsInv

LEMMA StepBound ==
  ASSUME GrantInv, BoundsInv, TreeInv, DefaultInv, UserShape, [Next]_vars
  PROVE  GrantInv' /\ BoundsInv'
<1>0. TreeTypeOK
  BY DEF TreeInv
<1> DEFINE Done == GrantInv' /\ BoundsInv'
<1>1. ASSUME KnobStep PROVE Done
  BY <1>1, KnobBound
<1>2. ASSUME NEW t \in Task, NEW c \in CPU, Enqueue(t, c) PROVE Done
  BY <1>0, <1>2, EnqueueBound
<1>3. ASSUME NEW t \in Task, Dequeue(t) \/ rt_mutex_setprio(t) PROVE Done
  BY <1>0, <1>3, DequeueBound, BoostBound
<1>4. ASSUME NEW t \in Task, NEW a \in Attrs, SetAttrCheck(t, a) PROVE Done
  <2>1. TasksKept /\ SameOp /\ UNCHANGED <<tg, tg_eff, tg_req, uclamp_default>>
    BY <1>4 DEF SetAttrCheck, TasksKept, SameOp, taskVars, rqVars, sysVars, groupVars
  <2>2. \A h \in Group : Hosts(h) => Hosts(h)'
    BY <2>1 DEF Hosts
  <2> QED
    BY <2>1, <2>2, ClampsKept
<1>5. ASSUME NEW t \in Task, NEW a \in Attrs, SetPolicy(t, a) PROVE Done
  <2>1. a \in Argument
    BY InputAssumption
  <2>2. SetScheduler(t, a) /\ sched_uclamp_used' = sched_uclamp_used
    BY <1>5 DEF SetPolicy
  <2> QED
    BY <1>0, <2>1, <2>2, SchedulerBound
<1>6. ASSUME NEW x \in setattr, SetAttr(x) PROVE Done
  <2> DEFINE t == x.task
             a == x.attr
  <2>1. t \in Task /\ a \in Argument
    BY DEF UserShape
  <2>2. SetScheduler(t, a) /\ sched_uclamp_used' = sched_uclamp_used
    BY <1>6 DEF SetAttr
  <2> HIDE DEF t, a
  <2> QED
    BY <1>0, <2>1, <2>2, SchedulerBound
<1>7. ASSUME NEW t \in Task, NEW child \in Task, NEW reset \in Roof, Fork(t, child, reset)
      PROVE  Done
  BY <1>7, ForkBound
<1>8. ASSUME NEW t \in Task,
             uclamp_post_fork(t) \/ PostForkSync(t) \/ SyncTest(t) \/ SyncTask(t)
      PROVE  Done
  BY <1>0, <1>8, SyncBound
<1>9. ASSUME NEW t \in Task, WalkTask(t) PROVE Done
  BY <1>0, <1>9, UpdateBound
<1>10. ASSUME NEW g \in Group \ {Root}, GroupAlloc(g) \/ GroupOnline(g) \/ GroupUpdate(g) PROVE Done
  BY <1>0, <1>10, AllocBound, GroupBound
<1>11. ASSUME NEW g \in Group, NEW id \in Clamp, NEW v \in Limits, cpu_uclamp_write(g, id, v)
       PROVE  Done
  BY <1>0, <1>11, GroupBound
<1>12. ASSUME NEW g \in Group, WalkGroup(g) PROVE Done
  BY <1>0, <1>12, VisitBound
<1>13. ASSUME WalkStore PROVE Done
  BY <1>0, <1>13, StoreBound
<1>14. ASSUME NEW t \in Task, NEW g \in Group, MoveCss(t, g) PROVE Done
  BY <1>0, <1>14, MoveCssBound
<1>15. ASSUME NEW t \in Task, sched_move_task(t) PROVE Done
  BY <1>0, <1>15, MoveBound
<1>16. ASSUME UNCHANGED vars PROVE Done
  <2>1. TasksKept /\ SameOp /\ UNCHANGED <<tg, tg_eff, tg_req, uclamp_default>>
    BY <1>16 DEF vars, TasksKept, SameOp, taskVars, rqVars, sysVars, groupVars
  <2>2. \A h \in Group : Hosts(h) => Hosts(h)'
    BY <2>1 DEF Hosts
  <2> QED
    BY <2>1, <2>2, ClampsKept
<1> HIDE DEF Done
<1>17. Done
  BY <1>1, <1>2, <1>3, <1>4, <1>5, <1>6, <1>7, <1>8, <1>9, <1>10, <1>11, <1>12, <1>13, <1>14,
     <1>15, <1>16 DEF Next, KnobStep
<1> QED
  BY <1>17 DEF Done

\* At rest the groups' effective clamps are the least on their paths, and every
\* counted task is clamped to what its group and the system defaults grant, in every
\* tree, though tasks are updated one by one and move meanwhile
\* (cpu_util_update_eff, uclamp_update_active_tasks, sched_move_task).
THEOREM BoundsHold == Spec => []BoundsRespected
<1> DEFINE Inv == TreeInv /\ UserInv /\ DefaultInv /\ GrantInv /\ BoundsInv
<1>1. Init => Inv
  BY InitTree, InitUser, InitDefault, InitGrant
<1>2. Inv /\ [Next]_vars => Inv'
  BY StepTree, StepUser, StepDefault, StepBound DEF UserInv
<1>3. Inv => BoundsRespected
  <2> SUFFICES ASSUME Inv PROVE BoundsRespected
    OBVIOUS
  <2>1. EffectiveIsLeast
    BY ShowsLeast
  <2>2. ASSUME AtRest, NEW t \in Task, uclamp[t] # NotActive, css[t] = group[t]
        PROVE  /\ Within(t) /\ Settled(group[t]) /\ Current(group[t])
               /\ tg_eff[group[t]]["max"] <= uclamp_default["max"].value
    <3>1. ~Exempt(t) /\ op.kind \notin Holding
      BY <2>2 DEF AtRest, Exempt, Storing, Holding
    <3>2. group[t] \in Group /\ tg[group[t]] = "online"
      BY DEF GrantInv, Placed, Hosts
    <3> QED
      BY <2>2, <3>1, <3>2, SettledAtRest DEF BoundsInv, Bound
  <2>3. GroupBounds
    BY <2>2 DEF GroupBounds, Within
  <2>4. ASSUME AtRest, NEW t \in Task, NEW id \in Clamp, uclamp[t] # NotActive,
               css[t] = group[t], group[t] = Root \/ id = "max"
        PROVE  uclamp[t][id].value <= uclamp_default[id].value
    <3>1. CASE group[t] = Root
      BY <2>2, <2>4, <3>1 DEF Within
    <3>2. CASE group[t] # Root
      <4> DEFINE v == uclamp[t]["max"].value
                 lo == tg_eff[group[t]]["min"]
                 hi == tg_eff[group[t]]["max"]
                 d == uclamp_default["max"].value
      <4>1. v \in lo..hi /\ hi <= d
        BY <2>2, <2>4, <3>2 DEF Within, Clamp
      <4>2. lo \in Nat /\ hi \in Nat /\ d \in Nat
        <5>1. group[t] \in Group
          BY DEF GrantInv, Placed, Hosts
        <5> QED
          BY <5>1, GroupAssumption, ScaleAssumption DEF TreeInv, TreeTypeOK, DefaultInv, Clamp
      <4> HIDE DEF v, lo, hi, d
      <4>3. v <= d
        BY <4>1, <4>2
      <4> QED
        BY <2>4, <3>2, <4>3 DEF v, d
    <3> QED
      BY <3>1, <3>2
  <2>5. DefaultBounds
    BY <2>4 DEF DefaultBounds
  <2> QED
    BY <2>1, <2>3, <2>5 DEF BoundsRespected
<1> QED
  BY <1>1, <1>2, <1>3, PTL DEF Spec
=============================================================================
