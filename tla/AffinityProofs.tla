---------------------------- MODULE AffinityProofs --------------------------
(***************************************************************************)
(* Proofs about affinity, migrate_disable(), the stoppers and hotplug, for *)
(* any number of CPUs and callers and any bounds.                          *)
(***************************************************************************)
EXTENDS AffinityProps, FiniteSetTheorems, TLAPS

(* The works of a stopper: queued, and in the hands of its thread.         *)
Work ==
  [fn : {"migration_cpu_stop"}, own : Caller \cup {None}, dest : CPU \cup {None}] \cup
  [fn : {"push_cpu_stop", "balance_push"}, own : {None}, dest : {None}]
Unlocked == [fn : {"complete", "chase"}, own : Caller, dest : CPU \cup {None}]

WorksOK ==
  /\ works \in [CPU -> Seq(Work)]
  /\ stopper \in [CPU -> {Idle} \cup Work \cup Unlocked]

(* What lies at place n of a queue, and what a stopper has in hand.        *)
Lists(d, n, f) == n \in DOMAIN works[d] /\ works[d][n].fn = f
InQueue(d, n, j) == n \in DOMAIN works[d] /\ works[d][n].own = j
InHand(d, j) == stopper[d].fn \in {"migration_cpu_stop", "chase"} /\ stopper[d].own = j
StopperEnds(d, j) == stopper[d].fn = "complete" /\ stopper[d].own = j

(* migrate_enable() is not preempted, and a stopper preempts what runs.    *)
EnableInv ==
  /\ enable.at # "out" => run = "running" /\ migration_disabled = 1
  /\ enable.at = "complete" => enable.ends # None
  /\ run = "leaving" => ~Pinned
  /\ \A d \in CPU : stopper[d] # Idle /\ cpu = d => ~OnCpu
  /\ \A d \in CPU : hp[d] = "dead" => works[d] = <<>> /\ stopper[d] = Idle

(* Where a pinned task is, who counts it, and when a CPU is vacated.       *)
PinInv ==
  AlwaysReset =>
    /\ ~Pinned \/ enable.at # "out" => cpus_ptr = None
    /\ Pinned /\ cpus_ptr # None => cpus_ptr = cpu
    /\ Pinned /\ ~OnCpu => cpus_ptr = cpu
    /\ \A d \in CPU : nr_pinned[d] = IF Pinned /\ cpu = d THEN 1 ELSE 0
    /\ \A d \in CPU : hp[d] \in {"empty", "dead"} /\ cpu = d => run = "blocked" /\ ~Pinned

(* push_busy stands for the work of its runqueue, wherever it is, or for   *)
(* the one that migrate_enable() is about to queue.                        *)
PushQueued ==
  /\ \A d \in CPU, n \in Nat : Lists(d, n, "push_cpu_stop") => push_busy[d]
  /\ \A d \in CPU : stopper[d].fn = "push_cpu_stop" => push_busy[d]
  /\ \A d \in CPU, n \in Nat : Lists(d, n, "push_cpu_stop") => stopper[d].fn # "push_cpu_stop"
  /\ \A d \in CPU, f \in {"push_cpu_stop", "balance_push"}, m, n \in Nat :
       Lists(d, m, f) /\ Lists(d, n, f) => m = n

PushAwaited ==
  enable.at = "push" =>
    /\ push_busy[cpu] /\ stopper[cpu].fn # "push_cpu_stop"
    /\ \A n \in Nat : ~Lists(cpu, n, "push_cpu_stop")

PushInv == PushQueued /\ PushAwaited

(* A task outside its mask has a request, whose destination is in it.      *)
MaskInv ==
  lapsed = {} /\ cpu \notin cpus_mask =>
    /\ run # "blocked" \/ Pinned => migration_pending # None
    /\ migration_pending # None => pend[migration_pending].dest \in cpus_mask

(* The stop work of a request is to be queued by a caller or by            *)
(* migrate_enable(), or it is queued, or a stopper has it; one of these,   *)
(* and only while the request is installed with stop_pending.              *)
Installed(j) == migration_pending = j /\ pend[j].stop_pending

StopInv ==
  /\ \A j \in Caller : pend[j].stop_pending => migration_pending = j
  /\ \A j \in Caller : pc[j] = "kick" => Installed(use[j])
  /\ \A j \in Caller : pc[j] = "kick" => kick[j] \in CPU
  /\ enable.at = "kick" => migration_pending # None /\ Installed(migration_pending)
  /\ \A d \in CPU, n \in Nat, j \in Caller : InQueue(d, n, j) => Installed(j)
  /\ \A d \in CPU, j \in Caller : InHand(d, j) => Installed(j)

OneInv ==
  /\ \A i, j \in Caller : pc[i] = "kick" /\ pc[j] = "kick" => i = j
  /\ \A j \in Caller : pc[j] = "kick" => enable.at # "kick"
  /\ \A i, j \in Caller, d \in CPU : pc[i] = "kick" => ~InHand(d, j)
  /\ \A i, j \in Caller, d \in CPU, n \in Nat : pc[i] = "kick" => ~InQueue(d, n, j)
  /\ \A j \in Caller, d \in CPU : enable.at = "kick" => ~InHand(d, j)
  /\ \A j \in Caller, d \in CPU, n \in Nat : enable.at = "kick" => ~InQueue(d, n, j)
  /\ \A i, j \in Caller, d, e \in CPU : InHand(d, i) /\ InHand(e, j) => d = e
  /\ \A i, j \in Caller, d, e \in CPU, n \in Nat : InHand(d, i) => ~InQueue(e, n, j)
  /\ \A i, j \in Caller, d, e \in CPU, m, n \in Nat :
       InQueue(d, m, i) /\ InQueue(e, n, j) => d = e /\ m = n

(* Who is about to complete a request: one stopper, one caller or          *)
(* migrate_enable(), while its owner waits for it.                         *)
EnableEnds(j) == enable.ends = j
CallerEnds(i, j) == pc[i] \in {"complete", "complete_return"} /\ use[i] = j
Waiting(j) == use[j] = j /\ ~pend[j].done /\ migration_pending # j

EndOnce ==
  /\ \A j \in Caller, d \in CPU : StopperEnds(d, j) => Waiting(j) /\ pc[j] = "wait"
  /\ \A i, j \in Caller : CallerEnds(i, j) => Waiting(j) /\ pc[j] \in {"wait", "complete"}
  /\ \A j \in Caller, d, e \in CPU : StopperEnds(d, j) /\ StopperEnds(e, j) => d = e
  /\ \A i, j \in Caller, d \in CPU : ~(StopperEnds(d, j) /\ CallerEnds(i, j))
  /\ \A h, i, j \in Caller : CallerEnds(h, j) /\ CallerEnds(i, j) => h = i

EnableEndsOnce ==
  /\ \A j \in Caller : EnableEnds(j) => Waiting(j) /\ pc[j] = "wait"
  /\ \A j \in Caller, d \in CPU : ~(StopperEnds(d, j) /\ EnableEnds(j))
  /\ \A i, j \in Caller : ~(CallerEnds(i, j) /\ EnableEnds(j))

EndInv == EndOnce /\ EnableEndsOnce

(* A request lives while it is installed or used.                          *)
LiveInv ==
  /\ \A j \in Caller : use[j] = None <=> pc[j] \in {"idle", "own"}
  /\ \A j \in Caller : migration_pending = j =>
       use[j] = j /\ pc[j] \in {"kick", "wait"} /\ ~pend[j].done
  /\ \A i, j \in Caller : use[i] = j => use[j] = j \/ (pc[j] = "own" /\ pend[j].done)
  /\ \A j \in Caller : use[j] # j /\ pc[j] # "own" => pend[j] = NoPending

(* The references of a request.                                            *)
Waiters(j) == {i \in Caller : use[i] = j /\ pc[i] # "complete_return"}

RefInv == \A j \in Caller : pend[j].refs = Cardinality(Waiters(j))

AffinityInv ==
  /\ TypeOK /\ WorksOK /\ EnableInv /\ PinInv /\ PushInv /\ MaskInv
  /\ StopInv /\ OneInv /\ EndInv /\ LiveInv /\ RefInv

(* A call finds P on a CPU that the new mask M lacks, and picks dest.      *)
Leaves(k, M, dest) ==
  /\ pc[k] = "idle" /\ cpu \notin M /\ cpus_mask' = M
  /\ dest \in CPU /\ (hp[dest] = "up" \/ Pinned)
  /\ AffineMove(k, dest)
  /\ UNCHANGED <<run, cpus_ptr, migration_disabled, mdf_push, enable, exec,
                 rqVars, stopVars, otherVars>>

-----------------------------------------------------------------------------
(* How a step changes the queues, and what the stoppers have in hand.      *)
QueuesKept ==
  \A d \in CPU, n \in Nat :
    /\ \A f : Lists(d, n, f)' <=> Lists(d, n, f)
    /\ \A j : InQueue(d, n, j)' <=> InQueue(d, n, j)

LEMMA WorksKept ==
  ASSUME UNCHANGED works
  PROVE  QueuesKept
BY DEF QueuesKept, Lists, InQueue

HandsKept ==
  \A d \in CPU, j \in Caller :
    /\ InHand(d, j)' <=> InHand(d, j)
    /\ StopperEnds(d, j)' <=> StopperEnds(d, j)

LEMMA StoppersKept ==
  ASSUME UNCHANGED stopper
  PROVE  HandsKept
BY DEF HandsKept, InHand, StopperEnds

(* stop_one_cpu_nowait() adds one work at most, and none to a dead CPU.    *)
WorksGrow ==
  /\ works' \in [CPU -> Seq(Work)]
  /\ \A d \in CPU : hp[d] = "dead" => works'[d] = works[d]

Adds(c, fn, own, place) ==
  \A d \in CPU, n \in Nat :
    /\ \A f : Lists(d, n, f)' => Lists(d, n, f) \/ (d = c /\ n = place /\ f = fn)
    /\ \A j : InQueue(d, n, j)' => InQueue(d, n, j) \/ (d = c /\ n = place /\ j = own)

LEMMA StopAdds ==
  ASSUME works \in [CPU -> Seq(Work)], NEW c \in CPU, NEW w \in Work, Stop(c, w)
  PROVE  WorksGrow /\ \E place \in Nat : Adds(c, w.fn, w.own, place)
<1>1. CASE hp[c] = "dead"
  <2>1. UNCHANGED works
    BY <1>1 DEF Stop
  <2>2. Adds(c, w.fn, w.own, 0)
    BY <2>1, WorksKept DEF Adds, QueuesKept
  <2>3. WorksGrow
    BY <2>1 DEF WorksGrow
  <2> QED
    BY <2>2, <2>3
<1>2. CASE hp[c] # "dead"
  <2> DEFINE place == Len(works[c]) + 1
  <2>1. works' = [works EXCEPT ![c] = Append(works[c], w)]
    BY <1>2 DEF Stop
  <2>2. Append(works[c], w) \in Seq(Work) /\ place \in Nat
    OBVIOUS
  <2>3. WorksGrow
    BY <1>2, <2>1, <2>2 DEF WorksGrow
  <2>4. ASSUME NEW d \in CPU, NEW n \in DOMAIN works'[d]
        PROVE  \/ n \in DOMAIN works[d] /\ works'[d][n] = works[d][n]
               \/ d = c /\ n = place /\ works'[d][n] = w
    <3>1. CASE d = c
      <4>1. works'[c] = Append(works[c], w) /\ works[c] \in Seq(Work)
        BY <2>1
      <4>2. n \in 1 .. Len(works[c]) + 1
        BY <2>4, <3>1, <4>1
      <4> QED
        BY <3>1, <4>1, <4>2
    <3>2. CASE d # c
      BY <2>1, <2>4, <3>2
    <3> QED
      BY <3>1, <3>2
  <2> HIDE DEF place
  <2>5. \A d \in CPU, n \in Nat : \A f : Lists(d, n, f)' =>
          Lists(d, n, f) \/ (d = c /\ n = place /\ f = w.fn)
    BY <2>4 DEF Lists
  <2>6. \A d \in CPU, n \in Nat : \A j : InQueue(d, n, j)' =>
          InQueue(d, n, j) \/ (d = c /\ n = place /\ j = w.own)
    BY <2>4 DEF InQueue
  <2>7. Adds(c, w.fn, w.own, place)
    BY <2>5, <2>6 DEF Adds
  <2> QED
    BY <2>2, <2>3, <2>7
<1> QED
  BY <1>1, <1>2

LEMMA PushAdds ==
  ASSUME WorksOK, NEW c \in CPU,
         Stop(c, [NoWork EXCEPT !.fn = "push_cpu_stop"])
  PROVE  WorksGrow /\ \E place \in Nat : Adds(c, "push_cpu_stop", None, place)
<1>1. /\ [NoWork EXCEPT !.fn = "push_cpu_stop"] \in Work
      /\ [NoWork EXCEPT !.fn = "push_cpu_stop"].fn = "push_cpu_stop"
      /\ [NoWork EXCEPT !.fn = "push_cpu_stop"].own = None
  BY DEF NoWork, Work, MigrateWork
<1> QED
  BY <1>1, StopAdds DEF WorksOK

LEMMA BalanceAdds ==
  ASSUME WorksOK, NEW c \in CPU,
         Stop(c, [NoWork EXCEPT !.fn = "balance_push"])
  PROVE  WorksGrow /\ \E place \in Nat : Adds(c, "balance_push", None, place)
<1>1. /\ [NoWork EXCEPT !.fn = "balance_push"] \in Work
      /\ [NoWork EXCEPT !.fn = "balance_push"].fn = "balance_push"
      /\ [NoWork EXCEPT !.fn = "balance_push"].own = None
  BY DEF NoWork, Work, MigrateWork
<1> QED
  BY <1>1, StopAdds DEF WorksOK

LEMMA ExecAdds ==
  ASSUME WorksOK, NEW c \in CPU, NEW to \in CPU,
         Stop(c, [fn |-> "migration_cpu_stop", own |-> None, dest |-> to])
  PROVE  WorksGrow /\ \E place \in Nat : Adds(c, "migration_cpu_stop", None, place)
<1>1. /\ [fn |-> "migration_cpu_stop", own |-> None, dest |-> to] \in Work
      /\ [fn |-> "migration_cpu_stop", own |-> None, dest |-> to].fn = "migration_cpu_stop"
      /\ [fn |-> "migration_cpu_stop", own |-> None, dest |-> to].own = None
  BY DEF NoWork, Work, MigrateWork
<1> QED
  BY <1>1, StopAdds DEF WorksOK

LEMMA MigrateAdds ==
  ASSUME WorksOK, NEW c \in CPU, NEW k \in Caller,
         Stop(c, MigrateWork(k))
  PROVE  WorksGrow /\ \E place \in Nat : Adds(c, "migration_cpu_stop", k, place)
<1>1. /\ MigrateWork(k) \in Work
      /\ MigrateWork(k).fn = "migration_cpu_stop"
      /\ MigrateWork(k).own = k
  BY DEF NoWork, Work, MigrateWork
<1> QED
  BY <1>1, StopAdds DEF WorksOK

(* The stopper of c has in hand a work with this fn and own, or none.      *)
Holds(c, fn, own) ==
  /\ stopper' \in [CPU -> {Idle} \cup Work \cup Unlocked]
  /\ \A d \in CPU \ {c} : stopper'[d] = stopper[d]
  /\ stopper'[c].fn = fn
  /\ \A d \in CPU, j \in Caller :
       /\ InHand(d, j)' <=> IF d = c THEN fn \in {"migration_cpu_stop", "chase"} /\ own = j
                                   ELSE InHand(d, j)
       /\ StopperEnds(d, j)' <=> IF d = c THEN fn = "complete" /\ own = j
                                        ELSE StopperEnds(d, j)

LEMMA StopperHolds ==
  ASSUME WorksOK, NEW c \in CPU, NEW w \in {Idle} \cup Work \cup Unlocked,
         stopper' = [stopper EXCEPT ![c] = w]
  PROVE  Holds(c, w.fn, w.own)
<1>1. /\ stopper' \in [CPU -> {Idle} \cup Work \cup Unlocked]
      /\ \A d \in CPU \ {c} : stopper'[d] = stopper[d]
      /\ stopper'[c] = w
  BY DEF WorksOK
<1> QED
  BY <1>1 DEF Holds, InHand, StopperEnds

LEMMA StopperRests ==
  ASSUME WorksOK, NEW c \in CPU, stopper' = [stopper EXCEPT ![c] = Idle]
  PROVE  Holds(c, "idle", None) /\ stopper'[c] = Idle
<1>1. Idle.fn = "idle" /\ Idle.own = None
  BY DEF Idle, NoWork
<1> QED
  BY <1>1, StopperHolds DEF WorksOK

LEMMA StopperGoesOn ==
  ASSUME WorksOK, NEW c \in CPU, NEW fn \in {"complete", "chase"}, stopper[c].own \in Caller,
         stopper[c].fn = "migration_cpu_stop", stopper' = [stopper EXCEPT ![c].fn = fn]
  PROVE  Holds(c, fn, stopper[c].own)
<1>1. stopper[c] \in Work /\ stopper[c] # Idle
  BY DEF WorksOK, Work, Unlocked, Idle, NoWork
<1>2. /\ [stopper[c] EXCEPT !.fn = fn] \in Unlocked
      /\ [stopper[c] EXCEPT !.fn = fn].fn = fn
      /\ [stopper[c] EXCEPT !.fn = fn].own = stopper[c].own
  BY <1>1 DEF Work, Unlocked
<1>3. stopper' = [stopper EXCEPT ![c] = [stopper[c] EXCEPT !.fn = fn]]
  OBVIOUS
<1> QED
  BY <1>2, <1>3, StopperHolds, ZenonT(30)

(* The queue of c moves up, place n being place s[n] before.               *)
Shifts(c, s) ==
  /\ \A m, n \in Nat : s[m] = s[n] => m = n
  /\ \A n \in Nat : s[n] # 1
  /\ \A d \in CPU, n \in Nat :
       /\ \A f : Lists(d, n, f)' => IF d = c THEN Lists(c, s[n], f) ELSE Lists(d, n, f)
       /\ \A j : InQueue(d, n, j)' => IF d = c THEN InQueue(c, s[n], j) ELSE InQueue(d, n, j)

LEMMA StopperTakes ==
  ASSUME WorksOK, NEW c \in CPU, works[c] # <<>>, works' = [works EXCEPT ![c] = Tail(@)],
         stopper' = [stopper EXCEPT ![c] = Head(works[c])]
  PROVE  /\ works' \in [CPU -> Seq(Work)]
         /\ \A d \in CPU \ {c} : works'[d] = works[d]
         /\ \E s \in [Nat -> Nat] : Shifts(c, s)
         /\ \E w \in Work : /\ Holds(c, w.fn, w.own) /\ stopper'[c] # Idle
                            /\ \A f : w.fn = f => Lists(c, 1, f)
                            /\ \A j : w.own = j => InQueue(c, 1, j)
<1>1. works[c] \in Seq(Work) /\ Len(works[c]) > 0
  BY DEF WorksOK
<1>2. /\ 1 \in DOMAIN works[c] /\ works[c][1] \in Work
      /\ stopper' = [stopper EXCEPT ![c] = works[c][1]]
  BY <1>1
<1>3. /\ Tail(works[c]) \in Seq(Work)
      /\ \A n \in DOMAIN Tail(works[c]) : n + 1 \in DOMAIN works[c]
      /\ \A n \in DOMAIN Tail(works[c]) : Tail(works[c])[n] = works[c][n + 1]
  BY <1>1
<1>4. /\ works' \in [CPU -> Seq(Work)]
      /\ works'[c] = Tail(works[c])
      /\ \A d \in CPU \ {c} : works'[d] = works[d]
  BY <1>3 DEF WorksOK
<1> DEFINE s == [n \in Nat |-> IF n = 0 THEN 0 ELSE n + 1]
<1>5. /\ s \in [Nat -> Nat]
      /\ \A m, n \in Nat : s[m] = s[n] => m = n
      /\ \A n \in Nat : s[n] # 1
      /\ \A n \in Nat \ {0} : s[n] = n + 1
  OBVIOUS
<1> HIDE DEF s
<1>6. Shifts(c, s)
  <2>1. ASSUME NEW d \in CPU, NEW n \in Nat, NEW f, Lists(d, n, f)'
        PROVE  IF d = c THEN Lists(c, s[n], f) ELSE Lists(d, n, f)
    <3>1. d = c => n \in DOMAIN Tail(works[c]) /\ n \in Nat \ {0}
      BY <1>1, <1>3, <1>4, <2>1 DEF Lists
    <3> QED
      BY <1>3, <1>4, <1>5, <2>1, <3>1 DEF Lists
  <2>2. ASSUME NEW d \in CPU, NEW n \in Nat, NEW j, InQueue(d, n, j)'
        PROVE  IF d = c THEN InQueue(c, s[n], j) ELSE InQueue(d, n, j)
    <3>1. d = c => n \in DOMAIN Tail(works[c]) /\ n \in Nat \ {0}
      BY <1>1, <1>3, <1>4, <2>2 DEF InQueue
    <3> QED
      BY <1>3, <1>4, <1>5, <2>2, <3>1 DEF InQueue
  <2> QED
    BY <1>5, <2>1, <2>2 DEF Shifts
<1>7. Holds(c, works[c][1].fn, works[c][1].own)
  BY <1>2, StopperHolds
<1>8. stopper'[c] = works[c][1] /\ works[c][1] # Idle
  BY <1>2 DEF WorksOK, Work, Idle, NoWork
<1>9. /\ \A f : works[c][1].fn = f => Lists(c, 1, f)
      /\ \A j : works[c][1].own = j => InQueue(c, 1, j)
  BY <1>2 DEF Lists, InQueue
<1> QED
  BY <1>2, <1>4, <1>5, <1>6, <1>7, <1>8, <1>9

(* nr_pinned when a region is entered, and when one is left.               *)
LEMMA CountsTyped ==
  ASSUME nr_pinned \in [CPU -> Int], cpu \in CPU,
         nr_pinned' \in {[nr_pinned EXCEPT ![cpu] = @ + 1], [nr_pinned EXCEPT ![cpu] = @ - 1]}
  PROVE  nr_pinned' \in [CPU -> Int]
OBVIOUS

LEMMA CountsIn ==
  ASSUME PinInv, AlwaysReset, ~Pinned, nr_pinned \in [CPU -> Int], cpu \in CPU,
         nr_pinned' = [nr_pinned EXCEPT ![cpu] = @ + 1]
  PROVE  \A d \in CPU : nr_pinned'[d] = IF cpu = d THEN 1 ELSE 0
<1>1. \A d \in CPU : nr_pinned[d] = 0
  BY DEF PinInv
<1> QED
  BY <1>1

LEMMA CountsOut ==
  ASSUME PinInv, AlwaysReset, Pinned, nr_pinned \in [CPU -> Int], cpu \in CPU,
         nr_pinned' = [nr_pinned EXCEPT ![cpu] = @ - 1]
  PROVE  \A d \in CPU : nr_pinned'[d] = 0
<1>1. \A d \in CPU : nr_pinned[d] = IF cpu = d THEN 1 ELSE 0
  BY DEF PinInv
<1> QED
  BY <1>1

(* select_fallback_rq() leaves a pinned task alone, and sends another one  *)
(* to an active CPU of its mask, widened if need be.                       *)
Lands(d) ==
  /\ cpus_mask' \in (SUBSET CPU) \ {{}}
  /\ AlwaysReset =>
       IF Pinned THEN d = cpu /\ cpus_mask' = cpus_mask ELSE hp[d] = "up" /\ d \in cpus_mask'

LEMMA FallbackLands ==
  ASSUME TypeOK, PinInv, ~OnCpu, NEW d \in CPU, Fallback(d)
  PROVE  Lands(d)
<1>. USE NoneAssumption DEF Lands, PinInv
<1>0. cpu \in CPU /\ cpus_mask \in (SUBSET CPU) \ {{}}
  BY DEF TypeOK
<1>1. CASE \E e \in CPU : is_cpu_allowed(e)
  <2>1. d \in Ptr /\ (~Pinned => hp[d] = "up") /\ cpus_mask' = cpus_mask
    BY <1>1 DEF Fallback, is_cpu_allowed, cpu_active
  <2>2. AlwaysReset /\ Pinned => d = cpu
    BY <1>0, <2>1 DEF Ptr
  <2>3. AlwaysReset /\ ~Pinned => d \in cpus_mask
    BY <2>1 DEF Ptr
  <2> QED
    BY <1>0, <2>1, <2>2, <2>3
<1>2. CASE ~ \E e \in CPU : is_cpu_allowed(e)
  <2>1. cpus_ptr = None /\ hp[d] = "up" /\ cpus_mask' = CPU
    BY <1>2 DEF Fallback, cpu_active
  <2>2. cpus_mask' \in (SUBSET CPU) \ {{}} /\ d \in cpus_mask'
    BY <2>1
  <2>3. AlwaysReset => ~Pinned
    BY <1>0, <2>1
  <2> QED
    BY <2>1, <2>2, <2>3
<1> QED
  BY <1>1, <1>2

(* A request that is installed or joined.                                  *)
LEMMA RequestJoined ==
  ASSUME pend \in [Caller -> Request], NEW own \in Caller, NEW dest \in CPU,
           NEW stop \in BOOLEAN
  PROVE  \E r \in Request :
           /\ r = [Joined(own, dest) EXCEPT !.stop_pending = stop]
           /\ r.refs = pend[own].refs + 1 /\ r.done = pend[own].done
           /\ r.dest = dest /\ r.stop_pending = stop
<1>1. PICK p \in Request : p = pend[own]
  OBVIOUS
<1>2. PICK n \in Nat : n = p.refs + 1
  BY DEF Request
<1>3. PICK q : q = [p EXCEPT !.refs = n, !.dest = dest]
  OBVIOUS
<1>4. q \in Request /\ q.done = p.done /\ q.refs = n /\ q.dest = dest
  BY <1>3 DEF Request
<1>5. Joined(own, dest) = q
  BY <1>1, <1>2, <1>3 DEF Joined
<1>6. PICK r : r = [q EXCEPT !.stop_pending = stop]
  OBVIOUS
<1>7. r \in Request /\ r.refs = n /\ r.done = p.done /\ r.dest = dest /\ r.stop_pending = stop
  BY <1>4, <1>6 DEF Request
<1>8. r.refs = pend[own].refs + 1 /\ r.done = pend[own].done
  BY <1>1, <1>2, <1>7
<1>9. r = [Joined(own, dest) EXCEPT !.stop_pending = stop]
  BY <1>5, <1>6
<1> QED
  BY <1>7, <1>8, <1>9

LEMMA JoinedToStop ==
  ASSUME TypeOK, NEW k \in Caller, NEW dest \in CPU, NEW own \in Caller,
         own = IF migration_pending = None THEN k ELSE migration_pending,
         AffineMove(k, dest), OnCpu \/ run = "waking"
  PROVE  /\ \E r \in Request :
              /\ pend' = [pend EXCEPT ![own] = r]
              /\ r.refs = pend[own].refs + 1 /\ r.done = pend[own].done
              /\ r.dest = dest /\ r.stop_pending
         /\ UNCHANGED cpu
         /\ kick' = [kick EXCEPT ![k] = cpu]
         /\ use' = [use EXCEPT ![k] = own]
         /\ migration_pending' = own
         /\ pc' = [pc EXCEPT ![k] = IF pend[own].stop_pending THEN "wait" ELSE "kick"]
<1>1. pend \in [Caller -> Request] /\ run # "queued"
  BY DEF TypeOK, OnCpu
<1>2. PICK r \in Request : /\ r = [Joined(own, dest) EXCEPT !.stop_pending = TRUE]
                           /\ r.refs = pend[own].refs + 1 /\ r.done = pend[own].done
                           /\ r.dest = dest /\ r.stop_pending
  BY <1>1, RequestJoined
<1>3. Joined(own, dest).stop_pending = pend[own].stop_pending
  BY <1>1 DEF Joined, Request
<1>4. pend' = [pend EXCEPT ![own] = r]
  BY <1>2 DEF AffineMove
<1>5. /\ UNCHANGED cpu
      /\ kick' = [kick EXCEPT ![k] = cpu]
      /\ use' = [use EXCEPT ![k] = own]
      /\ migration_pending' = own
      /\ pc' = [pc EXCEPT ![k] = IF pend[own].stop_pending THEN "wait" ELSE "kick"]
  BY <1>1, <1>3 DEF AffineMove, Goes
<1> QED
  BY <1>2, <1>4, <1>5

LEMMA JoinedAsleep ==
  ASSUME TypeOK, NEW k \in Caller, NEW dest \in CPU, NEW own \in Caller,
         own = IF migration_pending = None THEN k ELSE migration_pending,
         AffineMove(k, dest), ~(OnCpu \/ run = "waking")
  PROVE  /\ \E r \in Request :
              /\ pend' = [pend EXCEPT ![own] = r]
              /\ r.refs = pend[own].refs + 1 /\ r.done = pend[own].done
              /\ r.dest = dest /\ r.stop_pending = pend[own].stop_pending
         /\ cpu' = IF run = "queued" /\ ~Pinned THEN dest ELSE cpu
         /\ UNCHANGED kick
         /\ use' = [use EXCEPT ![k] = own]
         /\ migration_pending' = IF ~Pinned /\ ~pend[own].stop_pending THEN None ELSE own
         /\ pc' = [pc EXCEPT ![k] = IF ~Pinned /\ ~pend[own].stop_pending
              THEN "complete" ELSE "wait"]
<1>1. pend \in [Caller -> Request] /\ pend[own].stop_pending \in BOOLEAN
  BY DEF TypeOK, Request
<1>2. PICK r \in Request :
        /\ r = [Joined(own, dest) EXCEPT !.stop_pending = pend[own].stop_pending]
        /\ r.refs = pend[own].refs + 1 /\ r.done = pend[own].done
        /\ r.dest = dest /\ r.stop_pending = pend[own].stop_pending
  BY <1>1, RequestJoined
<1>3. Joined(own, dest).stop_pending = pend[own].stop_pending
  BY <1>1 DEF Joined, Request
<1>4. pend' = [pend EXCEPT ![own] =
               [Joined(own, dest) EXCEPT !.stop_pending = @ \/ (OnCpu \/ run = "waking")]]
  BY DEF AffineMove
<1>5. (Joined(own, dest).stop_pending \/ (OnCpu \/ run = "waking")) = pend[own].stop_pending
  BY <1>1, <1>3
<1>6. pend' = [pend EXCEPT ![own] = r]
  BY <1>2, <1>4, <1>5
<1>7. /\ cpu' = IF run = "queued" /\ ~Pinned THEN dest ELSE cpu
      /\ UNCHANGED kick
      /\ use' = [use EXCEPT ![k] = own]
      /\ migration_pending' = IF ~Pinned /\ ~pend[own].stop_pending THEN None ELSE own
      /\ pc' = [pc EXCEPT ![k] = IF ~Pinned /\ ~pend[own].stop_pending THEN "complete"
           ELSE "wait"]
  BY <1>3 DEF AffineMove, Goes
<1> QED
  BY <1>2, <1>6, <1>7

LEMMA WaitersAreFinite ==
  ASSUME NEW j
  PROVE  IsFiniteSet(Waiters(j)) /\ Cardinality(Waiters(j)) \in Nat
<1>1. Waiters(j) \in SUBSET Caller
  BY DEF Waiters
<1> QED
  BY <1>1, CallersAssumption, FS_Subset, FS_CardinalityType

(* The stop work of a request is nowhere, or in the hands of the stopper   *)
(* of c only.                                                              *)
NoStopWorkBut(c) ==
  /\ \A j \in Caller : pc[j] # "kick"
  /\ enable.at # "kick"
  /\ \A d \in CPU, j \in Caller : InHand(d, j) => d = c
  /\ \A d \in CPU, n \in Nat, j \in Caller : ~InQueue(d, n, j)

LEMMA NoneUnderWay ==
  ASSUME TypeOK, StopInv, LiveInv, \A j \in Caller : ~Installed(j)
  PROVE  NoStopWorkBut(None)
<1>1. \A j \in Caller : use[j] \in Caller \cup {None} /\ (pc[j] = "kick" => use[j] # None)
  BY NoneAssumption DEF TypeOK, LiveInv
<1>2. migration_pending \in Caller \cup {None}
  BY DEF TypeOK
<1> QED
  BY <1>1, <1>2 DEF StopInv, NoStopWorkBut

LEMMA OneUnderWay ==
  ASSUME OneInv, NEW c \in CPU, NEW k \in Caller, InHand(c, k)
  PROVE  NoStopWorkBut(c)
BY DEF OneInv, NoStopWorkBut

(* What an invariant speaks of is left alone.                              *)
LEMMA WorksFrame ==
  ASSUME WorksOK, UNCHANGED <<works, stopper>>
  PROVE  WorksOK'
BY DEF WorksOK

LEMMA EnableFrame ==
  ASSUME EnableInv, UNCHANGED <<enable, run, migration_disabled, stopper, cpu, hp, works>>
  PROVE  EnableInv'
BY DEF EnableInv, Pinned, OnCpu

LEMMA PinFrame ==
  ASSUME PinInv, UNCHANGED <<lapsed, migration_disabled, enable, cpus_ptr, cpu, run,
           nr_pinned, hp>>
  PROVE  PinInv'
BY DEF PinInv, Pinned, OnCpu, AlwaysReset

LEMMA PushFrame ==
  ASSUME PushInv, UNCHANGED <<works, stopper, push_busy>>,
         enable'.at = "push" => enable.at = "push" /\ UNCHANGED cpu
  PROVE  PushInv'
BY DEF PushInv, PushQueued, PushAwaited, Lists

NoNewPush ==
  \A d \in CPU : enable.at = "push" /\ d = cpu =>
    /\ push_busy'[d] = push_busy[d]
    /\ stopper'[d].fn = "push_cpu_stop" => stopper[d].fn = "push_cpu_stop"
    /\ \A n \in Nat : Lists(d, n, "push_cpu_stop")' => Lists(d, n, "push_cpu_stop")

LEMMA AwaitedKept ==
  ASSUME PushAwaited, cpu \in CPU, NoNewPush,
         enable'.at = "push" => enable.at = "push" /\ UNCHANGED cpu
  PROVE  PushAwaited'
<1> SUFFICES ASSUME enable'.at = "push", NEW n \in Nat
             PROVE  /\ push_busy'[cpu'] /\ stopper'[cpu'].fn # "push_cpu_stop"
                    /\ ~Lists(cpu, n, "push_cpu_stop")'
  BY DEF PushAwaited
<1>1. PICK d \in CPU : d = cpu /\ d = cpu'
  OBVIOUS
<1>2. push_busy[d] /\ stopper[d].fn # "push_cpu_stop" /\ ~Lists(d, n, "push_cpu_stop")
  BY <1>1 DEF PushAwaited
<1>3. push_busy'[d] /\ stopper'[d].fn # "push_cpu_stop" /\ ~Lists(d, n, "push_cpu_stop")'
  BY <1>1, <1>2 DEF NoNewPush
<1> QED
  BY <1>1, <1>3 DEF Lists

LEMMA MaskFrame ==
  ASSUME MaskInv, UNCHANGED <<lapsed, cpu, cpus_mask, run, migration_disabled,
           migration_pending, pend>>
  PROVE  MaskInv'
BY DEF MaskInv, Pinned

LEMMA StopFrame ==
  ASSUME StopInv, UNCHANGED <<pend, migration_pending, pc, use, kick, enable, works, stopper>>
  PROVE  StopInv'
BY DEF StopInv, Installed, InQueue, InHand

LEMMA OneFrame ==
  ASSUME OneInv, UNCHANGED <<pc, enable, works, stopper>>
  PROVE  OneInv'
BY DEF OneInv, InQueue, InHand

LEMMA EndFrame ==
  ASSUME EndInv, UNCHANGED <<stopper, pc, use, pend, migration_pending>>,
         enable'.ends \in {None, enable.ends}
  PROVE  EndInv'
BY NoneAssumption DEF EndInv, EndOnce, EnableEndsOnce, StopperEnds, CallerEnds,
   EnableEnds, Waiting

LEMMA LiveFrame ==
  ASSUME LiveInv, UNCHANGED <<use, pc, migration_pending, pend>>
  PROVE  LiveInv'
BY DEF LiveInv

LEMMA RefFrame ==
  ASSUME RefInv, UNCHANGED <<pend, use, pc>>
  PROVE  RefInv'
BY DEF RefInv, Waiters

-----------------------------------------------------------------------------
(* The steps, one lemma for each way through an action: first what the step *)
(* changes, then each conjunct of the invariant.                           *)
LEMMA PreemptStep ==
  ASSUME AffinityInv, Preempt
  PROVE  AffinityInv'
<1>. USE NoneAssumption
<1>. USE DEF OnCpu
<1>1. /\ TypeOK /\ WorksOK /\ EnableInv /\ PinInv /\ PushInv /\ MaskInv
      /\ StopInv /\ OneInv /\ EndInv /\ LiveInv /\ RefInv
  BY DEF AffinityInv
<1>2. /\ OnCpu /\ enable.at = "out" /\ run' = "queued"
      /\ cpus_ptr' = IF Pinned /\ cpus_ptr = None THEN cpu ELSE cpus_ptr
      /\ UNCHANGED <<cpu, cpus_mask, migration_disabled, migration_pending, mdf_push,
                     enable, exec, nr_pinned, push_busy, pend, pc, use, kick, works,
                     stopper, hp, downs, lapsed>>
  BY DEF Preempt, SwitchOut, rqVars, callVars, stopVars, otherVars
<1>3. AlwaysReset' <=> AlwaysReset
  BY <1>2 DEF AlwaysReset
<1>4. Pinned' <=> Pinned
  BY <1>2 DEF Pinned
<1>5. TypeOK'
  BY <1>1, <1>2 DEF TypeOK
<1>6. WorksOK'
  BY <1>1, <1>2, WorksFrame
<1>7. EnableInv'
  BY <1>1, <1>2 DEF EnableInv
<1>8. PinInv'
  BY <1>1, <1>2, <1>3, <1>4 DEF PinInv
<1>9. PushInv'
  BY <1>1, <1>2, PushFrame
<1>10. MaskInv'
  BY <1>1, <1>2 DEF MaskInv
<1>11. StopInv'
  BY <1>1, <1>2, StopFrame
<1>12. OneInv'
  BY <1>1, <1>2, OneFrame
<1>13. EndInv'
  BY <1>1, <1>2, EndFrame
<1>14. LiveInv'
  BY <1>1, <1>2, LiveFrame
<1>15. RefInv'
  BY <1>1, <1>2, RefFrame
<1> QED
  BY <1>5, <1>6, <1>7, <1>8, <1>9, <1>10, <1>11, <1>12, <1>13, <1>14, <1>15
     DEF AffinityInv

LEMMA BlockStep ==
  ASSUME AffinityInv, Block
  PROVE  AffinityInv'
<1>. USE NoneAssumption
<1>. USE DEF OnCpu
<1>1. /\ TypeOK /\ WorksOK /\ EnableInv /\ PinInv /\ PushInv /\ MaskInv
      /\ StopInv /\ OneInv /\ EndInv /\ LiveInv /\ RefInv
  BY DEF AffinityInv
<1>2. /\ run = "running" /\ enable.at = "out" /\ run' = "blocked"
      /\ cpus_ptr' = IF Pinned /\ cpus_ptr = None THEN cpu ELSE cpus_ptr
      /\ UNCHANGED <<cpu, cpus_mask, migration_disabled, migration_pending, mdf_push,
                     enable, exec, nr_pinned, push_busy, pend, pc, use, kick, works,
                     stopper, hp, downs, lapsed>>
  BY DEF Block, SwitchOut, Executing, rqVars, callVars, stopVars, otherVars
<1>3. AlwaysReset' <=> AlwaysReset
  BY <1>2 DEF AlwaysReset
<1>4. Pinned' <=> Pinned
  BY <1>2 DEF Pinned
<1>5. TypeOK'
  BY <1>1, <1>2 DEF TypeOK
<1>6. WorksOK'
  BY <1>1, <1>2, WorksFrame
<1>7. EnableInv'
  BY <1>1, <1>2 DEF EnableInv
<1>8. PinInv'
  BY <1>1, <1>2, <1>3, <1>4 DEF PinInv
<1>9. PushInv'
  BY <1>1, <1>2, PushFrame
<1>10. MaskInv'
  BY <1>1, <1>2 DEF MaskInv
<1>11. StopInv'
  BY <1>1, <1>2, StopFrame
<1>12. OneInv'
  BY <1>1, <1>2, OneFrame
<1>13. EndInv'
  BY <1>1, <1>2, EndFrame
<1>14. LiveInv'
  BY <1>1, <1>2, LiveFrame
<1>15. RefInv'
  BY <1>1, <1>2, RefFrame
<1> QED
  BY <1>5, <1>6, <1>7, <1>8, <1>9, <1>10, <1>11, <1>12, <1>13, <1>14, <1>15
     DEF AffinityInv

LEMMA ResumeHere ==
  ASSUME AffinityInv, Resume, ~(cpu \in cpu_dying /\ ~Pinned)
  PROVE  AffinityInv'
<1>. USE NoneAssumption
<1>. USE DEF OnCpu
<1>1. /\ TypeOK /\ WorksOK /\ EnableInv /\ PinInv /\ PushInv /\ MaskInv
      /\ StopInv /\ OneInv /\ EndInv /\ LiveInv /\ RefInv
  BY DEF AffinityInv
<1>2. /\ run = "queued" /\ stopper[cpu] = Idle /\ run' = "running"
      /\ UNCHANGED <<cpu, cpus_mask, cpus_ptr, migration_disabled, migration_pending,
                     mdf_push, enable, exec, nr_pinned, push_busy, pend, pc, use,
                     kick, works, stopper, hp, downs, lapsed>>
  BY DEF Resume, rqVars, callVars, otherVars
<1>3. AlwaysReset' <=> AlwaysReset
  BY <1>2 DEF AlwaysReset
<1>4. Pinned' <=> Pinned
  BY <1>2 DEF Pinned
<1>5. TypeOK'
  BY <1>1, <1>2 DEF TypeOK
<1>6. WorksOK'
  BY <1>1, <1>2, WorksFrame
<1>7. EnableInv'
  BY <1>1, <1>2 DEF EnableInv
<1>8. PinInv'
  BY <1>1, <1>2, <1>3, <1>4 DEF PinInv
<1>9. PushInv'
  BY <1>1, <1>2, PushFrame
<1>10. MaskInv'
  BY <1>1, <1>2 DEF MaskInv
<1>11. StopInv'
  BY <1>1, <1>2, StopFrame
<1>12. OneInv'
  BY <1>1, <1>2, OneFrame
<1>13. EndInv'
  BY <1>1, <1>2, EndFrame
<1>14. LiveInv'
  BY <1>1, <1>2, LiveFrame
<1>15. RefInv'
  BY <1>1, <1>2, RefFrame
<1> QED
  BY <1>5, <1>6, <1>7, <1>8, <1>9, <1>10, <1>11, <1>12, <1>13, <1>14, <1>15
     DEF AffinityInv

LEMMA ResumeAway ==
  ASSUME AffinityInv, Resume, cpu \in cpu_dying, ~Pinned
  PROVE  AffinityInv'
<1>. USE NoneAssumption
<1>. USE DEF OnCpu
<1>1. /\ TypeOK /\ WorksOK /\ EnableInv /\ PinInv /\ PushInv /\ MaskInv
      /\ StopInv /\ OneInv /\ EndInv /\ LiveInv /\ RefInv
  BY DEF AffinityInv
<1>2. /\ run = "queued" /\ works[cpu] = <<>> /\ stopper[cpu] = Idle /\ run' = "leaving"
      /\ Stop(cpu, [NoWork EXCEPT !.fn = "balance_push"])
      /\ UNCHANGED <<cpu, cpus_mask, cpus_ptr, migration_disabled, migration_pending,
                     mdf_push, enable, exec, nr_pinned, push_busy, pend, pc, use,
                     kick, stopper, hp, downs, lapsed>>
  BY <1>1 DEF Resume, rqVars, callVars, otherVars
<1>3. /\ cpu \in CPU
      /\ migration_pending \in Caller \cup {None}
  BY <1>1 DEF TypeOK
<1>4. WorksGrow
  BY <1>1, <1>2, <1>3, BalanceAdds
<1>5. PICK place \in Nat : Adds(cpu, "balance_push", None, place)
  BY <1>1, <1>2, <1>3, BalanceAdds
<1>6. \A n, f : ~Lists(cpu, n, f)
  BY <1>1, <1>2 DEF Lists
<1>7. AlwaysReset' <=> AlwaysReset
  BY <1>1, <1>2 DEF AlwaysReset
<1>8. Pinned' <=> Pinned
  BY <1>1, <1>2 DEF Pinned
<1>9. HandsKept
  BY <1>1, <1>2, StoppersKept
<1>. USE DEF Adds, HandsKept
<1>10. TypeOK'
  BY <1>1, <1>2 DEF TypeOK
<1>11. WorksOK'
  <2>1. (works \in [CPU -> Seq(Work)])'
    BY <1>1, <1>2, <1>4 DEF WorksOK, WorksGrow
  <2>2. (stopper \in [CPU -> {Idle} \cup Work \cup Unlocked])'
    BY <1>1, <1>2 DEF WorksOK
  <2> QED
    BY <2>1, <2>2 DEF WorksOK
<1>12. EnableInv'
  BY <1>1, <1>2, <1>4, <1>8 DEF EnableInv, WorksGrow
<1>13. PinInv'
  BY <1>1, <1>2, <1>7, <1>8 DEF PinInv
<1>14. PushInv'
  <2>1. PushQueued'
    BY <1>1, <1>2, <1>5, <1>6 DEF PushInv, PushQueued
  <2>2. PushAwaited'
    BY <1>1, <1>2, <1>5, <1>6 DEF EnableInv, PushInv, PushAwaited
  <2> QED
    BY <2>1, <2>2 DEF PushInv, PushQueued, PushAwaited
<1>15. MaskInv'
  BY <1>1, <1>2 DEF MaskInv
<1>16. StopInv'
  BY <1>1, <1>2, <1>5, <1>9 DEF StopInv, Installed
<1>17. OneInv'
  BY <1>1, <1>2, <1>5, <1>9 DEF OneInv
<1>18. EndInv'
  BY <1>1, <1>2, EndFrame
<1>19. LiveInv'
  BY <1>1, <1>2, LiveFrame
<1>20. RefInv'
  BY <1>1, <1>2, RefFrame
<1> QED
  BY <1>10, <1>11, <1>12, <1>13, <1>14, <1>15, <1>16, <1>17, <1>18, <1>19, <1>20
     DEF AffinityInv

LEMMA WakeStep ==
  ASSUME AffinityInv, NEW c \in CPU, Wake(c)
  PROVE  AffinityInv'
<1>. USE NoneAssumption
<1>. USE DEF OnCpu
<1>1. /\ TypeOK /\ WorksOK /\ EnableInv /\ PinInv /\ PushInv /\ MaskInv
      /\ StopInv /\ OneInv /\ EndInv /\ LiveInv /\ RefInv
  BY DEF AffinityInv
<1>2. /\ run = "blocked" /\ Fallback(c) /\ cpu' = c
      /\ run' \in {"queued", "waking"} /\ run' # run
      /\ UNCHANGED <<cpus_ptr, migration_disabled, migration_pending, mdf_push,
                     enable, exec, nr_pinned, push_busy, pend, pc, use, kick, works,
                     stopper, hp, downs, lapsed>>
  BY <1>1 DEF Wake, rqVars, callVars, stopVars, otherVars
<1>3. Lands(c)
  BY <1>1, <1>2, FallbackLands
<1>4. AlwaysReset' <=> AlwaysReset
  BY <1>1, <1>2 DEF AlwaysReset
<1>5. Pinned' <=> Pinned
  BY <1>1, <1>2 DEF Pinned
<1>. USE DEF Lands
<1>6. TypeOK'
  BY <1>1, <1>2, <1>3 DEF TypeOK
<1>7. WorksOK'
  BY <1>1, <1>2, WorksFrame
<1>8. EnableInv'
  BY <1>1, <1>2 DEF EnableInv
<1>9. PinInv'
  BY <1>1, <1>2, <1>3, <1>4, <1>5 DEF PinInv
<1>10. PushInv'
  <2>1. enable'.at = "push" => enable.at = "push" /\ UNCHANGED cpu
    BY <1>1, <1>2 DEF EnableInv
  <2> QED
    BY <1>1, <1>2, <2>1, PushFrame
<1>11. MaskInv'
  BY <1>1, <1>2, <1>3 DEF MaskInv, AlwaysReset
<1>12. StopInv'
  BY <1>1, <1>2, StopFrame
<1>13. OneInv'
  BY <1>1, <1>2, OneFrame
<1>14. EndInv'
  BY <1>1, <1>2, EndFrame
<1>15. LiveInv'
  BY <1>1, <1>2, LiveFrame
<1>16. RefInv'
  BY <1>1, <1>2, RefFrame
<1> QED
  BY <1>6, <1>7, <1>8, <1>9, <1>10, <1>11, <1>12, <1>13, <1>14, <1>15, <1>16
     DEF AffinityInv

LEMMA TakeIpiStep ==
  ASSUME AffinityInv, TakeIpi
  PROVE  AffinityInv'
<1>. USE NoneAssumption
<1>. USE DEF OnCpu
<1>1. /\ TypeOK /\ WorksOK /\ EnableInv /\ PinInv /\ PushInv /\ MaskInv
      /\ StopInv /\ OneInv /\ EndInv /\ LiveInv /\ RefInv
  BY DEF AffinityInv
<1>2. /\ run = "waking" /\ run' = "queued"
      /\ UNCHANGED <<cpu, cpus_mask, cpus_ptr, migration_disabled, migration_pending,
                     mdf_push, enable, exec, nr_pinned, push_busy, pend, pc, use,
                     kick, works, stopper, hp, downs, lapsed>>
  BY <1>1 DEF TakeIpi, rqVars, callVars, stopVars, otherVars
<1>3. AlwaysReset' <=> AlwaysReset
  BY <1>1, <1>2 DEF AlwaysReset
<1>4. Pinned' <=> Pinned
  BY <1>1, <1>2 DEF Pinned
<1>5. TypeOK'
  BY <1>1, <1>2 DEF TypeOK
<1>6. WorksOK'
  BY <1>1, <1>2, WorksFrame
<1>7. EnableInv'
  BY <1>1, <1>2 DEF EnableInv
<1>8. PinInv'
  BY <1>1, <1>2, <1>3, <1>4 DEF PinInv
<1>9. PushInv'
  BY <1>1, <1>2, PushFrame
<1>10. MaskInv'
  BY <1>1, <1>2 DEF MaskInv
<1>11. StopInv'
  BY <1>1, <1>2, StopFrame
<1>12. OneInv'
  BY <1>1, <1>2, OneFrame
<1>13. EndInv'
  BY <1>1, <1>2, EndFrame
<1>14. LiveInv'
  BY <1>1, <1>2, LiveFrame
<1>15. RefInv'
  BY <1>1, <1>2, RefFrame
<1> QED
  BY <1>5, <1>6, <1>7, <1>8, <1>9, <1>10, <1>11, <1>12, <1>13, <1>14, <1>15
     DEF AffinityInv

LEMMA BalanceStep ==
  ASSUME AffinityInv, NEW c \in CPU, Balance(c)
  PROVE  AffinityInv'
<1>. USE NoneAssumption
<1>. USE DEF OnCpu
<1>1. /\ TypeOK /\ WorksOK /\ EnableInv /\ PinInv /\ PushInv /\ MaskInv
      /\ StopInv /\ OneInv /\ EndInv /\ LiveInv /\ RefInv
  BY DEF AffinityInv
<1>2. /\ run = "queued" /\ c \in Ptr /\ hp[c] = "up" /\ cpu' = c
      /\ UNCHANGED <<run, cpus_mask, cpus_ptr, migration_disabled, migration_pending,
                     mdf_push, enable, exec, nr_pinned, push_busy, pend, pc, use,
                     kick, works, stopper, hp, downs, lapsed>>
  BY <1>1 DEF Balance, cpu_active, rqVars, callVars, stopVars, otherVars
<1>3. /\ cpu \in CPU
      /\ migration_pending \in Caller \cup {None}
  BY <1>1 DEF TypeOK
<1>4. AlwaysReset => IF Pinned THEN c = cpu ELSE c \in cpus_mask
  BY <1>1, <1>2, <1>3 DEF PinInv, Ptr
<1>5. AlwaysReset' <=> AlwaysReset
  BY <1>1, <1>2 DEF AlwaysReset
<1>6. Pinned' <=> Pinned
  BY <1>1, <1>2 DEF Pinned
<1>7. TypeOK'
  BY <1>1, <1>2 DEF TypeOK
<1>8. WorksOK'
  BY <1>1, <1>2, WorksFrame
<1>9. EnableInv'
  BY <1>1, <1>2 DEF EnableInv
<1>10. PinInv'
  BY <1>1, <1>2, <1>4, <1>5, <1>6 DEF PinInv
<1>11. PushInv'
  <2>1. enable'.at = "push" => enable.at = "push" /\ UNCHANGED cpu
    BY <1>1, <1>2 DEF EnableInv
  <2> QED
    BY <1>1, <1>2, <2>1, PushFrame
<1>12. MaskInv'
  BY <1>1, <1>2, <1>4 DEF MaskInv, AlwaysReset
<1>13. StopInv'
  BY <1>1, <1>2, StopFrame
<1>14. OneInv'
  BY <1>1, <1>2, OneFrame
<1>15. EndInv'
  BY <1>1, <1>2, EndFrame
<1>16. LiveInv'
  BY <1>1, <1>2, LiveFrame
<1>17. RefInv'
  BY <1>1, <1>2, RefFrame
<1> QED
  BY <1>7, <1>8, <1>9, <1>10, <1>11, <1>12, <1>13, <1>14, <1>15, <1>16, <1>17
     DEF AffinityInv

LEMMA RtPushStep ==
  ASSUME AffinityInv, RtPush
  PROVE  AffinityInv'
<1>. USE NoneAssumption
<1>. USE DEF OnCpu
<1>1. /\ TypeOK /\ WorksOK /\ EnableInv /\ PinInv /\ PushInv /\ MaskInv
      /\ StopInv /\ OneInv /\ EndInv /\ LiveInv /\ RefInv
  BY DEF AffinityInv
<1>2. /\ run = "running" /\ ~push_busy[cpu]
      /\ push_busy' = [push_busy EXCEPT ![cpu] = TRUE]
      /\ Stop(cpu, [NoWork EXCEPT !.fn = "push_cpu_stop"])
      /\ UNCHANGED <<cpu, run, cpus_mask, cpus_ptr, migration_disabled,
                     migration_pending, mdf_push, enable, exec, nr_pinned, pend, pc,
                     use, kick, stopper, hp, downs, lapsed>>
  BY <1>1 DEF RtPush, Pushable, pVars, callVars, otherVars
<1>3. /\ cpu \in CPU
      /\ migration_pending \in Caller \cup {None}
      /\ push_busy \in [CPU -> BOOLEAN]
  BY <1>1 DEF TypeOK
<1>4. WorksGrow
  BY <1>1, <1>2, <1>3, PushAdds
<1>5. PICK place \in Nat : Adds(cpu, "push_cpu_stop", None, place)
  BY <1>1, <1>2, <1>3, PushAdds
<1>6. HandsKept
  BY <1>1, <1>2, StoppersKept
<1>. USE DEF Adds, HandsKept
<1>7. TypeOK'
  BY <1>1, <1>2 DEF TypeOK
<1>8. WorksOK'
  <2>1. (works \in [CPU -> Seq(Work)])'
    BY <1>1, <1>2, <1>4 DEF WorksOK, WorksGrow
  <2>2. (stopper \in [CPU -> {Idle} \cup Work \cup Unlocked])'
    BY <1>1, <1>2 DEF WorksOK
  <2> QED
    BY <2>1, <2>2 DEF WorksOK
<1>9. EnableInv'
  <2>1. (enable.at # "out" => run = "running" /\ migration_disabled = 1)'
    BY <1>1, <1>2 DEF EnableInv
  <2>2. (run = "leaving" => ~Pinned)'
    BY <1>1, <1>2 DEF EnableInv
  <2>3. (\A d \in CPU : stopper[d] # Idle /\ cpu = d => ~OnCpu)'
    BY <1>1, <1>2 DEF EnableInv
  <2>4. (\A d \in CPU : hp[d] = "dead" => works[d] = <<>> /\ stopper[d] = Idle)'
    BY <1>1, <1>2, <1>4 DEF EnableInv, WorksGrow
  <2>5. (enable.at = "complete" => enable.ends # None)'
    BY <1>1, <1>2 DEF EnableInv
  <2> QED
    BY <2>1, <2>2, <2>3, <2>4, <2>5 DEF EnableInv
<1>10. PinInv'
  BY <1>1, <1>2, PinFrame
<1>11. PushInv'
  BY <1>1, <1>2, <1>3, <1>5 DEF PushInv, PushQueued, PushAwaited
<1>12. MaskInv'
  BY <1>1, <1>2, MaskFrame
<1>13. StopInv'
  BY <1>1, <1>2, <1>5, <1>6 DEF StopInv, Installed
<1>14. OneInv'
  BY <1>1, <1>2, <1>5, <1>6 DEF OneInv
<1>15. EndInv'
  BY <1>1, <1>2, EndFrame
<1>16. LiveInv'
  BY <1>1, <1>2, LiveFrame
<1>17. RefInv'
  BY <1>1, <1>2, RefFrame
<1> QED
  BY <1>7, <1>8, <1>9, <1>10, <1>11, <1>12, <1>13, <1>14, <1>15, <1>16, <1>17
     DEF AffinityInv

LEMMA SchedExecStep ==
  ASSUME AffinityInv, NEW c \in CPU, sched_exec(c)
  PROVE  AffinityInv'
<1>. USE NoneAssumption
<1>. USE DEF OnCpu
<1>1. /\ TypeOK /\ WorksOK /\ EnableInv /\ PinInv /\ PushInv /\ MaskInv
      /\ StopInv /\ OneInv /\ EndInv /\ LiveInv /\ RefInv
  BY DEF AffinityInv
<1>2. /\ exec' = TRUE
      /\ Stop(cpu, [fn |-> "migration_cpu_stop", own |-> None, dest |-> c])
      /\ UNCHANGED <<cpu, run, cpus_mask, cpus_ptr, migration_disabled,
                     migration_pending, mdf_push, enable, nr_pinned, push_busy, pend,
                     pc, use, kick, stopper, hp, downs, lapsed>>
  BY <1>1 DEF sched_exec, rqVars, callVars, otherVars
<1>3. /\ cpu \in CPU
      /\ migration_pending \in Caller \cup {None}
  BY <1>1 DEF TypeOK
<1>4. WorksGrow
  BY <1>1, <1>2, <1>3, ExecAdds
<1>5. PICK place \in Nat : Adds(cpu, "migration_cpu_stop", None, place)
  BY <1>1, <1>2, <1>3, ExecAdds
<1>6. Pinned' <=> Pinned
  BY <1>1, <1>2 DEF Pinned
<1>7. HandsKept
  BY <1>1, <1>2, StoppersKept
<1>. USE DEF Adds, HandsKept
<1>8. TypeOK'
  BY <1>1, <1>2 DEF TypeOK
<1>9. WorksOK'
  <2>1. (works \in [CPU -> Seq(Work)])'
    BY <1>1, <1>2, <1>4 DEF WorksOK, WorksGrow
  <2>2. (stopper \in [CPU -> {Idle} \cup Work \cup Unlocked])'
    BY <1>1, <1>2 DEF WorksOK
  <2> QED
    BY <2>1, <2>2 DEF WorksOK
<1>10. EnableInv'
  BY <1>1, <1>2, <1>4, <1>6 DEF EnableInv, WorksGrow
<1>11. PinInv'
  BY <1>1, <1>2, PinFrame
<1>12. PushInv'
  <2>1. PushQueued'
    BY <1>1, <1>2, <1>5 DEF PushInv, PushQueued
  <2>2. PushAwaited'
    <3>1. enable'.at = "push" => enable.at = "push" /\ UNCHANGED cpu
      BY <1>1, <1>2 DEF EnableInv
    <3>2. NoNewPush
      BY <1>1, <1>2, <1>5 DEF NoNewPush, EnableInv, PushInv, PushAwaited
    <3> QED
      BY <1>1, <3>1, <3>2, AwaitedKept DEF PushInv, TypeOK
  <2> QED
    BY <2>1, <2>2 DEF PushInv, PushQueued, PushAwaited
<1>13. MaskInv'
  BY <1>1, <1>2, MaskFrame
<1>14. StopInv'
  BY <1>1, <1>2, <1>5, <1>7 DEF StopInv, Installed
<1>15. OneInv'
  BY <1>1, <1>2, <1>5, <1>7 DEF OneInv
<1>16. EndInv'
  BY <1>1, <1>2, EndFrame
<1>17. LiveInv'
  BY <1>1, <1>2, LiveFrame
<1>18. RefInv'
  BY <1>1, <1>2, RefFrame
<1> QED
  BY <1>8, <1>9, <1>10, <1>11, <1>12, <1>13, <1>14, <1>15, <1>16, <1>17, <1>18
     DEF AffinityInv

LEMMA DisableOuter ==
  ASSUME AffinityInv, migrate_disable, ~Pinned
  PROVE  AffinityInv'
<1>. USE NoneAssumption
<1>. USE DEF OnCpu
<1>1. /\ TypeOK /\ WorksOK /\ EnableInv /\ PinInv /\ PushInv /\ MaskInv
      /\ StopInv /\ OneInv /\ EndInv /\ LiveInv /\ RefInv
  BY DEF AffinityInv
<1>2. /\ run = "running" /\ enable.at = "out" /\ migration_disabled < MaxNest
      /\ migration_disabled' = migration_disabled + 1
      /\ nr_pinned' = [nr_pinned EXCEPT ![cpu] = @ + 1]
      /\ UNCHANGED <<cpu, run, cpus_mask, cpus_ptr, migration_pending, mdf_push,
                     enable, exec, push_busy, pend, pc, use, kick, works, stopper, hp,
                     downs, lapsed>>
  BY <1>1 DEF migrate_disable, InCode, Executing, callVars, stopVars, otherVars
<1>3. /\ cpu \in CPU
      /\ migration_disabled \in 0 .. MaxNest
      /\ migration_pending \in Caller \cup {None}
      /\ nr_pinned \in [CPU -> Int]
  BY <1>1 DEF TypeOK
<1>4. migration_disabled' \in 0 .. MaxNest /\ Pinned'
  <2>1. migration_disabled \in Nat /\ migration_disabled <= MaxNest
    BY <1>3
  <2>2. migration_disabled < MaxNest /\ migration_disabled' = migration_disabled + 1
    BY <1>1, <1>2
  <2> QED
    BY <2>1, <2>2, BoundsAssumption DEF Pinned
<1>5. nr_pinned' \in [CPU -> Int]
  BY <1>1, <1>2, <1>3
<1>6. AlwaysReset' <=> AlwaysReset
  BY <1>1, <1>2 DEF AlwaysReset
<1>7. TypeOK'
  BY <1>1, <1>2, <1>4, <1>5 DEF TypeOK
<1>8. WorksOK'
  BY <1>1, <1>2, WorksFrame
<1>9. EnableInv'
  BY <1>1, <1>2 DEF EnableInv
<1>10. PinInv'
  BY <1>1, <1>2, <1>3, <1>4, <1>6 DEF PinInv
<1>11. PushInv'
  BY <1>1, <1>2, PushFrame
<1>12. MaskInv'
  BY <1>1, <1>2 DEF MaskInv
<1>13. StopInv'
  BY <1>1, <1>2, StopFrame
<1>14. OneInv'
  BY <1>1, <1>2, OneFrame
<1>15. EndInv'
  BY <1>1, <1>2, EndFrame
<1>16. LiveInv'
  BY <1>1, <1>2, LiveFrame
<1>17. RefInv'
  BY <1>1, <1>2, RefFrame
<1> QED
  BY <1>7, <1>8, <1>9, <1>10, <1>11, <1>12, <1>13, <1>14, <1>15, <1>16, <1>17
     DEF AffinityInv

LEMMA DisableInner ==
  ASSUME AffinityInv, migrate_disable, Pinned
  PROVE  AffinityInv'
<1>. USE NoneAssumption
<1>. USE DEF OnCpu
<1>1. /\ TypeOK /\ WorksOK /\ EnableInv /\ PinInv /\ PushInv /\ MaskInv
      /\ StopInv /\ OneInv /\ EndInv /\ LiveInv /\ RefInv
  BY DEF AffinityInv
<1>2. /\ run = "running" /\ enable.at = "out" /\ migration_disabled < MaxNest
      /\ migration_disabled' = migration_disabled + 1
      /\ UNCHANGED <<cpu, run, cpus_mask, cpus_ptr, migration_pending, mdf_push,
                     enable, exec, nr_pinned, push_busy, pend, pc, use, kick, works,
                     stopper, hp, downs, lapsed>>
  BY <1>1 DEF migrate_disable, InCode, Executing, callVars, stopVars, otherVars
<1>3. /\ cpu \in CPU
      /\ migration_disabled \in 0 .. MaxNest
      /\ migration_pending \in Caller \cup {None}
  BY <1>1 DEF TypeOK
<1>4. migration_disabled' \in 0 .. MaxNest /\ Pinned'
  <2>1. migration_disabled \in Nat /\ migration_disabled <= MaxNest
    BY <1>3
  <2>2. migration_disabled < MaxNest /\ migration_disabled' = migration_disabled + 1
    BY <1>1, <1>2
  <2> QED
    BY <2>1, <2>2, BoundsAssumption DEF Pinned
<1>5. AlwaysReset' <=> AlwaysReset
  BY <1>1, <1>2 DEF AlwaysReset
<1>6. TypeOK'
  BY <1>1, <1>2, <1>4 DEF TypeOK
<1>7. WorksOK'
  BY <1>1, <1>2, WorksFrame
<1>8. EnableInv'
  BY <1>1, <1>2 DEF EnableInv
<1>9. PinInv'
  BY <1>1, <1>2, <1>4, <1>5 DEF PinInv
<1>10. PushInv'
  BY <1>1, <1>2, PushFrame
<1>11. MaskInv'
  BY <1>1, <1>2 DEF MaskInv
<1>12. StopInv'
  BY <1>1, <1>2, StopFrame
<1>13. OneInv'
  BY <1>1, <1>2, OneFrame
<1>14. EndInv'
  BY <1>1, <1>2, EndFrame
<1>15. LiveInv'
  BY <1>1, <1>2, LiveFrame
<1>16. RefInv'
  BY <1>1, <1>2, RefFrame
<1> QED
  BY <1>6, <1>7, <1>8, <1>9, <1>10, <1>11, <1>12, <1>13, <1>14, <1>15, <1>16
     DEF AffinityInv

LEMMA EnableInner ==
  ASSUME AffinityInv, EnableFast, migration_disabled > 1
  PROVE  AffinityInv'
<1>. USE NoneAssumption
<1>. USE DEF OnCpu
<1>1. /\ TypeOK /\ WorksOK /\ EnableInv /\ PinInv /\ PushInv /\ MaskInv
      /\ StopInv /\ OneInv /\ EndInv /\ LiveInv /\ RefInv
  BY DEF AffinityInv
<1>2. /\ run = "running" /\ enable.at = "out" /\ Pinned /\ migration_disabled > 1
      /\ migration_disabled' = migration_disabled - 1
      /\ UNCHANGED <<cpu, run, cpus_mask, cpus_ptr, migration_pending, mdf_push,
                     enable, exec, nr_pinned, push_busy, pend, pc, use, kick, works,
                     stopper, hp, downs, lapsed>>
  BY <1>1 DEF EnableFast, InCode, Executing, callVars, stopVars, otherVars
<1>3. /\ cpu \in CPU
      /\ migration_disabled \in 0 .. MaxNest
      /\ migration_pending \in Caller \cup {None}
  BY <1>1 DEF TypeOK
<1>4. migration_disabled' \in 0 .. MaxNest /\ Pinned'
  <2>1. migration_disabled \in Nat /\ migration_disabled <= MaxNest
    BY <1>3
  <2>2. migration_disabled > 1 /\ migration_disabled' = migration_disabled - 1
    BY <1>1, <1>2
  <2> QED
    BY <2>1, <2>2, BoundsAssumption DEF Pinned
<1>5. AlwaysReset' <=> AlwaysReset
  BY <1>1, <1>2 DEF AlwaysReset
<1>6. TypeOK'
  BY <1>1, <1>2, <1>4 DEF TypeOK
<1>7. WorksOK'
  BY <1>1, <1>2, WorksFrame
<1>8. EnableInv'
  BY <1>1, <1>2 DEF EnableInv
<1>9. PinInv'
  BY <1>1, <1>2, <1>4, <1>5 DEF PinInv
<1>10. PushInv'
  BY <1>1, <1>2, PushFrame
<1>11. MaskInv'
  BY <1>1, <1>2 DEF MaskInv
<1>12. StopInv'
  BY <1>1, <1>2, StopFrame
<1>13. OneInv'
  BY <1>1, <1>2, OneFrame
<1>14. EndInv'
  BY <1>1, <1>2, EndFrame
<1>15. LiveInv'
  BY <1>1, <1>2, LiveFrame
<1>16. RefInv'
  BY <1>1, <1>2, RefFrame
<1> QED
  BY <1>6, <1>7, <1>8, <1>9, <1>10, <1>11, <1>12, <1>13, <1>14, <1>15, <1>16
     DEF AffinityInv

LEMMA EnableOuter ==
  ASSUME AffinityInv, EnableFast, ~(migration_disabled > 1)
  PROVE  AffinityInv'
<1>. USE NoneAssumption
<1>. USE DEF OnCpu
<1>1. /\ TypeOK /\ WorksOK /\ EnableInv /\ PinInv /\ PushInv /\ MaskInv
      /\ StopInv /\ OneInv /\ EndInv /\ LiveInv /\ RefInv
  BY DEF AffinityInv
<1>2. /\ run = "running" /\ enable.at = "out" /\ Pinned /\ cpus_ptr = None
      /\ ~(migration_disabled > 1) /\ migration_disabled' = migration_disabled - 1
      /\ nr_pinned' = [nr_pinned EXCEPT ![cpu] = @ - 1]
      /\ UNCHANGED <<cpu, run, cpus_mask, cpus_ptr, migration_pending, mdf_push,
                     enable, exec, push_busy, pend, pc, use, kick, works, stopper, hp,
                     downs, lapsed>>
  BY <1>1 DEF EnableFast, InCode, Executing, Unpinned, callVars, stopVars, otherVars
<1>3. /\ cpu \in CPU
      /\ migration_disabled \in 0 .. MaxNest
      /\ migration_pending \in Caller \cup {None}
      /\ nr_pinned \in [CPU -> Int]
  BY <1>1 DEF TypeOK
<1>4. migration_disabled' \in 0 .. MaxNest /\ ~Pinned'
  <2>1. migration_disabled \in Nat /\ migration_disabled <= MaxNest
    BY <1>3
  <2>2. migration_disabled > 0 /\ ~(migration_disabled > 1)
          /\ migration_disabled' = migration_disabled - 1
    BY <1>1, <1>2 DEF Pinned
  <2> QED
    BY <2>1, <2>2, BoundsAssumption DEF Pinned
<1>5. nr_pinned' \in [CPU -> Int]
  BY <1>1, <1>2, <1>3
<1>6. AlwaysReset' <=> AlwaysReset
  BY <1>1, <1>2 DEF AlwaysReset
<1>7. TypeOK'
  BY <1>1, <1>2, <1>4, <1>5 DEF TypeOK
<1>8. WorksOK'
  BY <1>1, <1>2, WorksFrame
<1>9. EnableInv'
  BY <1>1, <1>2 DEF EnableInv
<1>10. PinInv'
  BY <1>1, <1>2, <1>3, <1>4, <1>6 DEF PinInv
<1>11. PushInv'
  BY <1>1, <1>2, PushFrame
<1>12. MaskInv'
  BY <1>1, <1>2 DEF MaskInv
<1>13. StopInv'
  BY <1>1, <1>2, StopFrame
<1>14. OneInv'
  BY <1>1, <1>2, OneFrame
<1>15. EndInv'
  BY <1>1, <1>2, EndFrame
<1>16. LiveInv'
  BY <1>1, <1>2, LiveFrame
<1>17. RefInv'
  BY <1>1, <1>2, RefFrame
<1> QED
  BY <1>7, <1>8, <1>9, <1>10, <1>11, <1>12, <1>13, <1>14, <1>15, <1>16, <1>17
     DEF AffinityInv

LEMMA EnableNotReset ==
  ASSUME AffinityInv, EnableSlow, cpus_mask \cap cpu_online = {}
  PROVE  AffinityInv'
<1>. USE NoneAssumption
<1>. USE DEF OnCpu, Enabling, Rest
<1>1. /\ TypeOK /\ WorksOK /\ EnableInv /\ PinInv /\ PushInv /\ MaskInv
      /\ StopInv /\ OneInv /\ EndInv /\ LiveInv /\ RefInv
  BY DEF AffinityInv
<1>2. /\ run = "running" /\ enable.at = "out" /\ migration_disabled = 1
      /\ enable' = Enabling("clear", None)
      /\ UNCHANGED <<cpu, run, cpus_mask, cpus_ptr, migration_disabled,
                     migration_pending, mdf_push, exec, nr_pinned, push_busy, pend,
                     pc, use, kick, works, stopper, hp, downs>>
  BY DEF EnableSlow, InCode, Executing, callVars, stopVars
<1>3. ~AlwaysReset' /\ lapsed' # {}
  BY DEF EnableSlow, AlwaysReset
<1>4. lapsed' \subseteq {"not reset", "pinned", "waking", "not moved"}
  BY <1>1 DEF EnableSlow, TypeOK
<1>5. QueuesKept
  BY <1>2, WorksKept
<1>6. HandsKept
  BY <1>2, StoppersKept
<1>. USE DEF QueuesKept, HandsKept
<1>7. TypeOK'
  BY <1>1, <1>2, <1>4 DEF TypeOK
<1>8. WorksOK'
  BY <1>1, <1>2, WorksFrame
<1>9. EnableInv'
  BY <1>1, <1>2 DEF EnableInv
<1>10. PinInv'
  BY <1>3 DEF PinInv
<1>11. PushInv'
  BY <1>1, <1>2, PushFrame
<1>12. MaskInv'
  BY <1>3 DEF MaskInv
<1>13. StopInv'
  BY <1>1, <1>2, <1>5, <1>6 DEF StopInv, Installed
<1>14. OneInv'
  <2>1. (\A i, j \in Caller : pc[i] = "kick" /\ pc[j] = "kick" => i = j)'
    BY <1>1, <1>2 DEF OneInv
  <2>2. (\A j \in Caller : pc[j] = "kick" => enable.at # "kick")'
    BY <1>2
  <2>3. (\A i, j \in Caller, d \in CPU : pc[i] = "kick" => ~InHand(d, j))'
    BY <1>1, <1>2, <1>6 DEF OneInv
  <2>4. (\A i, j \in Caller, d \in CPU, n \in Nat : pc[i] = "kick" => ~InQueue(d, n, j))'
    BY <1>1, <1>2, <1>5 DEF OneInv
  <2>5. (\A j \in Caller, d \in CPU : enable.at = "kick" => ~InHand(d, j))'
    BY <1>2
  <2>6. (\A j \in Caller, d \in CPU, n \in Nat : enable.at = "kick" => ~InQueue(d, n, j))'
    BY <1>2
  <2>7. (\A i, j \in Caller, d, e \in CPU : InHand(d, i) /\ InHand(e, j) => d = e)'
    BY <1>1, <1>6 DEF OneInv
  <2>8. (\A i, j \in Caller, d, e \in CPU, n \in Nat : InHand(d, i) => ~InQueue(e, n, j))'
    BY <1>1, <1>5, <1>6 DEF OneInv
  <2>9. (\A i, j \in Caller, d, e \in CPU, m, n \in Nat :
        InQueue(d, m, i) /\ InQueue(e, n, j) => d = e /\ m = n)'
    BY <1>1, <1>5 DEF OneInv
  <2> QED
    BY <2>1, <2>2, <2>3, <2>4, <2>5, <2>6, <2>7, <2>8, <2>9 DEF OneInv
<1>15. EndInv'
  BY <1>1, <1>2, EndFrame
<1>16. LiveInv'
  BY <1>1, <1>2, LiveFrame
<1>17. RefInv'
  BY <1>1, <1>2, RefFrame
<1> QED
  BY <1>7, <1>8, <1>9, <1>10, <1>11, <1>12, <1>13, <1>14, <1>15, <1>16, <1>17
     DEF AffinityInv

LEMMA EnableStayDone ==
  ASSUME AffinityInv, EnableSlow, cpus_mask \cap cpu_online # {}, cpu \in cpus_mask,
         Completes
  PROVE  AffinityInv'
<1>. USE NoneAssumption
<1>. USE DEF OnCpu, Enabling, Rest
<1>1. /\ TypeOK /\ WorksOK /\ EnableInv /\ PinInv /\ PushInv /\ MaskInv
      /\ StopInv /\ OneInv /\ EndInv /\ LiveInv /\ RefInv
  BY DEF AffinityInv
<1>2. /\ run = "running" /\ enable.at = "out" /\ migration_disabled = 1
      /\ cpus_ptr' = None
      /\ enable' = Enabling(IF mdf_push /\ ~push_busy[cpu] THEN "push" ELSE "complete", migration_pending)
      /\ migration_pending \in Caller /\ ~pend[migration_pending].stop_pending
      /\ migration_pending' = None
      /\ push_busy' = [push_busy EXCEPT ![cpu] = @ \/ (mdf_push /\ ~push_busy[cpu])]
      /\ UNCHANGED <<cpu, run, cpus_mask, migration_disabled, mdf_push, exec, pend,
                     nr_pinned, pc, use, kick, works, stopper, hp, downs, lapsed>>
  BY <1>1 DEF EnableSlow, EnableStay, EnableMove, InCode, Executing, Completes,
     callVars, stopVars, TypeOK
<1>3. /\ cpu \in CPU
      /\ migration_pending \in Caller \cup {None}
      /\ push_busy \in [CPU -> BOOLEAN]
  BY <1>1 DEF TypeOK
<1>4. QueuesKept
  BY <1>1, <1>2, WorksKept
<1>5. HandsKept
  BY <1>1, <1>2, StoppersKept
<1>6. NoStopWorkBut(None)
  BY <1>1, <1>2, NoneUnderWay DEF StopInv, Installed
<1>7. AlwaysReset' <=> AlwaysReset
  BY <1>1, <1>2 DEF AlwaysReset
<1>8. Pinned' <=> Pinned
  BY <1>1, <1>2 DEF Pinned
<1>. USE DEF QueuesKept, HandsKept, NoStopWorkBut
<1>9. TypeOK'
  BY <1>1, <1>2, <1>3 DEF TypeOK
<1>10. WorksOK'
  BY <1>1, <1>2, WorksFrame
<1>11. EnableInv'
  BY <1>1, <1>2 DEF EnableInv
<1>12. PinInv'
  BY <1>1, <1>2, <1>7, <1>8 DEF PinInv
<1>13. PushInv'
  <2>1. (\A d \in CPU, n \in Nat : Lists(d, n, "push_cpu_stop") => push_busy[d])'
    BY <1>1, <1>2, <1>3, <1>4 DEF PushInv, PushQueued, PushAwaited
  <2>2. (\A d \in CPU : stopper[d].fn = "push_cpu_stop" => push_busy[d])'
    BY <1>1, <1>2, <1>3 DEF PushInv, PushQueued, PushAwaited
  <2>3. (\A d \in CPU, n \in Nat : Lists(d, n, "push_cpu_stop")
           => stopper[d].fn # "push_cpu_stop")'
    BY <1>1, <1>2, <1>4 DEF PushInv, PushQueued, PushAwaited
  <2>4. (\A d \in CPU, f \in {"push_cpu_stop", "balance_push"}, m, n \in Nat :
        Lists(d, m, f) /\ Lists(d, n, f) => m = n)'
    BY <1>1, <1>2, <1>4 DEF PushInv, PushQueued, PushAwaited
  <2>5. PushAwaited'
    BY <1>1, <1>2, <1>3, <1>4 DEF PushInv, PushQueued, PushAwaited
  <2> QED
    BY <2>1, <2>2, <2>3, <2>4, <2>5 DEF PushInv, PushQueued, PushAwaited
<1>14. MaskInv'
  BY <1>1, <1>2, <1>8 DEF MaskInv
<1>15. StopInv'
  BY <1>1, <1>2, <1>4, <1>5, <1>6 DEF StopInv, Installed
<1>16. OneInv'
  BY <1>1, <1>2, <1>4, <1>5 DEF OneInv
<1>17. EndInv'
  <2>1. \A j \in Caller : Waiting(j) => Waiting(j)'
    BY <1>2 DEF Waiting
  <2>2. \A j \in Caller : j = migration_pending => Waiting(j)' /\ pc'[j] = "wait"
    BY <1>1, <1>2 DEF Waiting, LiveInv, StopInv, Installed
  <2>3. \A j \in Caller :
          /\ \A d \in CPU : StopperEnds(d, j) => j # migration_pending
          /\ \A i \in Caller : CallerEnds(i, j) => j # migration_pending
    BY <1>1, <1>2 DEF EndInv, EndOnce, Waiting
  <2>4. \A j \in Caller :
          /\ EnableEnds(j)' => j = migration_pending
          /\ \A d \in CPU : StopperEnds(d, j)' <=> StopperEnds(d, j)
          /\ \A i \in Caller : CallerEnds(i, j)' <=> CallerEnds(i, j)
    BY <1>2, <1>5 DEF CallerEnds, EnableEnds
  <2>5. EndOnce' /\ EnableEndsOnce'
    <3> HIDE DEF HandsKept, QueuesKept, NoStopWorkBut, Enabling
    <3>1. EndOnce /\ pc' = pc
      BY <1>1, <1>2 DEF EndInv
    <3>2. EndOnce'
      BY <3>1, <2>1, <2>4 DEF EndOnce
    <3>3. EnableEndsOnce'
      BY <2>2, <2>3, <2>4 DEF EnableEndsOnce
    <3> QED
      BY <3>2, <3>3
  <2> QED
    BY <2>5 DEF EndInv
<1>18. LiveInv'
  BY <1>1, <1>2 DEF LiveInv
<1>19. RefInv'
  BY <1>1, <1>2, RefFrame
<1> QED
  BY <1>9, <1>10, <1>11, <1>12, <1>13, <1>14, <1>15, <1>16, <1>17, <1>18, <1>19
     DEF AffinityInv

LEMMA EnableStayOn ==
  ASSUME AffinityInv, EnableSlow, cpus_mask \cap cpu_online # {}, cpu \in cpus_mask,
         ~Completes
  PROVE  AffinityInv'
<1>. USE NoneAssumption
<1>. USE DEF OnCpu, Enabling, Rest
<1>1. /\ TypeOK /\ WorksOK /\ EnableInv /\ PinInv /\ PushInv /\ MaskInv
      /\ StopInv /\ OneInv /\ EndInv /\ LiveInv /\ RefInv
  BY DEF AffinityInv
<1>2. /\ run = "running" /\ enable.at = "out" /\ migration_disabled = 1
      /\ cpus_ptr' = None
      /\ enable' = Enabling(IF mdf_push /\ ~push_busy[cpu] THEN "push" ELSE "clear", None)
      /\ migration_pending' = migration_pending
      /\ push_busy' = [push_busy EXCEPT ![cpu] = @ \/ (mdf_push /\ ~push_busy[cpu])]
      /\ UNCHANGED <<cpu, run, cpus_mask, migration_disabled, mdf_push, exec, pend,
                     nr_pinned, pc, use, kick, works, stopper, hp, downs, lapsed>>
  BY <1>1 DEF EnableSlow, EnableStay, EnableMove, InCode, Executing, Completes,
     callVars, stopVars, TypeOK
<1>3. /\ cpu \in CPU
      /\ migration_pending \in Caller \cup {None}
      /\ push_busy \in [CPU -> BOOLEAN]
  BY <1>1 DEF TypeOK
<1>4. QueuesKept
  BY <1>1, <1>2, WorksKept
<1>5. HandsKept
  BY <1>1, <1>2, StoppersKept
<1>6. migration_pending \in Caller => pend[migration_pending].stop_pending
  BY <1>1, <1>3 DEF Completes
<1>7. AlwaysReset' <=> AlwaysReset
  BY <1>1, <1>2 DEF AlwaysReset
<1>8. Pinned' <=> Pinned
  BY <1>1, <1>2 DEF Pinned
<1>. USE DEF QueuesKept, HandsKept, NoStopWorkBut
<1>9. TypeOK'
  BY <1>1, <1>2, <1>3 DEF TypeOK
<1>10. WorksOK'
  BY <1>1, <1>2, WorksFrame
<1>11. EnableInv'
  BY <1>1, <1>2 DEF EnableInv
<1>12. PinInv'
  BY <1>1, <1>2, <1>7, <1>8 DEF PinInv
<1>13. PushInv'
  <2>1. (\A d \in CPU, n \in Nat : Lists(d, n, "push_cpu_stop") => push_busy[d])'
    BY <1>1, <1>2, <1>3, <1>4 DEF PushInv, PushQueued, PushAwaited
  <2>2. (\A d \in CPU : stopper[d].fn = "push_cpu_stop" => push_busy[d])'
    BY <1>1, <1>2, <1>3 DEF PushInv, PushQueued, PushAwaited
  <2>3. (\A d \in CPU, n \in Nat : Lists(d, n, "push_cpu_stop")
           => stopper[d].fn # "push_cpu_stop")'
    BY <1>1, <1>2, <1>4 DEF PushInv, PushQueued, PushAwaited
  <2>4. (\A d \in CPU, f \in {"push_cpu_stop", "balance_push"}, m, n \in Nat :
        Lists(d, m, f) /\ Lists(d, n, f) => m = n)'
    BY <1>1, <1>2, <1>4 DEF PushInv, PushQueued, PushAwaited
  <2>5. PushAwaited'
    BY <1>1, <1>2, <1>3, <1>4 DEF PushInv, PushQueued, PushAwaited
  <2> QED
    BY <2>1, <2>2, <2>3, <2>4, <2>5 DEF PushInv, PushQueued, PushAwaited
<1>14. MaskInv'
  BY <1>1, <1>2, <1>8 DEF MaskInv
<1>15. StopInv'
  BY <1>1, <1>2, <1>4, <1>5, <1>6 DEF StopInv, Installed
<1>16. OneInv'
  BY <1>1, <1>2, <1>4, <1>5 DEF OneInv
<1>17. EndInv'
  BY <1>1, <1>2, EndFrame
<1>18. LiveInv'
  BY <1>1, <1>2, LiveFrame
<1>19. RefInv'
  BY <1>1, <1>2, RefFrame
<1> QED
  BY <1>9, <1>10, <1>11, <1>12, <1>13, <1>14, <1>15, <1>16, <1>17, <1>18, <1>19
     DEF AffinityInv

LEMMA EnableNoRequest ==
  ASSUME AffinityInv, EnableSlow, cpus_mask \cap cpu_online # {}, cpu \notin cpus_mask,
         migration_pending = None
  PROVE  AffinityInv'
<1>. USE NoneAssumption
<1>. USE DEF OnCpu, Enabling, Rest
<1>1. /\ TypeOK /\ WorksOK /\ EnableInv /\ PinInv /\ PushInv /\ MaskInv
      /\ StopInv /\ OneInv /\ EndInv /\ LiveInv /\ RefInv
  BY DEF AffinityInv
<1>2. /\ run = "running" /\ enable.at = "out" /\ migration_disabled = 1
      /\ cpus_ptr' = None /\ enable' = Enabling("clear", None)
      /\ migration_pending = None /\ cpu \notin cpus_mask
      /\ UNCHANGED <<cpu, run, cpus_mask, migration_disabled, migration_pending,
                     mdf_push, exec, nr_pinned, push_busy, pend, pc, use, kick, works,
                     stopper, hp, downs, lapsed>>
  BY <1>1 DEF EnableSlow, EnableStay, EnableMove, InCode, Executing, callVars, stopVars
<1>3. AlwaysReset' <=> AlwaysReset
  BY <1>1, <1>2 DEF AlwaysReset
<1>4. Pinned' <=> Pinned
  BY <1>1, <1>2 DEF Pinned
<1>5. QueuesKept
  BY <1>1, <1>2, WorksKept
<1>6. HandsKept
  BY <1>1, <1>2, StoppersKept
<1>. USE DEF QueuesKept, HandsKept
<1>7. TypeOK'
  BY <1>1, <1>2 DEF TypeOK
<1>8. WorksOK'
  BY <1>1, <1>2, WorksFrame
<1>9. EnableInv'
  BY <1>1, <1>2 DEF EnableInv
<1>10. PinInv'
  BY <1>1, <1>2, <1>3, <1>4 DEF PinInv
<1>11. PushInv'
  BY <1>1, <1>2, PushFrame
<1>12. MaskInv'
  BY <1>1, <1>2, MaskFrame
<1>13. StopInv'
  BY <1>1, <1>2, <1>5, <1>6 DEF StopInv, Installed
<1>14. OneInv'
  BY <1>1, <1>2, <1>5, <1>6 DEF OneInv
<1>15. EndInv'
  BY <1>1, <1>2, EndFrame
<1>16. LiveInv'
  BY <1>1, <1>2, LiveFrame
<1>17. RefInv'
  BY <1>1, <1>2, RefFrame
<1> QED
  BY <1>7, <1>8, <1>9, <1>10, <1>11, <1>12, <1>13, <1>14, <1>15, <1>16, <1>17
     DEF AffinityInv

LEMMA EnableRequest ==
  ASSUME AffinityInv, EnableSlow, cpus_mask \cap cpu_online # {}, cpu \notin cpus_mask,
         migration_pending # None
  PROVE  AffinityInv'
<1>. USE NoneAssumption
<1>. USE DEF OnCpu, Enabling, Rest
<1>1. /\ TypeOK /\ WorksOK /\ EnableInv /\ PinInv /\ PushInv /\ MaskInv
      /\ StopInv /\ OneInv /\ EndInv /\ LiveInv /\ RefInv
  BY DEF AffinityInv
<1>2. /\ run = "running" /\ enable.at = "out" /\ migration_disabled = 1
      /\ cpus_ptr' = None /\ mdf_push' = FALSE
      /\ migration_pending \in Caller
      /\ enable' =
           Enabling(IF pend[migration_pending].stop_pending THEN "clear" ELSE "kick", None)
      /\ pend' = [pend EXCEPT ![migration_pending].stop_pending = TRUE]
      /\ UNCHANGED <<cpu, run, cpus_mask, migration_disabled, migration_pending,
                     exec, nr_pinned, push_busy, pc, use, kick, works, stopper, hp,
                     downs, lapsed>>
  BY <1>1 DEF EnableSlow, EnableStay, EnableMove, InCode, Executing, callVars, stopVars,
     TypeOK
<1>3. /\ cpu \in CPU
      /\ migration_pending \in Caller \cup {None}
      /\ pend \in [Caller -> Request]
  BY <1>1 DEF TypeOK
<1>4. ~pend[migration_pending].stop_pending =>
         NoStopWorkBut(None)
  BY <1>1, <1>2, NoneUnderWay DEF StopInv, Installed
<1>5. AlwaysReset' <=> AlwaysReset
  BY <1>1, <1>2 DEF AlwaysReset
<1>6. Pinned' <=> Pinned
  BY <1>1, <1>2 DEF Pinned
<1>7. QueuesKept
  BY <1>1, <1>2, WorksKept
<1>8. HandsKept
  BY <1>1, <1>2, StoppersKept
<1>9. pend' \in [Caller -> Request]
  BY <1>2, <1>3 DEF Request
<1>. USE DEF QueuesKept, HandsKept, NoStopWorkBut
<1>10. TypeOK'
  BY <1>1, <1>2, <1>9 DEF TypeOK
<1>11. WorksOK'
  BY <1>1, <1>2, WorksFrame
<1>12. EnableInv'
  BY <1>1, <1>2 DEF EnableInv
<1>13. PinInv'
  BY <1>1, <1>2, <1>5, <1>6 DEF PinInv
<1>14. PushInv'
  BY <1>1, <1>2, PushFrame
<1>15. MaskInv'
  BY <1>1, <1>2 DEF MaskInv
<1>16. StopInv'
  BY <1>1, <1>2, <1>7, <1>8, <1>9 DEF StopInv, Installed
<1>17. OneInv'
  BY <1>1, <1>2, <1>4, <1>7, <1>8 DEF OneInv
<1>18. EndInv'
  BY <1>1, <1>2, <1>8 DEF EndInv, EndOnce, EnableEndsOnce, CallerEnds, EnableEnds, Waiting
<1>19. LiveInv'
  BY <1>1, <1>2 DEF LiveInv
<1>20. RefInv'
  <2>1. \A j \in Caller : Waiters(j)' = Waiters(j)
    BY <1>1, <1>2 DEF Waiters
  <2>2. \A j \in Caller : pend'[j].refs = pend[j].refs
    BY <1>1, <1>2
  <2> QED
    BY <1>1, <2>1, <2>2 DEF RefInv
<1> QED
  BY <1>10, <1>11, <1>12, <1>13, <1>14, <1>15, <1>16, <1>17, <1>18, <1>19, <1>20
     DEF AffinityInv

LEMMA EnablePushStep ==
  ASSUME AffinityInv, EnablePush
  PROVE  AffinityInv'
<1>. USE NoneAssumption
<1>. USE DEF OnCpu, Enabling, Rest
<1>1. /\ TypeOK /\ WorksOK /\ EnableInv /\ PinInv /\ PushInv /\ MaskInv
      /\ StopInv /\ OneInv /\ EndInv /\ LiveInv /\ RefInv
  BY DEF AffinityInv
<1>2. /\ enable.at = "push"
      /\ enable' = [enable EXCEPT !.at = IF enable.ends = None THEN "clear" ELSE "complete"]
      /\ Stop(cpu, [NoWork EXCEPT !.fn = "push_cpu_stop"])
      /\ UNCHANGED <<cpu, run, cpus_mask, cpus_ptr, migration_disabled,
                     migration_pending, mdf_push, exec, nr_pinned, push_busy, pend,
                     pc, use, kick, stopper, hp, downs, lapsed>>
  BY <1>1 DEF EnablePush, rqVars, callVars, otherVars
<1>3. /\ cpu \in CPU
      /\ push_busy \in [CPU -> BOOLEAN]
      /\ enable' \in [at : {"clear", "complete"}, ends : Caller \cup {None}]
      /\ enable'.at # "push" /\ enable'.at # "kick" /\ enable'.at # "out"
      /\ enable'.ends = enable.ends
      /\ enable'.at = "complete" => enable.ends # None
  BY <1>1, <1>2 DEF TypeOK
<1>4. WorksGrow
  BY <1>1, <1>2, <1>3, PushAdds DEF WorksGrow, WorksOK
<1>5. PICK place \in Nat : Adds(cpu, "push_cpu_stop", None, place)
  BY <1>1, <1>2, <1>3, PushAdds
<1>6. AlwaysReset' <=> AlwaysReset
  BY <1>1, <1>2 DEF AlwaysReset
<1>7. Pinned' <=> Pinned
  BY <1>1, <1>2 DEF Pinned
<1>8. HandsKept
  BY <1>1, <1>2, StoppersKept
<1>. USE DEF Adds, HandsKept
<1>9. TypeOK'
  BY <1>1, <1>2, <1>3 DEF TypeOK
<1>10. WorksOK'
  <2>1. (works \in [CPU -> Seq(Work)])'
    BY <1>1, <1>2, <1>4 DEF WorksOK, WorksGrow
  <2>2. (stopper \in [CPU -> {Idle} \cup Work \cup Unlocked])'
    BY <1>1, <1>2 DEF WorksOK
  <2> QED
    BY <2>1, <2>2 DEF WorksOK
<1>11. EnableInv'
  BY <1>1, <1>2, <1>3, <1>4 DEF EnableInv, WorksGrow
<1>12. PinInv'
  BY <1>1, <1>2, <1>3, <1>6, <1>7 DEF PinInv
<1>13. PushInv'
  <2>1. (\A d \in CPU, n \in Nat : Lists(d, n, "push_cpu_stop") => push_busy[d])'
    BY <1>1, <1>2, <1>3, <1>5 DEF PushInv, PushQueued, PushAwaited
  <2>2. (\A d \in CPU : stopper[d].fn = "push_cpu_stop" => push_busy[d])'
    BY <1>1, <1>2, <1>3 DEF PushInv, PushQueued, PushAwaited
  <2>3. (\A d \in CPU, n \in Nat : Lists(d, n, "push_cpu_stop")
           => stopper[d].fn # "push_cpu_stop")'
    BY <1>1, <1>2, <1>5 DEF PushInv, PushQueued, PushAwaited
  <2>4. (\A d \in CPU, f \in {"push_cpu_stop", "balance_push"}, m, n \in Nat :
        Lists(d, m, f) /\ Lists(d, n, f) => m = n)'
    BY <1>1, <1>2, <1>5 DEF PushInv, PushQueued, PushAwaited
  <2>5. PushAwaited'
    BY <1>1, <1>2, <1>3, <1>5 DEF PushInv, PushQueued, PushAwaited
  <2> QED
    BY <2>1, <2>2, <2>3, <2>4, <2>5 DEF PushInv, PushQueued, PushAwaited
<1>14. MaskInv'
  BY <1>1, <1>2, MaskFrame
<1>15. StopInv'
  BY <1>1, <1>2, <1>3, <1>5, <1>8 DEF StopInv, Installed
<1>16. OneInv'
  BY <1>1, <1>2, <1>3, <1>5, <1>8 DEF OneInv
<1>17. EndInv'
  BY <1>1, <1>2, <1>3, EndFrame
<1>18. LiveInv'
  BY <1>1, <1>2, LiveFrame
<1>19. RefInv'
  BY <1>1, <1>2, RefFrame
<1> QED
  BY <1>9, <1>10, <1>11, <1>12, <1>13, <1>14, <1>15, <1>16, <1>17, <1>18, <1>19
     DEF AffinityInv

LEMMA EnableCompleteStep ==
  ASSUME AffinityInv, NEW k \in Caller, enable.ends = k, EnableComplete
  PROVE  AffinityInv'
<1>. USE NoneAssumption
<1>. USE DEF OnCpu, Enabling, Rest
<1>1. /\ TypeOK /\ WorksOK /\ EnableInv /\ PinInv /\ PushInv /\ MaskInv
      /\ StopInv /\ OneInv /\ EndInv /\ LiveInv /\ RefInv
  BY DEF AffinityInv
<1>2. /\ enable.at = "complete" /\ enable' = Enabling("clear", None)
      /\ pend' = [pend EXCEPT ![k].done = TRUE]
      /\ UNCHANGED <<cpu, run, cpus_mask, cpus_ptr, migration_disabled,
                     migration_pending, mdf_push, exec, nr_pinned, push_busy,
                     pc, use, kick, works, stopper, hp, downs, lapsed>>
  BY <1>1 DEF EnableComplete, rqVars, callVars, stopVars, otherVars
<1>3. /\ cpu \in CPU
      /\ migration_pending \in Caller \cup {None}
      /\ pend \in [Caller -> Request]
  BY <1>1 DEF TypeOK
<1>4. EnableEnds(k) /\ Waiting(k) /\ pc[k] = "wait"
  BY <1>1 DEF EndInv, EndOnce, EnableEndsOnce, EnableEnds
<1>5. AlwaysReset' <=> AlwaysReset
  BY <1>1, <1>2 DEF AlwaysReset
<1>6. Pinned' <=> Pinned
  BY <1>1, <1>2 DEF Pinned
<1>7. QueuesKept
  BY <1>1, <1>2, WorksKept
<1>8. HandsKept
  BY <1>1, <1>2, StoppersKept
<1>9. pend' \in [Caller -> Request]
  BY <1>2, <1>3 DEF Request
<1>. USE DEF QueuesKept, HandsKept
<1>10. TypeOK'
  BY <1>1, <1>2, <1>9 DEF TypeOK
<1>11. WorksOK'
  BY <1>1, <1>2, WorksFrame
<1>12. EnableInv'
  BY <1>1, <1>2, <1>6 DEF EnableInv
<1>13. PinInv'
  BY <1>1, <1>2, <1>5, <1>6 DEF PinInv
<1>14. PushInv'
  BY <1>1, <1>2, PushFrame
<1>15. MaskInv'
  BY <1>1, <1>2, <1>6 DEF MaskInv
<1>16. StopInv'
  BY <1>1, <1>2, <1>7, <1>8 DEF StopInv, Installed
<1>17. OneInv'
  BY <1>1, <1>2, <1>7, <1>8 DEF OneInv
<1>18. EndInv'
  BY <1>1, <1>2, <1>4, <1>8 DEF EndInv, EndOnce, EnableEndsOnce, CallerEnds, EnableEnds,
     Waiting
<1>19. LiveInv'
  <2>1. (\A j \in Caller : use[j] = None <=> pc[j] \in {"idle", "own"})'
    BY <1>1, <1>2 DEF LiveInv
  <2>2. (\A j \in Caller : migration_pending = j =>
        use[j] = j /\ pc[j] \in {"kick", "wait"} /\ ~pend[j].done)'
    BY <1>1, <1>2, <1>4 DEF LiveInv, Waiting
  <2>3. (\A i, j \in Caller : use[i] = j => use[j] = j \/ (pc[j] = "own" /\ pend[j].done))'
    BY <1>1, <1>2 DEF LiveInv
  <2>4. (\A j \in Caller : use[j] # j /\ pc[j] # "own" => pend[j] = NoPending)'
    BY <1>1, <1>2, <1>4 DEF LiveInv, Waiting
  <2> QED
    BY <2>1, <2>2, <2>3, <2>4 DEF LiveInv
<1>20. RefInv'
  <2>1. \A j \in Caller : Waiters(j)' = Waiters(j)
    BY <1>1, <1>2 DEF Waiters
  <2>2. \A j \in Caller : pend'[j].refs = pend[j].refs
    BY <1>1, <1>2
  <2> QED
    BY <1>1, <2>1, <2>2 DEF RefInv
<1> QED
  BY <1>10, <1>11, <1>12, <1>13, <1>14, <1>15, <1>16, <1>17, <1>18, <1>19, <1>20
     DEF AffinityInv

LEMMA EnableKickStep ==
  ASSUME AffinityInv, EnableKick
  PROVE  AffinityInv'
<1>. USE NoneAssumption
<1>. USE DEF OnCpu, Enabling, Rest
<1>1. /\ TypeOK /\ WorksOK /\ EnableInv /\ PinInv /\ PushInv /\ MaskInv
      /\ StopInv /\ OneInv /\ EndInv /\ LiveInv /\ RefInv
  BY DEF AffinityInv
<1>2. /\ enable.at = "kick" /\ enable' = Enabling("clear", None)
      /\ Stop(cpu, MigrateWork(migration_pending))
      /\ UNCHANGED <<cpu, run, cpus_mask, cpus_ptr, migration_disabled,
                     migration_pending, mdf_push, exec, nr_pinned, push_busy, pend,
                     pc, use, kick, stopper, hp, downs, lapsed>>
  BY <1>1 DEF EnableKick, rqVars, callVars, otherVars
<1>3. /\ cpu \in CPU
      /\ migration_pending \in Caller \cup {None}
  BY <1>1 DEF TypeOK
<1>4. migration_pending \in Caller /\ Installed(migration_pending)
  BY <1>1, <1>2, <1>3 DEF StopInv
<1>5. WorksGrow
  BY <1>1, <1>2, <1>3, <1>4, MigrateAdds
<1>6. PICK place \in Nat : Adds(cpu, "migration_cpu_stop", migration_pending, place)
  BY <1>1, <1>2, <1>3, <1>4, MigrateAdds
<1>7. AlwaysReset' <=> AlwaysReset
  BY <1>1, <1>2 DEF AlwaysReset
<1>8. Pinned' <=> Pinned
  BY <1>1, <1>2 DEF Pinned
<1>9. HandsKept
  BY <1>1, <1>2, StoppersKept
<1>. USE DEF Adds, HandsKept
<1>10. TypeOK'
  BY <1>1, <1>2 DEF TypeOK
<1>11. WorksOK'
  <2>1. (works \in [CPU -> Seq(Work)])'
    BY <1>1, <1>2, <1>5 DEF WorksOK, WorksGrow
  <2>2. (stopper \in [CPU -> {Idle} \cup Work \cup Unlocked])'
    BY <1>1, <1>2 DEF WorksOK
  <2> QED
    BY <2>1, <2>2 DEF WorksOK
<1>12. EnableInv'
  BY <1>1, <1>2, <1>5 DEF EnableInv, WorksGrow
<1>13. PinInv'
  BY <1>1, <1>2, <1>7, <1>8 DEF PinInv
<1>14. PushInv'
  BY <1>1, <1>2, <1>6 DEF PushInv, PushQueued, PushAwaited
<1>15. MaskInv'
  BY <1>1, <1>2, MaskFrame
<1>16. StopInv'
  BY <1>1, <1>2, <1>6, <1>9 DEF StopInv, Installed
<1>17. OneInv'
  BY <1>1, <1>2, <1>6, <1>9 DEF OneInv
<1>18. EndInv'
  BY <1>1, <1>2, EndFrame
<1>19. LiveInv'
  BY <1>1, <1>2, LiveFrame
<1>20. RefInv'
  BY <1>1, <1>2, RefFrame
<1> QED
  BY <1>10, <1>11, <1>12, <1>13, <1>14, <1>15, <1>16, <1>17, <1>18, <1>19, <1>20
     DEF AffinityInv

LEMMA EnableClearStep ==
  ASSUME AffinityInv, EnableClear
  PROVE  AffinityInv'
<1>. USE NoneAssumption
<1>. USE DEF OnCpu, Enabling, Rest
<1>1. /\ TypeOK /\ WorksOK /\ EnableInv /\ PinInv /\ PushInv /\ MaskInv
      /\ StopInv /\ OneInv /\ EndInv /\ LiveInv /\ RefInv
  BY DEF AffinityInv
<1>2. /\ enable.at = "clear" /\ enable' = Enabling("out", None) /\ migration_disabled' = 0
      /\ run' \in {run, "queued"}
      /\ nr_pinned' = [nr_pinned EXCEPT ![cpu] = @ - 1]
      /\ UNCHANGED <<cpu, cpus_mask, cpus_ptr, migration_pending, mdf_push, exec,
                     push_busy, pend, pc, use, kick, works, stopper, hp, downs, lapsed>>
  BY <1>1 DEF EnableClear, Unpinned, callVars, stopVars, otherVars
<1>3. /\ cpu \in CPU
      /\ migration_pending \in Caller \cup {None}
      /\ nr_pinned \in [CPU -> Int]
  BY <1>1 DEF TypeOK
<1>4. run = "running" /\ migration_disabled = 1
  BY <1>1, <1>2 DEF EnableInv
<1>5. Pinned /\ ~Pinned'
  BY <1>1, <1>2, <1>4 DEF Pinned
<1>6. migration_disabled' \in 0 .. MaxNest
  BY <1>1, <1>2, BoundsAssumption
<1>7. nr_pinned' \in [CPU -> Int]
  BY <1>1, <1>2, <1>3
<1>8. AlwaysReset => \A d \in CPU : nr_pinned'[d] = 0
  BY <1>1, <1>2, <1>3, <1>5, CountsOut
<1>9. AlwaysReset' <=> AlwaysReset
  BY <1>1, <1>2 DEF AlwaysReset
<1>10. QueuesKept
  BY <1>1, <1>2, WorksKept
<1>11. HandsKept
  BY <1>1, <1>2, StoppersKept
<1>. USE DEF QueuesKept, HandsKept
<1>12. TypeOK'
  <2>1. (cpu \in CPU)'
    BY <1>1, <1>2 DEF TypeOK
  <2>2. (run \in {"running", "leaving", "queued", "blocked", "waking"})'
    BY <1>1, <1>2 DEF TypeOK
  <2>3. (cpus_mask \in (SUBSET CPU) \ {{}})'
    BY <1>1, <1>2 DEF TypeOK
  <2>4. (cpus_ptr \in CPU \cup {None})'
    BY <1>1, <1>2 DEF TypeOK
  <2>5. (migration_disabled \in 0 .. MaxNest)'
    BY <1>1, <1>2, <1>6 DEF TypeOK
  <2>6. (migration_pending \in Caller \cup {None})'
    BY <1>1, <1>2 DEF TypeOK
  <2>7. (mdf_push \in BOOLEAN /\ exec \in BOOLEAN)'
    BY <1>1, <1>2 DEF TypeOK
  <2>8. (enable \in Rest)'
    BY <1>1, <1>2 DEF TypeOK
  <2>9. (nr_pinned \in [CPU -> Int])'
    BY <1>1, <1>2, <1>7 DEF TypeOK
  <2>10. (push_busy \in [CPU -> BOOLEAN])'
    BY <1>1, <1>2 DEF TypeOK
  <2>11. (pend \in [Caller -> Request])'
    BY <1>1, <1>2 DEF TypeOK
  <2>12. (pc \in [Caller -> {"idle", "kick", "complete", "complete_return", "wait", "own"}])'
    BY <1>1, <1>2 DEF TypeOK
  <2>13. (use \in [Caller -> Caller \cup {None}])'
    BY <1>1, <1>2 DEF TypeOK
  <2>14. (kick \in [Caller -> CPU \cup {None}])'
    BY <1>1, <1>2 DEF TypeOK
  <2>15. (hp \in [CPU -> {"up", "inactive", "empty", "dead", "starting"}])'
    BY <1>1, <1>2 DEF TypeOK
  <2>16. (downs \in 0 .. MaxDown)'
    BY <1>1, <1>2 DEF TypeOK
  <2>17. (lapsed \subseteq {"not reset", "pinned", "waking", "not moved"})'
    BY <1>1, <1>2 DEF TypeOK
  <2> QED
    BY <2>1, <2>2, <2>3, <2>4, <2>5, <2>6, <2>7, <2>8, <2>9, <2>10, <2>11, <2>12, <2>13,
       <2>14, <2>15, <2>16, <2>17 DEF TypeOK
<1>13. WorksOK'
  BY <1>1, <1>2, WorksFrame
<1>14. EnableInv'
  BY <1>1, <1>2 DEF EnableInv
<1>15. PinInv'
  <2>1. (AlwaysReset => (~Pinned \/ enable.at # "out" => cpus_ptr = None))'
    BY <1>1, <1>2, <1>9 DEF PinInv
  <2>2. (AlwaysReset => (Pinned /\ cpus_ptr # None => cpus_ptr = cpu))'
    BY <1>1, <1>2, <1>9 DEF PinInv
  <2>3. (AlwaysReset => (Pinned /\ ~OnCpu => cpus_ptr = cpu))'
    BY <1>1, <1>2, <1>5 DEF PinInv
  <2>4. (AlwaysReset => (\A d \in CPU : nr_pinned[d] = IF Pinned /\ cpu = d THEN 1 ELSE 0))'
    BY <1>1, <1>2, <1>5, <1>8, <1>9 DEF PinInv
  <2>5. (AlwaysReset =>
           (\A d \in CPU : hp[d] \in {"empty", "dead"} /\ cpu = d
              => run = "blocked" /\ ~Pinned))'
    BY <1>1, <1>2, <1>9 DEF PinInv, EnableInv
  <2> QED
    BY <2>1, <2>2, <2>3, <2>4, <2>5 DEF PinInv
<1>16. PushInv'
  BY <1>1, <1>2, PushFrame
<1>17. MaskInv'
  <2>1. (lapsed = {} /\ cpu \notin cpus_mask =>
           (run # "blocked" \/ Pinned => migration_pending # None))'
    BY <1>1, <1>2 DEF MaskInv, EnableInv
  <2>2. (lapsed = {} /\ cpu \notin cpus_mask =>
           (migration_pending # None => pend[migration_pending].dest \in cpus_mask))'
    BY <1>1, <1>2 DEF MaskInv
  <2> QED
    BY <2>1, <2>2 DEF MaskInv
<1>18. StopInv'
  BY <1>1, <1>2, <1>10, <1>11 DEF StopInv, Installed
<1>19. OneInv'
  BY <1>1, <1>2, <1>10, <1>11 DEF OneInv
<1>20. EndInv'
  BY <1>1, <1>2, EndFrame
<1>21. LiveInv'
  BY <1>1, <1>2, LiveFrame
<1>22. RefInv'
  BY <1>1, <1>2, RefFrame
<1> QED
  BY <1>12, <1>13, <1>14, <1>15, <1>16, <1>17, <1>18, <1>19, <1>20, <1>21, <1>22
     DEF AffinityInv

LEMMA CallCompletes ==
  ASSUME AffinityInv, NEW k \in Caller, NEW M \in (SUBSET CPU) \ {{}},
         set_cpus_allowed_ptr(k, M), cpu \in M, Completes
  PROVE  AffinityInv'
<1>. USE NoneAssumption
<1>. USE DEF OnCpu
<1>1. /\ TypeOK /\ WorksOK /\ EnableInv /\ PinInv /\ PushInv /\ MaskInv
      /\ StopInv /\ OneInv /\ EndInv /\ LiveInv /\ RefInv
  BY DEF AffinityInv
<1>2. /\ pc[k] = "idle" /\ cpus_mask' = M /\ cpu \in M
      /\ migration_pending \in Caller /\ ~pend[migration_pending].stop_pending
      /\ migration_pending' = None /\ use' = [use EXCEPT ![k] = migration_pending]
      /\ pc' = [pc EXCEPT ![k] = "complete_return"]
      /\ UNCHANGED <<cpu, run, cpus_ptr, migration_disabled, mdf_push, enable, exec,
                     nr_pinned, push_busy, pend, kick, works, stopper, hp, downs,
                     lapsed>>
  BY <1>1 DEF set_cpus_allowed_ptr, AffineStay, Goes, Completes, rqVars, stopVars,
     otherVars, TypeOK
<1>3. /\ cpu \in CPU
      /\ migration_pending \in Caller \cup {None}
      /\ pc \in [Caller -> {"idle", "kick", "complete", "complete_return", "wait", "own"}]
      /\ use \in [Caller -> Caller \cup {None}]
  BY <1>1 DEF TypeOK
<1>4. use[k] = None
  BY <1>1, <1>2 DEF LiveInv
<1>5. NoStopWorkBut(None)
  BY <1>1, <1>2, NoneUnderWay DEF StopInv, Installed
<1>6. QueuesKept
  BY <1>1, <1>2, WorksKept
<1>7. HandsKept
  BY <1>1, <1>2, StoppersKept
<1>. USE DEF QueuesKept, HandsKept, NoStopWorkBut
<1>8. TypeOK'
  BY <1>1, <1>2 DEF TypeOK
<1>9. WorksOK'
  BY <1>1, <1>2, WorksFrame
<1>10. EnableInv'
  BY <1>1, <1>2, EnableFrame
<1>11. PinInv'
  BY <1>1, <1>2, PinFrame
<1>12. PushInv'
  BY <1>1, <1>2, PushFrame
<1>13. MaskInv'
  BY <1>1, <1>2 DEF MaskInv
<1>14. StopInv'
  BY <1>1, <1>2, <1>6, <1>7 DEF StopInv, Installed
<1>15. OneInv'
  BY <1>1, <1>2, <1>6, <1>7 DEF OneInv
<1>16. EndInv'
  <2>1. \A j \in Caller : Waiting(j) =>
          Waiting(j)' /\ j # migration_pending /\ j # k /\ pc'[j] = pc[j]
    BY <1>2, <1>3, <1>4 DEF Waiting
  <2>2. \A j \in Caller : j = migration_pending => Waiting(j)' /\ pc'[j] = "wait" /\ j # k
    BY <1>1, <1>2, <1>3, <1>5 DEF Waiting, LiveInv
  <2>3. \A i, j \in Caller :
          /\ CallerEnds(i, j)' => CallerEnds(i, j) \/ (i = k /\ j = migration_pending)
          /\ EnableEnds(j)' <=> EnableEnds(j)
    BY <1>2, <1>3 DEF CallerEnds, EnableEnds
  <2>4. \A i, j \in Caller, d \in CPU :
          StopperEnds(d, j) \/ CallerEnds(i, j) \/ EnableEnds(j) => Waiting(j)
    BY <1>1 DEF EndInv, EndOnce, EnableEndsOnce
  <2>5. EndOnce'
    BY <1>1, <1>7, <2>1, <2>2, <2>3, <2>4 DEF EndInv, EndOnce
  <2>6. EnableEndsOnce'
    BY <1>1, <1>7, <2>1, <2>2, <2>3, <2>4 DEF EndInv, EnableEndsOnce
  <2> QED
    BY <2>5, <2>6 DEF EndInv
<1>17. LiveInv'
  BY <1>1, <1>2, <1>3 DEF LiveInv
<1>18. RefInv'
  <2>1. \A j \in Caller : Waiters(j)' = Waiters(j)
    BY <1>1, <1>2, <1>3, <1>4 DEF Waiters
  <2>2. \A j \in Caller : pend'[j].refs = pend[j].refs
    BY <1>1, <1>2
  <2> QED
    BY <1>1, <2>1, <2>2 DEF RefInv
<1> QED
  BY <1>8, <1>9, <1>10, <1>11, <1>12, <1>13, <1>14, <1>15, <1>16, <1>17, <1>18
     DEF AffinityInv

LEMMA CallStays ==
  ASSUME AffinityInv, NEW k \in Caller, NEW M \in (SUBSET CPU) \ {{}},
         set_cpus_allowed_ptr(k, M), cpu \in M, ~Completes
  PROVE  AffinityInv'
<1>. USE NoneAssumption
<1>. USE DEF OnCpu
<1>1. /\ TypeOK /\ WorksOK /\ EnableInv /\ PinInv /\ PushInv /\ MaskInv
      /\ StopInv /\ OneInv /\ EndInv /\ LiveInv /\ RefInv
  BY DEF AffinityInv
<1>2. /\ pc[k] = "idle" /\ cpus_mask' = M /\ cpu \in M
      /\ UNCHANGED <<cpu, run, cpus_ptr, migration_disabled, migration_pending,
                     mdf_push, enable, exec, nr_pinned, push_busy, pend, pc, use,
                     kick, works, stopper, hp, downs, lapsed>>
  BY <1>1 DEF set_cpus_allowed_ptr, AffineStay, rqVars, callVars, stopVars, otherVars
<1>3. TypeOK'
  BY <1>1, <1>2 DEF TypeOK
<1>4. WorksOK'
  BY <1>1, <1>2, WorksFrame
<1>5. EnableInv'
  BY <1>1, <1>2, EnableFrame
<1>6. PinInv'
  BY <1>1, <1>2, PinFrame
<1>7. PushInv'
  BY <1>1, <1>2, PushFrame
<1>8. MaskInv'
  BY <1>1, <1>2 DEF MaskInv
<1>9. StopInv'
  BY <1>1, <1>2, StopFrame
<1>10. OneInv'
  BY <1>1, <1>2, OneFrame
<1>11. EndInv'
  BY <1>1, <1>2, EndFrame
<1>12. LiveInv'
  BY <1>1, <1>2, LiveFrame
<1>13. RefInv'
  BY <1>1, <1>2, RefFrame
<1> QED
  BY <1>3, <1>4, <1>5, <1>6, <1>7, <1>8, <1>9, <1>10, <1>11, <1>12, <1>13
     DEF AffinityInv

(* The task runs or wakes up: the stopper shall move it. *)
LEMMA CallKicks ==
  ASSUME AffinityInv, NEW k \in Caller, NEW M \in (SUBSET CPU) \ {{}}, NEW dest \in M,
         NEW own \in Caller,
         own = IF migration_pending = None THEN k ELSE migration_pending,
         Leaves(k, M, dest), OnCpu \/ run = "waking", ~pend[own].stop_pending
  PROVE  AffinityInv'
<1>. USE NoneAssumption
<1>. USE DEF OnCpu
<1>1. /\ TypeOK /\ WorksOK /\ EnableInv /\ PinInv /\ PushInv /\ MaskInv
      /\ StopInv /\ OneInv /\ EndInv /\ LiveInv /\ RefInv
  BY DEF AffinityInv
<1>2. /\ pc[k] = "idle" /\ cpus_mask' = M /\ cpu \notin M
      /\ dest \in CPU /\ (hp[dest] = "up" \/ Pinned)
      /\ use' = [use EXCEPT ![k] = own]
      /\ pc' = [pc EXCEPT ![k] = "kick"]
      /\ run # "queued" /\ migration_pending' = own /\ ~pend[own].stop_pending
      /\ kick' = [kick EXCEPT ![k] = cpu]
      /\ UNCHANGED <<cpu, run, cpus_ptr, migration_disabled, mdf_push, enable, exec,
                     nr_pinned, push_busy, works, stopper, hp, downs, lapsed>>
  BY <1>1, JoinedToStop DEF Leaves, rqVars, stopVars, otherVars
<1>3. /\ cpu \in CPU
      /\ migration_pending \in Caller \cup {None}
      /\ pend \in [Caller -> Request]
      /\ pc \in [Caller -> {"idle", "kick", "complete", "complete_return", "wait", "own"}]
      /\ use \in [Caller -> Caller \cup {None}]
      /\ kick \in [Caller -> CPU \cup {None}]
  BY <1>1 DEF TypeOK
<1>4. PICK r \in Request :
      /\ pend' = [pend EXCEPT ![own] = r]
      /\ r.refs = pend[own].refs + 1 /\ r.done = pend[own].done
      /\ r.dest = dest /\ r.stop_pending
  <2>1. AffineMove(k, dest) /\ dest \in CPU
    BY DEF Leaves
  <2> QED
    BY <1>1, <2>1, JoinedToStop
<1>5. /\ ~pend[own].done /\ use[k] = None
      /\ own = k => pend[k] = NoPending /\ \A j \in Caller : use[j] # k
      /\ own # k => migration_pending = own /\ use[own] = own /\ pc[own] \in {"kick", "wait"}
  BY <1>1, <1>2, <1>3 DEF LiveInv, NoPending
<1>6. ~pend[own].stop_pending => NoStopWorkBut(None)
  BY <1>1, <1>2, NoneUnderWay DEF StopInv, Installed
<1>7. QueuesKept
  BY <1>1, <1>2, WorksKept
<1>8. HandsKept
  BY <1>1, <1>2, StoppersKept
<1>9. pend' \in [Caller -> Request]
  BY <1>3, <1>4
<1>. USE DEF QueuesKept, HandsKept, NoStopWorkBut
<1>10. TypeOK'
  BY <1>1, <1>2, <1>9 DEF TypeOK
<1>11. WorksOK'
  BY <1>1, <1>2, WorksFrame
<1>12. EnableInv'
  BY <1>1, <1>2, EnableFrame
<1>13. PinInv'
  BY <1>1, <1>2, PinFrame
<1>14. PushInv'
  BY <1>1, <1>2, PushFrame
<1>15. MaskInv'
  BY <1>1, <1>2, <1>3, <1>4 DEF MaskInv
<1>16. StopInv'
  BY <1>1, <1>2, <1>3, <1>4, <1>6, <1>7, <1>8 DEF StopInv, Installed
<1>17. OneInv'
  BY <1>1, <1>2, <1>6, <1>7, <1>8 DEF OneInv
<1>18. EndInv'
  BY <1>1, <1>2, <1>4, <1>8 DEF EndInv, EndOnce, EnableEndsOnce, CallerEnds, EnableEnds,
     Waiting
<1>19. LiveInv'
  <2>1. (\A j \in Caller : use[j] = None <=> pc[j] \in {"idle", "own"})'
    BY <1>1, <1>2, <1>3 DEF LiveInv
  <2>2. (\A j \in Caller : migration_pending = j =>
        use[j] = j /\ pc[j] \in {"kick", "wait"} /\ ~pend[j].done)'
    BY <1>1, <1>2, <1>3, <1>4, <1>5 DEF LiveInv
  <2>3. (\A i, j \in Caller : use[i] = j => use[j] = j \/ (pc[j] = "own" /\ pend[j].done))'
    BY <1>1, <1>2, <1>4 DEF LiveInv
  <2>4. (\A j \in Caller : use[j] # j /\ pc[j] # "own" => pend[j] = NoPending)'
    BY <1>1, <1>2, <1>3, <1>4 DEF LiveInv
  <2> QED
    BY <2>1, <2>2, <2>3, <2>4 DEF LiveInv
<1>20. RefInv'
  <2>1. Waiters(own)' = Waiters(own) \cup {k} /\ k \notin Waiters(own)
    BY <1>1, <1>2, <1>3, <1>5 DEF Waiters
  <2>2. \A j \in Caller \ {own} : Waiters(j)' = Waiters(j) /\ pend'[j].refs = pend[j].refs
    BY <1>1, <1>2, <1>4, <1>5 DEF Waiters
  <2>3. Cardinality(Waiters(own)') = Cardinality(Waiters(own)) + 1
    BY <2>1, WaitersAreFinite, FS_AddElement
  <2>4. pend'[own].refs = pend[own].refs + 1
    BY <1>1, <1>2, <1>3, <1>4
  <2> QED
    BY <1>1, <2>2, <2>3, <2>4 DEF RefInv
<1> QED
  BY <1>10, <1>11, <1>12, <1>13, <1>14, <1>15, <1>16, <1>17, <1>18, <1>19, <1>20
     DEF AffinityInv

(* ... and the stop work is under way. *)
LEMMA CallJoins ==
  ASSUME AffinityInv, NEW k \in Caller, NEW M \in (SUBSET CPU) \ {{}}, NEW dest \in M,
         NEW own \in Caller,
         own = IF migration_pending = None THEN k ELSE migration_pending,
         Leaves(k, M, dest), OnCpu \/ run = "waking", pend[own].stop_pending
  PROVE  AffinityInv'
<1>. USE NoneAssumption
<1>. USE DEF OnCpu
<1>1. /\ TypeOK /\ WorksOK /\ EnableInv /\ PinInv /\ PushInv /\ MaskInv
      /\ StopInv /\ OneInv /\ EndInv /\ LiveInv /\ RefInv
  BY DEF AffinityInv
<1>2. /\ pc[k] = "idle" /\ cpus_mask' = M /\ cpu \notin M
      /\ dest \in CPU /\ (hp[dest] = "up" \/ Pinned)
      /\ use' = [use EXCEPT ![k] = own]
      /\ pc' = [pc EXCEPT ![k] = "wait"]
      /\ run # "queued" /\ migration_pending' = own /\ pend[own].stop_pending
      /\ kick' = [kick EXCEPT ![k] = cpu]
      /\ UNCHANGED <<cpu, run, cpus_ptr, migration_disabled, mdf_push, enable, exec,
                     nr_pinned, push_busy, works, stopper, hp, downs, lapsed>>
  BY <1>1, JoinedToStop DEF Leaves, rqVars, stopVars, otherVars
<1>3. /\ cpu \in CPU
      /\ migration_pending \in Caller \cup {None}
      /\ pend \in [Caller -> Request]
      /\ pc \in [Caller -> {"idle", "kick", "complete", "complete_return", "wait", "own"}]
      /\ use \in [Caller -> Caller \cup {None}]
      /\ kick \in [Caller -> CPU \cup {None}]
  BY <1>1 DEF TypeOK
<1>4. PICK r \in Request :
      /\ pend' = [pend EXCEPT ![own] = r]
      /\ r.refs = pend[own].refs + 1 /\ r.done = pend[own].done
      /\ r.dest = dest /\ r.stop_pending
  <2>1. AffineMove(k, dest) /\ dest \in CPU
    BY DEF Leaves
  <2> QED
    BY <1>1, <2>1, JoinedToStop
<1>5. /\ ~pend[own].done /\ use[k] = None
      /\ own = k => pend[k] = NoPending /\ \A j \in Caller : use[j] # k
      /\ own # k => migration_pending = own /\ use[own] = own /\ pc[own] \in {"kick", "wait"}
  BY <1>1, <1>2 DEF LiveInv, NoPending
<1>6. QueuesKept
  BY <1>1, <1>2, WorksKept
<1>7. HandsKept
  BY <1>1, <1>2, StoppersKept
<1>8. pend' \in [Caller -> Request]
  BY <1>3, <1>4
<1>. USE DEF QueuesKept, HandsKept, NoStopWorkBut
<1>9. TypeOK'
  BY <1>1, <1>2, <1>8 DEF TypeOK
<1>10. WorksOK'
  BY <1>1, <1>2, WorksFrame
<1>11. EnableInv'
  BY <1>1, <1>2, EnableFrame
<1>12. PinInv'
  BY <1>1, <1>2, PinFrame
<1>13. PushInv'
  BY <1>1, <1>2, PushFrame
<1>14. MaskInv'
  BY <1>1, <1>2, <1>3, <1>4 DEF MaskInv
<1>15. StopInv'
  BY <1>1, <1>2, <1>4, <1>6, <1>7 DEF StopInv, Installed
<1>16. OneInv'
  BY <1>1, <1>2, <1>6, <1>7 DEF OneInv
<1>17. EndInv'
  BY <1>1, <1>2, <1>4, <1>7 DEF EndInv, EndOnce, EnableEndsOnce, CallerEnds, EnableEnds,
     Waiting
<1>18. LiveInv'
  BY <1>1, <1>2, <1>3, <1>4, <1>5 DEF LiveInv
<1>19. RefInv'
  <2>1. Waiters(own)' = Waiters(own) \cup {k} /\ k \notin Waiters(own)
    BY <1>1, <1>2, <1>3, <1>5 DEF Waiters
  <2>2. \A j \in Caller \ {own} : Waiters(j)' = Waiters(j) /\ pend'[j].refs = pend[j].refs
    BY <1>1, <1>2, <1>4, <1>5 DEF Waiters
  <2>3. Cardinality(Waiters(own)') = Cardinality(Waiters(own)) + 1
    BY <2>1, WaitersAreFinite, FS_AddElement
  <2>4. pend'[own].refs = pend[own].refs + 1
    BY <1>1, <1>2, <1>3, <1>4
  <2> QED
    BY <1>1, <2>2, <2>3, <2>4 DEF RefInv
<1> QED
  BY <1>9, <1>10, <1>11, <1>12, <1>13, <1>14, <1>15, <1>16, <1>17, <1>18, <1>19
     DEF AffinityInv

(* It does not, and nothing pins it. *)
LEMMA CallMoves ==
  ASSUME AffinityInv, NEW k \in Caller, NEW M \in (SUBSET CPU) \ {{}}, NEW dest \in M,
         NEW own \in Caller,
         own = IF migration_pending = None THEN k ELSE migration_pending,
         Leaves(k, M, dest), ~(OnCpu \/ run = "waking"), ~Pinned, ~pend[own].stop_pending
  PROVE  AffinityInv'
<1>. USE NoneAssumption
<1>. USE DEF OnCpu
<1>1. /\ TypeOK /\ WorksOK /\ EnableInv /\ PinInv /\ PushInv /\ MaskInv
      /\ StopInv /\ OneInv /\ EndInv /\ LiveInv /\ RefInv
  BY DEF AffinityInv
<1>2. /\ pc[k] = "idle" /\ cpus_mask' = M /\ cpu \notin M
      /\ dest \in CPU /\ (hp[dest] = "up" \/ Pinned)
      /\ use' = [use EXCEPT ![k] = own]
      /\ pc' = [pc EXCEPT ![k] = "complete"]
      /\ migration_pending' = None /\ ~pend[own].stop_pending /\ ~OnCpu /\ ~Pinned
           /\ run # "waking"
      /\ cpu' = IF run = "queued" /\ ~Pinned THEN dest ELSE cpu
      /\ UNCHANGED <<run, cpus_ptr, migration_disabled, mdf_push, enable, exec,
                     nr_pinned, push_busy, kick, works, stopper, hp, downs, lapsed>>
  BY <1>1, JoinedAsleep DEF Leaves, rqVars, stopVars, otherVars
<1>3. /\ cpu \in CPU
      /\ migration_pending \in Caller \cup {None}
      /\ pend \in [Caller -> Request]
      /\ pc \in [Caller -> {"idle", "kick", "complete", "complete_return", "wait", "own"}]
      /\ use \in [Caller -> Caller \cup {None}]
  BY <1>1 DEF TypeOK
<1>4. PICK r \in Request :
      /\ pend' = [pend EXCEPT ![own] = r]
      /\ r.refs = pend[own].refs + 1 /\ r.done = pend[own].done
      /\ r.dest = dest /\ ~r.stop_pending
  <2>1. AffineMove(k, dest) /\ dest \in CPU
    BY DEF Leaves
  <2> QED
    BY <1>1, <2>1, JoinedAsleep
<1>5. /\ ~pend[own].done /\ use[k] = None
      /\ own = k => pend[k] = NoPending /\ \A j \in Caller : use[j] # k
      /\ own # k => migration_pending = own /\ use[own] = own /\ pc[own] \in {"kick", "wait"}
  BY <1>1, <1>2, <1>3 DEF LiveInv, NoPending
<1>6. /\ \A j \in Caller : ~CallerEnds(j, own)
      /\ \A d \in CPU : ~StopperEnds(d, own)
      /\ ~EnableEnds(own)
  BY <1>1, <1>5 DEF EndInv, EndOnce, EnableEndsOnce, Waiting
<1>7. ~pend[own].stop_pending => NoStopWorkBut(None)
  BY <1>1, NoneUnderWay DEF Installed
<1>8. AlwaysReset' <=> AlwaysReset
  BY <1>2 DEF AlwaysReset
<1>9. Pinned' <=> Pinned
  BY <1>2 DEF Pinned
<1>10. QueuesKept
  BY <1>2, WorksKept
<1>11. HandsKept
  BY <1>2, StoppersKept
<1>12. pend' \in [Caller -> Request]
  BY <1>3, <1>4
<1>. USE DEF QueuesKept, HandsKept, NoStopWorkBut
<1>13. TypeOK'
  BY <1>1, <1>2, <1>12 DEF TypeOK
<1>14. WorksOK'
  BY <1>1, <1>2, WorksFrame
<1>15. EnableInv'
  BY <1>1, <1>2 DEF EnableInv
<1>16. PinInv'
  BY <1>1, <1>2, <1>8, <1>9 DEF PinInv
<1>17. PushInv'
  <2>1. enable'.at = "push" => enable.at = "push" /\ UNCHANGED cpu
    BY <1>1, <1>2 DEF EnableInv
  <2> QED
    BY <1>1, <1>2, <2>1, PushFrame
<1>18. MaskInv'
  <2>1. (lapsed = {} /\ cpu \notin cpus_mask =>
           (run # "blocked" \/ Pinned => migration_pending # None))'
    BY <1>1, <1>2, <1>9 DEF TypeOK
  <2>2. (lapsed = {} /\ cpu \notin cpus_mask =>
           (migration_pending # None => pend[migration_pending].dest \in cpus_mask))'
    BY <1>2
  <2> QED
    BY <2>1, <2>2 DEF MaskInv
<1>19. StopInv'
  BY <1>1, <1>2, <1>4, <1>10, <1>11 DEF StopInv, Installed
<1>20. OneInv'
  BY <1>1, <1>2, <1>10, <1>11 DEF OneInv
<1>21. EndInv'
  <2>1. (\A j \in Caller, d \in CPU : StopperEnds(d, j) => Waiting(j) /\ pc[j] = "wait")'
    BY <1>1, <1>2, <1>4, <1>11 DEF EndInv, EndOnce, EnableEndsOnce, Waiting
  <2>2. (\A i, j \in Caller : CallerEnds(i, j)
           => Waiting(j) /\ pc[j] \in {"wait", "complete"})'
    <3> SUFFICES ASSUME NEW i \in Caller, NEW j \in Caller, CallerEnds(i, j)'
                 PROVE  Waiting(j)' /\ (pc[j] \in {"wait", "complete"})'
      OBVIOUS
    <3>1. CASE i = k
      <4>1. j = own
        BY <1>2, <1>3, <3>1 DEF CallerEnds
      <4>2. own = k => use'[own] = own /\ pc'[own] = "complete"
        BY <1>2, <1>3
      <4>3. own # k => use'[own] = own /\ pc'[own] = "wait"
        <5>1. own # k => use[own] = own /\ pc[own] = "wait"
          BY <1>5, <1>7
        <5> QED
          BY <1>2, <5>1
      <4>4. pend'[own] = r
        BY <1>3, <1>4
      <4>5. r.done = pend[own].done /\ ~pend[own].done
        BY <1>4, <1>5
      <4>6. ~pend'[own].done
        BY <4>4, <4>5
      <4> QED
        BY <1>2, <4>1, <4>2, <4>3, <4>6 DEF Waiting
    <3>2. CASE i # k
      <4>1. CallerEnds(i, j)
        BY <1>2, <3>2 DEF CallerEnds
      <4>2. Waiting(j) /\ pc[j] \in {"wait", "complete"} /\ j # own
        BY <1>1, <1>6, <4>1 DEF EndInv, EndOnce, EnableEndsOnce
      <4>3. pend'[j] = pend[j]
        BY <1>4, <4>2
      <4> QED
        BY <1>2, <4>2, <4>3 DEF Waiting
    <3> QED
      BY <3>1, <3>2
  <2>3. (\A j \in Caller, d, e \in CPU : StopperEnds(d, j) /\ StopperEnds(e, j) => d = e)'
    BY <1>1, <1>11 DEF EndInv, EndOnce, EnableEndsOnce
  <2>4. (\A i, j \in Caller, d \in CPU : ~(StopperEnds(d, j) /\ CallerEnds(i, j)))'
    BY <1>1, <1>2, <1>3, <1>11 DEF EndInv, EndOnce, EnableEndsOnce, CallerEnds,
       EnableEnds, Waiting
  <2>5. (\A h, i, j \in Caller : CallerEnds(h, j) /\ CallerEnds(i, j) => h = i)'
    BY <1>1, <1>2, <1>3 DEF EndInv, EndOnce, EnableEndsOnce, CallerEnds, EnableEnds, Waiting
  <2>6. EnableEndsOnce'
    <3>1. \A j \in Caller : EnableEnds(j)' =>
            EnableEnds(j) /\ Waiting(j) /\ pc[j] = "wait" /\ j # own /\ j # k
      BY <1>1, <1>2, <1>6 DEF EndInv, EnableEndsOnce, EnableEnds
    <3>2. \A j \in Caller : j # own /\ j # k /\ Waiting(j) => Waiting(j)' /\ pc'[j] = pc[j]
      BY <1>2, <1>3, <1>4 DEF Waiting
    <3>3. \A i, j \in Caller : j # own /\ CallerEnds(i, j)' => CallerEnds(i, j)
      BY <1>2, <1>3 DEF CallerEnds
    <3> QED
      BY <1>1, <1>11, <3>1, <3>2, <3>3 DEF EndInv, EnableEndsOnce
  <2> QED
    BY <2>1, <2>2, <2>3, <2>4, <2>5, <2>6 DEF EndInv, EndOnce
<1>22. LiveInv'
  BY <1>1, <1>2, <1>3, <1>4 DEF LiveInv
<1>23. RefInv'
  <2>1. Waiters(own)' = Waiters(own) \cup {k} /\ k \notin Waiters(own)
    BY <1>1, <1>2, <1>3 DEF Waiters, LiveInv
  <2>2. \A j \in Caller \ {own} : Waiters(j)' = Waiters(j) /\ pend'[j].refs = pend[j].refs
    BY <1>2, <1>4, <1>5 DEF Waiters
  <2>3. Cardinality(Waiters(own)') = Cardinality(Waiters(own)) + 1
    BY <2>1, WaitersAreFinite, FS_AddElement
  <2>4. pend'[own].refs = pend[own].refs + 1
    BY <1>3, <1>4
  <2> QED
    BY <1>1, <2>2, <2>3, <2>4 DEF RefInv
<1> QED
  BY <1>13, <1>14, <1>15, <1>16, <1>17, <1>18, <1>19, <1>20, <1>21, <1>22, <1>23
     DEF AffinityInv

(* It does not, but it is pinned, or a stop work is under way. *)
LEMMA CallWaits ==
  ASSUME AffinityInv, NEW k \in Caller, NEW M \in (SUBSET CPU) \ {{}}, NEW dest \in M,
         NEW own \in Caller,
         own = IF migration_pending = None THEN k ELSE migration_pending,
         Leaves(k, M, dest), ~(OnCpu \/ run = "waking"), Pinned \/ pend[own].stop_pending
  PROVE  AffinityInv'
<1>. USE NoneAssumption
<1>. USE DEF OnCpu
<1>1. /\ TypeOK /\ WorksOK /\ EnableInv /\ PinInv /\ PushInv /\ MaskInv
      /\ StopInv /\ OneInv /\ EndInv /\ LiveInv /\ RefInv
  BY DEF AffinityInv
<1>2. /\ pc[k] = "idle" /\ cpus_mask' = M /\ cpu \notin M
      /\ dest \in CPU /\ (hp[dest] = "up" \/ Pinned)
      /\ use' = [use EXCEPT ![k] = own]
      /\ pc' = [pc EXCEPT ![k] = "wait"]
      /\ migration_pending' = own /\ ~OnCpu /\ (Pinned \/ pend[own].stop_pending)
      /\ cpu' = IF run = "queued" /\ ~Pinned THEN dest ELSE cpu
      /\ UNCHANGED <<run, cpus_ptr, migration_disabled, mdf_push, enable, exec,
                     nr_pinned, push_busy, kick, works, stopper, hp, downs, lapsed>>
  BY <1>1, JoinedAsleep DEF Leaves, rqVars, stopVars, otherVars
<1>3. /\ cpu \in CPU
      /\ migration_pending \in Caller \cup {None}
      /\ pend \in [Caller -> Request]
      /\ pc \in [Caller -> {"idle", "kick", "complete", "complete_return", "wait", "own"}]
      /\ use \in [Caller -> Caller \cup {None}]
  BY <1>1 DEF TypeOK
<1>4. PICK r \in Request :
      /\ pend' = [pend EXCEPT ![own] = r]
      /\ r.refs = pend[own].refs + 1 /\ r.done = pend[own].done
      /\ r.dest = dest /\ r.stop_pending = pend[own].stop_pending
  <2>1. AffineMove(k, dest) /\ dest \in CPU
    BY DEF Leaves
  <2> QED
    BY <1>1, <2>1, JoinedAsleep
<1>5. /\ ~pend[own].done /\ use[k] = None
      /\ own = k => pend[k] = NoPending /\ \A j \in Caller : use[j] # k
      /\ own # k => migration_pending = own /\ use[own] = own /\ pc[own] \in {"kick", "wait"}
  BY <1>1, <1>2, <1>3 DEF LiveInv, NoPending
<1>6. ~pend[own].stop_pending => NoStopWorkBut(None)
  BY <1>1, <1>2, NoneUnderWay DEF StopInv, Installed
<1>7. AlwaysReset' <=> AlwaysReset
  BY <1>1, <1>2 DEF AlwaysReset
<1>8. Pinned' <=> Pinned
  BY <1>1, <1>2 DEF Pinned
<1>9. QueuesKept
  BY <1>1, <1>2, WorksKept
<1>10. HandsKept
  BY <1>1, <1>2, StoppersKept
<1>11. pend' \in [Caller -> Request]
  BY <1>3, <1>4
<1>. USE DEF QueuesKept, HandsKept, NoStopWorkBut
<1>12. TypeOK'
  BY <1>1, <1>2, <1>11 DEF TypeOK
<1>13. WorksOK'
  BY <1>1, <1>2, WorksFrame
<1>14. EnableInv'
  BY <1>1, <1>2 DEF EnableInv
<1>15. PinInv'
  BY <1>1, <1>2, <1>7, <1>8 DEF PinInv
<1>16. PushInv'
  <2>1. enable'.at = "push" => enable.at = "push" /\ UNCHANGED cpu
    BY <1>1, <1>2 DEF EnableInv
  <2> QED
    BY <1>1, <1>2, <2>1, PushFrame
<1>17. MaskInv'
  BY <1>1, <1>2, <1>3, <1>4 DEF MaskInv
<1>18. StopInv'
  BY <1>1, <1>2, <1>4, <1>6, <1>9, <1>10 DEF StopInv, Installed
<1>19. OneInv'
  BY <1>1, <1>2, <1>9, <1>10 DEF OneInv
<1>20. EndInv'
  BY <1>1, <1>2, <1>4, <1>10 DEF EndInv, EndOnce, EnableEndsOnce, CallerEnds, EnableEnds,
     Waiting
<1>21. LiveInv'
  <2>1. (\A j \in Caller : use[j] = None <=> pc[j] \in {"idle", "own"})'
    BY <1>1, <1>2, <1>3 DEF LiveInv
  <2>2. (\A j \in Caller : migration_pending = j =>
        use[j] = j /\ pc[j] \in {"kick", "wait"} /\ ~pend[j].done)'
    BY <1>1, <1>2, <1>3, <1>4, <1>5 DEF LiveInv
  <2>3. (\A i, j \in Caller : use[i] = j => use[j] = j \/ (pc[j] = "own" /\ pend[j].done))'
    BY <1>1, <1>2, <1>4 DEF LiveInv
  <2>4. (\A j \in Caller : use[j] # j /\ pc[j] # "own" => pend[j] = NoPending)'
    BY <1>1, <1>2, <1>3, <1>4 DEF LiveInv
  <2> QED
    BY <2>1, <2>2, <2>3, <2>4 DEF LiveInv
<1>22. RefInv'
  <2>1. Waiters(own)' = Waiters(own) \cup {k} /\ k \notin Waiters(own)
    BY <1>1, <1>2, <1>3, <1>5 DEF Waiters
  <2>2. \A j \in Caller \ {own} : Waiters(j)' = Waiters(j) /\ pend'[j].refs = pend[j].refs
    BY <1>1, <1>2, <1>4, <1>5 DEF Waiters
  <2>3. Cardinality(Waiters(own)') = Cardinality(Waiters(own)) + 1
    BY <2>1, WaitersAreFinite, FS_AddElement
  <2>4. pend'[own].refs = pend[own].refs + 1
    BY <1>1, <1>2, <1>3, <1>4
  <2> QED
    BY <1>1, <2>2, <2>3, <2>4 DEF RefInv
<1> QED
  BY <1>12, <1>13, <1>14, <1>15, <1>16, <1>17, <1>18, <1>19, <1>20, <1>21, <1>22
     DEF AffinityInv

LEMMA KickStep ==
  ASSUME AffinityInv, NEW k \in Caller, NEW own \in Caller, use[k] = own, Kick(k)
  PROVE  AffinityInv'
<1>. USE NoneAssumption
<1>. USE DEF OnCpu
<1>1. /\ TypeOK /\ WorksOK /\ EnableInv /\ PinInv /\ PushInv /\ MaskInv
      /\ StopInv /\ OneInv /\ EndInv /\ LiveInv /\ RefInv
  BY DEF AffinityInv
<1>2. /\ pc[k] = "kick" /\ pc' = [pc EXCEPT ![k] = "wait"]
      /\ kick' = [kick EXCEPT ![k] = None]
      /\ Stop(kick[k], MigrateWork(own))
      /\ UNCHANGED <<cpu, run, cpus_mask, cpus_ptr, migration_disabled,
                     migration_pending, mdf_push, enable, exec, nr_pinned, push_busy,
                     pend, use, stopper, hp, downs, lapsed>>
  BY <1>1 DEF Kick, Goes, pVars, rqVars, otherVars
<1>3. /\ cpu \in CPU
      /\ migration_pending \in Caller \cup {None}
      /\ pc \in [Caller -> {"idle", "kick", "complete", "complete_return", "wait", "own"}]
      /\ kick \in [Caller -> CPU \cup {None}]
  BY <1>1 DEF TypeOK
<1>4. Installed(own) /\ kick[k] \in CPU
  BY <1>1, <1>2 DEF StopInv
<1>5. WorksGrow
  BY <1>1, <1>2, <1>4, MigrateAdds
<1>6. PICK place \in Nat : Adds(kick[k], "migration_cpu_stop", own, place)
  BY <1>1, <1>2, <1>4, MigrateAdds
<1>7. Pinned' <=> Pinned
  BY <1>1, <1>2 DEF Pinned
<1>8. HandsKept
  BY <1>1, <1>2, StoppersKept
<1>. USE DEF Adds, HandsKept
<1>9. TypeOK'
  BY <1>1, <1>2 DEF TypeOK
<1>10. WorksOK'
  <2>1. (works \in [CPU -> Seq(Work)])'
    BY <1>1, <1>2, <1>5 DEF WorksOK, WorksGrow
  <2>2. (stopper \in [CPU -> {Idle} \cup Work \cup Unlocked])'
    BY <1>1, <1>2 DEF WorksOK
  <2> QED
    BY <2>1, <2>2 DEF WorksOK
<1>11. EnableInv'
  BY <1>1, <1>2, <1>5, <1>7 DEF EnableInv, WorksGrow
<1>12. PinInv'
  BY <1>1, <1>2, PinFrame
<1>13. PushInv'
  <2>1. PushQueued'
    BY <1>1, <1>2, <1>6, <1>7 DEF PushInv, PushQueued
  <2>2. PushAwaited'
    <3>1. enable'.at = "push" => enable.at = "push" /\ UNCHANGED cpu
      BY <1>1, <1>2 DEF EnableInv
    <3>2. NoNewPush
      BY <1>2, <1>6 DEF NoNewPush
    <3> QED
      BY <1>1, <3>1, <3>2, AwaitedKept DEF PushInv, TypeOK
  <2> QED
    BY <2>1, <2>2 DEF PushInv, PushQueued, PushAwaited
<1>14. MaskInv'
  BY <1>1, <1>2, MaskFrame
<1>15. StopInv'
  <2>1. \A j \in Caller : /\ Installed(j)' <=> Installed(j)
                          /\ pc'[j] = "kick" => pc[j] = "kick" /\ kick'[j] = kick[j]
    BY <1>2, <1>3 DEF Installed
  <2>2. enable.at = "kick" => migration_pending # None /\ Installed(migration_pending)'
    BY <1>1, <1>2 DEF StopInv, Installed
  <2>3. \A d \in CPU, n \in Nat, j \in Caller : InQueue(d, n, j)' => Installed(j)
    BY <1>1, <1>4, <1>6 DEF StopInv
  <2>4. \A j \in Caller : pend'[j].stop_pending => migration_pending' = j
    BY <1>1, <1>2 DEF StopInv
  <2>5. \A j \in Caller : pc'[j] = "kick" => Installed(use[j])' /\ kick'[j] \in CPU
    BY <1>1, <1>2, <1>3 DEF StopInv, Installed
  <2>6. \A d \in CPU, j \in Caller : InHand(d, j)' => Installed(j)'
    BY <1>1, <1>8, <2>1 DEF StopInv
  <2>7. enable' = enable /\ migration_pending' = migration_pending
    BY <1>2
  <2> QED
    BY <2>1, <2>2, <2>3, <2>4, <2>5, <2>6, <2>7 DEF StopInv
<1>16. OneInv'
  BY <1>1, <1>2, <1>3, <1>6, <1>8 DEF OneInv
<1>17. EndInv'
  BY <1>1, <1>2, <1>8 DEF EndInv, EndOnce, EnableEndsOnce, CallerEnds, EnableEnds, Waiting
<1>18. LiveInv'
  BY <1>1, <1>2 DEF LiveInv
<1>19. RefInv'
  <2>1. \A j \in Caller : Waiters(j)' = Waiters(j)
    BY <1>1, <1>2 DEF Waiters
  <2>2. \A j \in Caller : pend'[j].refs = pend[j].refs
    BY <1>1, <1>2
  <2> QED
    BY <1>1, <2>1, <2>2 DEF RefInv
<1> QED
  BY <1>9, <1>10, <1>11, <1>12, <1>13, <1>14, <1>15, <1>16, <1>17, <1>18, <1>19
     DEF AffinityInv

LEMMA CompleteStep ==
  ASSUME AffinityInv, NEW k \in Caller, NEW own \in Caller, use[k] = own, Complete(k),
         pc[k] = "complete"
  PROVE  AffinityInv'
<1>. USE NoneAssumption
<1>. USE DEF OnCpu
<1>1. /\ TypeOK /\ WorksOK /\ EnableInv /\ PinInv /\ PushInv /\ MaskInv
      /\ StopInv /\ OneInv /\ EndInv /\ LiveInv /\ RefInv
  BY DEF AffinityInv
<1>2. /\ pc[k] = "complete" /\ pc' = [pc EXCEPT ![k] = "wait"]
      /\ pend' = [pend EXCEPT ![own].done = TRUE]
      /\ UNCHANGED <<cpu, run, cpus_mask, cpus_ptr, migration_disabled,
                     migration_pending, mdf_push, enable, exec, nr_pinned, push_busy,
                     use, kick, works, stopper, hp, downs, lapsed>>
  BY <1>1 DEF Complete, Goes, pVars, rqVars, stopVars, otherVars
<1>3. /\ cpu \in CPU
      /\ migration_pending \in Caller \cup {None}
      /\ pend \in [Caller -> Request]
      /\ pc \in [Caller -> {"idle", "kick", "complete", "complete_return", "wait", "own"}]
  BY <1>1 DEF TypeOK
<1>4. Pinned' <=> Pinned
  BY <1>1, <1>2 DEF Pinned
<1>5. QueuesKept
  BY <1>1, <1>2, WorksKept
<1>6. HandsKept
  BY <1>1, <1>2, StoppersKept
<1>7. pend' \in [Caller -> Request]
  <2>1. PICK p \in Request : p = pend[own]
    BY <1>3
  <2>2. [p EXCEPT !.done = TRUE] \in Request
    BY DEF Request
  <2>3. pend' = [pend EXCEPT ![own] = [p EXCEPT !.done = TRUE]]
    BY <1>2, <2>1
  <2> QED
    BY <1>3, <2>2, <2>3
<1>. USE DEF QueuesKept, HandsKept
<1>8. TypeOK'
  BY <1>1, <1>2, <1>7 DEF TypeOK
<1>9. WorksOK'
  BY <1>1, <1>2, WorksFrame
<1>10. EnableInv'
  BY <1>1, <1>2, EnableFrame
<1>11. PinInv'
  BY <1>1, <1>2, PinFrame
<1>12. PushInv'
  BY <1>1, <1>2, PushFrame
<1>13. MaskInv'
  BY <1>1, <1>2, <1>4 DEF MaskInv
<1>14. StopInv'
  BY <1>1, <1>2, <1>5, <1>6 DEF StopInv, Installed
<1>15. OneInv'
  BY <1>1, <1>2, <1>5, <1>6 DEF OneInv
<1>16. EndInv'
  BY <1>1, <1>2, <1>3, <1>6 DEF EndInv, EndOnce, EnableEndsOnce, CallerEnds, EnableEnds,
     Waiting
<1>17. LiveInv'
  <2>1. (\A j \in Caller : use[j] = None <=> pc[j] \in {"idle", "own"})'
    BY <1>1, <1>2 DEF LiveInv
  <2>2. (\A j \in Caller : migration_pending = j =>
        use[j] = j /\ pc[j] \in {"kick", "wait"} /\ ~pend[j].done)'
    BY <1>1, <1>2 DEF LiveInv, EndInv, EndOnce, EnableEndsOnce, CallerEnds, EnableEnds,
       Waiting
  <2>3. (\A i, j \in Caller : use[i] = j => use[j] = j \/ (pc[j] = "own" /\ pend[j].done))'
    BY <1>1, <1>2 DEF LiveInv
  <2>4. (\A j \in Caller : use[j] # j /\ pc[j] # "own" => pend[j] = NoPending)'
    BY <1>1, <1>2 DEF LiveInv
  <2> QED
    BY <2>1, <2>2, <2>3, <2>4 DEF LiveInv
<1>18. RefInv'
  <2>1. \A j \in Caller : Waiters(j)' = Waiters(j)
    BY <1>1, <1>2 DEF Waiters
  <2>2. \A j \in Caller : pend'[j].refs = pend[j].refs
    BY <1>1, <1>2
  <2> QED
    BY <1>1, <2>1, <2>2 DEF RefInv
<1> QED
  BY <1>8, <1>9, <1>10, <1>11, <1>12, <1>13, <1>14, <1>15, <1>16, <1>17, <1>18
     DEF AffinityInv

LEMMA CompleteReturnStep ==
  ASSUME AffinityInv, NEW k \in Caller, NEW own \in Caller, use[k] = own, Complete(k),
         pc[k] = "complete_return"
  PROVE  AffinityInv'
<1>. USE NoneAssumption
<1>. USE DEF OnCpu
<1>1. /\ TypeOK /\ WorksOK /\ EnableInv /\ PinInv /\ PushInv /\ MaskInv
      /\ StopInv /\ OneInv /\ EndInv /\ LiveInv /\ RefInv
  BY DEF AffinityInv
<1>2. /\ pc[k] = "complete_return" /\ pc' = [pc EXCEPT ![k] = "idle"]
      /\ pend' = [pend EXCEPT ![own].done = TRUE] /\ use' = [use EXCEPT ![k] = None]
      /\ UNCHANGED <<cpu, run, cpus_mask, cpus_ptr, migration_disabled,
                     migration_pending, mdf_push, enable, exec, nr_pinned, push_busy,
                     kick, works, stopper, hp, downs, lapsed>>
  BY <1>1 DEF Complete, Goes, pVars, rqVars, stopVars, otherVars
<1>3. /\ cpu \in CPU
      /\ migration_pending \in Caller \cup {None}
      /\ pend \in [Caller -> Request]
      /\ pc \in [Caller -> {"idle", "kick", "complete", "complete_return", "wait", "own"}]
      /\ use \in [Caller -> Caller \cup {None}]
  BY <1>1 DEF TypeOK
<1>4. Pinned' <=> Pinned
  BY <1>1, <1>2 DEF Pinned
<1>5. QueuesKept
  BY <1>1, <1>2, WorksKept
<1>6. HandsKept
  BY <1>1, <1>2, StoppersKept
<1>7. pend' \in [Caller -> Request]
  <2>1. PICK p \in Request : p = pend[own]
    BY <1>3
  <2>2. [p EXCEPT !.done = TRUE] \in Request
    BY DEF Request
  <2>3. pend' = [pend EXCEPT ![own] = [p EXCEPT !.done = TRUE]]
    BY <1>2, <2>1
  <2> QED
    BY <1>3, <2>2, <2>3
<1>. USE DEF QueuesKept, HandsKept
<1>8. TypeOK'
  BY <1>1, <1>2, <1>7 DEF TypeOK
<1>9. WorksOK'
  BY <1>1, <1>2, WorksFrame
<1>10. EnableInv'
  BY <1>1, <1>2, EnableFrame
<1>11. PinInv'
  BY <1>1, <1>2, PinFrame
<1>12. PushInv'
  BY <1>1, <1>2, PushFrame
<1>13. MaskInv'
  BY <1>1, <1>2, <1>4 DEF MaskInv
<1>14. StopInv'
  BY <1>1, <1>2, <1>5, <1>6 DEF StopInv, Installed
<1>15. OneInv'
  BY <1>1, <1>2, <1>5, <1>6 DEF OneInv
<1>16. EndInv'
  BY <1>1, <1>2, <1>3, <1>6 DEF EndInv, EndOnce, EnableEndsOnce, CallerEnds, EnableEnds,
     Waiting
<1>17. LiveInv'
  <2>1. (\A j \in Caller : use[j] = None <=> pc[j] \in {"idle", "own"})'
    BY <1>1, <1>2, <1>3 DEF LiveInv
  <2>2. (\A j \in Caller : migration_pending = j =>
        use[j] = j /\ pc[j] \in {"kick", "wait"} /\ ~pend[j].done)'
    BY <1>1, <1>2 DEF LiveInv, EndInv, EndOnce, EnableEndsOnce, CallerEnds, EnableEnds,
       Waiting
  <2>3. (\A i, j \in Caller : use[i] = j => use[j] = j \/ (pc[j] = "own" /\ pend[j].done))'
    BY <1>1, <1>2 DEF LiveInv, EndInv, EndOnce, EnableEndsOnce, CallerEnds
  <2>4. (\A j \in Caller : use[j] # j /\ pc[j] # "own" => pend[j] = NoPending)'
    BY <1>1, <1>2 DEF LiveInv, EndInv, EndOnce, EnableEndsOnce, CallerEnds
  <2> QED
    BY <2>1, <2>2, <2>3, <2>4 DEF LiveInv
<1>18. RefInv'
  <2>1. \A j \in Caller : Waiters(j)' = Waiters(j)
    BY <1>1, <1>2, <1>3 DEF Waiters
  <2>2. \A j \in Caller : pend'[j].refs = pend[j].refs
    BY <1>1, <1>2
  <2> QED
    BY <1>1, <2>1, <2>2 DEF RefInv
<1> QED
  BY <1>8, <1>9, <1>10, <1>11, <1>12, <1>13, <1>14, <1>15, <1>16, <1>17, <1>18
     DEF AffinityInv

LEMMA WaitStep ==
  ASSUME AffinityInv, NEW k \in Caller, NEW own \in Caller, use[k] = own, Wait(k)
  PROVE  AffinityInv'
<1>. USE NoneAssumption
<1>. USE DEF OnCpu
<1>1. /\ TypeOK /\ WorksOK /\ EnableInv /\ PinInv /\ PushInv /\ MaskInv
      /\ StopInv /\ OneInv /\ EndInv /\ LiveInv /\ RefInv
  BY DEF AffinityInv
<1>2. /\ pc[k] = "wait" /\ pc' = [pc EXCEPT ![k] = "own"] /\ pend[own].done
      /\ pend' = [pend EXCEPT ![own].refs = @ - 1] /\ use' = [use EXCEPT ![k] = None]
      /\ UNCHANGED <<cpu, run, cpus_mask, cpus_ptr, migration_disabled,
                     migration_pending, mdf_push, enable, exec, nr_pinned, push_busy,
                     kick, works, stopper, hp, downs, lapsed>>
  BY <1>1 DEF Wait, Goes, pVars, rqVars, stopVars, otherVars
<1>3. /\ cpu \in CPU
      /\ migration_pending \in Caller \cup {None}
      /\ pend \in [Caller -> Request]
      /\ pc \in [Caller -> {"idle", "kick", "complete", "complete_return", "wait", "own"}]
      /\ use \in [Caller -> Caller \cup {None}]
  BY <1>1 DEF TypeOK
<1>4. pend[own].refs > 0
  <2>1. k \in Waiters(own)
    BY <1>1, <1>2 DEF Waiters
  <2>2. Cardinality(Waiters(own)) # 0
    BY <2>1, WaitersAreFinite, FS_EmptySet
  <2> QED
    BY <1>1, <1>2, <1>3, <2>2, WaitersAreFinite DEF RefInv
<1>5. Pinned' <=> Pinned
  BY <1>1, <1>2 DEF Pinned
<1>6. QueuesKept
  BY <1>1, <1>2, WorksKept
<1>7. HandsKept
  BY <1>1, <1>2, StoppersKept
<1>8. pend' \in [Caller -> Request]
  <2>1. pend[own].refs - 1 \in Nat
    BY <1>3, <1>4 DEF Request
  <2> QED
    BY <1>2, <1>3, <2>1 DEF Request
<1>. USE DEF QueuesKept, HandsKept
<1>9. TypeOK'
  BY <1>1, <1>2, <1>8 DEF TypeOK
<1>10. WorksOK'
  BY <1>1, <1>2, WorksFrame
<1>11. EnableInv'
  BY <1>1, <1>2, EnableFrame
<1>12. PinInv'
  BY <1>1, <1>2, PinFrame
<1>13. PushInv'
  BY <1>1, <1>2, PushFrame
<1>14. MaskInv'
  BY <1>1, <1>2, <1>5 DEF MaskInv
<1>15. StopInv'
  BY <1>1, <1>2, <1>6, <1>7 DEF StopInv, Installed
<1>16. OneInv'
  BY <1>1, <1>2, <1>6, <1>7 DEF OneInv
<1>17. EndInv'
  BY <1>1, <1>2, <1>7 DEF EndInv, EndOnce, EnableEndsOnce, CallerEnds, EnableEnds, Waiting
<1>18. LiveInv'
  BY <1>1, <1>2, <1>3 DEF LiveInv
<1>19. RefInv'
  <2>1. Waiters(own)' = Waiters(own) \ {k} /\ k \in Waiters(own)
    BY <1>1, <1>2, <1>3 DEF Waiters
  <2>2. \A j \in Caller \ {own} : Waiters(j)' = Waiters(j) /\ pend'[j].refs = pend[j].refs
    BY <1>1, <1>2 DEF Waiters
  <2>3. Cardinality(Waiters(own)') = Cardinality(Waiters(own)) - 1
    BY <2>1, WaitersAreFinite, FS_RemoveElement
  <2>4. pend'[own].refs = pend[own].refs - 1
    BY <1>1, <1>2, <1>8
  <2> QED
    BY <1>1, <2>2, <2>3, <2>4 DEF RefInv
<1> QED
  BY <1>9, <1>10, <1>11, <1>12, <1>13, <1>14, <1>15, <1>16, <1>17, <1>18, <1>19
     DEF AffinityInv

LEMMA OwnStep ==
  ASSUME AffinityInv, NEW k \in Caller, Own(k)
  PROVE  AffinityInv'
<1>. USE NoneAssumption
<1>. USE DEF OnCpu
<1>1. /\ TypeOK /\ WorksOK /\ EnableInv /\ PinInv /\ PushInv /\ MaskInv
      /\ StopInv /\ OneInv /\ EndInv /\ LiveInv /\ RefInv
  BY DEF AffinityInv
<1>2. /\ pc[k] = "own" /\ pc' = [pc EXCEPT ![k] = "idle"] /\ pend[k].refs = 0
      /\ pend' = [pend EXCEPT ![k] = NoPending]
      /\ UNCHANGED <<cpu, run, cpus_mask, cpus_ptr, migration_disabled,
                     migration_pending, mdf_push, enable, exec, nr_pinned, push_busy,
                     use, kick, works, stopper, hp, downs, lapsed>>
  BY <1>1 DEF Own, Released, Goes, pVars, rqVars, stopVars, otherVars
<1>3. /\ cpu \in CPU
      /\ migration_pending \in Caller \cup {None}
      /\ pend \in [Caller -> Request]
      /\ pc \in [Caller -> {"idle", "kick", "complete", "complete_return", "wait", "own"}]
  BY <1>1 DEF TypeOK
<1>4. NoPending.refs = 0 /\ ~NoPending.stop_pending
  BY <1>1, <1>2 DEF NoPending
<1>5. \A j \in Caller : use[j] # k
  <2>1. Waiters(k) = {}
    BY <1>1, <1>2, WaitersAreFinite, FS_EmptySet DEF RefInv
  <2>2. \A j \in Caller : ~CallerEnds(j, k)
    BY <1>1, <1>2 DEF EndInv, EndOnce, EnableEndsOnce
  <2> QED
    BY <1>1, <1>2, <1>3, <2>1, <2>2 DEF Waiters, CallerEnds
<1>6. Pinned' <=> Pinned
  BY <1>1, <1>2 DEF Pinned
<1>7. QueuesKept
  BY <1>1, <1>2, WorksKept
<1>8. HandsKept
  BY <1>1, <1>2, StoppersKept
<1>9. pend' \in [Caller -> Request]
  BY <1>2, <1>3 DEF Request, NoPending
<1>. USE DEF QueuesKept, HandsKept
<1>10. TypeOK'
  BY <1>1, <1>2, <1>9 DEF TypeOK
<1>11. WorksOK'
  BY <1>1, <1>2, WorksFrame
<1>12. EnableInv'
  BY <1>1, <1>2, EnableFrame
<1>13. PinInv'
  BY <1>1, <1>2, PinFrame
<1>14. PushInv'
  BY <1>1, <1>2, PushFrame
<1>15. MaskInv'
  <2>1. (lapsed = {} /\ cpu \notin cpus_mask =>
           (run # "blocked" \/ Pinned => migration_pending # None))'
    BY <1>1, <1>2, <1>6 DEF MaskInv
  <2>2. (lapsed = {} /\ cpu \notin cpus_mask =>
           (migration_pending # None => pend[migration_pending].dest \in cpus_mask))'
    BY <1>1, <1>2 DEF MaskInv, LiveInv
  <2> QED
    BY <2>1, <2>2 DEF MaskInv
<1>16. StopInv'
  BY <1>1, <1>2, <1>4, <1>7, <1>8 DEF StopInv, Installed, LiveInv
<1>17. OneInv'
  BY <1>1, <1>2, <1>7, <1>8 DEF OneInv
<1>18. EndInv'
  BY <1>1, <1>2, <1>8 DEF EndInv, EndOnce, EnableEndsOnce, CallerEnds, EnableEnds, Waiting
<1>19. LiveInv'
  BY <1>1, <1>2, <1>3, <1>5 DEF LiveInv
<1>20. RefInv'
  <2>1. \A j \in Caller : Waiters(j)' = Waiters(j)
    BY <1>1, <1>2 DEF Waiters
  <2>2. \A j \in Caller : pend'[j].refs = pend[j].refs
    BY <1>1, <1>2, <1>4
  <2> QED
    BY <1>1, <2>1, <2>2 DEF RefInv
<1> QED
  BY <1>10, <1>11, <1>12, <1>13, <1>14, <1>15, <1>16, <1>17, <1>18, <1>19, <1>20
     DEF AffinityInv

LEMMA StopperStartStep ==
  ASSUME AffinityInv, NEW c \in CPU, StopperStart(c)
  PROVE  AffinityInv'
<1>. USE NoneAssumption
<1>. USE DEF OnCpu
<1>1. /\ TypeOK /\ WorksOK /\ EnableInv /\ PinInv /\ PushInv /\ MaskInv
      /\ StopInv /\ OneInv /\ EndInv /\ LiveInv /\ RefInv
  BY DEF AffinityInv
<1>2. /\ works[c] # <<>> /\ stopper[c] = Idle /\ ~(OnCpu /\ cpu = c)
      /\ stopper' = [stopper EXCEPT ![c] = Head(works[c])]
      /\ works' = [works EXCEPT ![c] = Tail(@)]
      /\ run' \in {run} \cup IF run = "waking" THEN {"queued"} ELSE {}
      /\ UNCHANGED <<cpu, cpus_mask, cpus_ptr, migration_disabled, migration_pending,
                     mdf_push, enable, exec, nr_pinned, push_busy, pend, pc, use,
                     kick, hp, downs, lapsed>>
  BY <1>1 DEF StopperStart, rqVars, callVars, otherVars
<1>3. works' \in [CPU -> Seq(Work)] /\ \A d \in CPU \ {c} : works'[d] = works[d]
  BY <1>1, <1>2, StopperTakes
<1>4. PICK s \in [Nat -> Nat] : Shifts(c, s)
  BY <1>1, <1>2, StopperTakes
<1>5. PICK w \in Work :
      /\ Holds(c, w.fn, w.own) /\ stopper'[c] # Idle
      /\ \A f : w.fn = f => Lists(c, 1, f)
      /\ \A j : w.own = j => InQueue(c, 1, j)
  BY <1>1, <1>2, StopperTakes
<1>6. w.fn \notin {"complete", "chase"}
  BY DEF Work
<1>7. AlwaysReset' <=> AlwaysReset
  BY <1>1, <1>2 DEF AlwaysReset
<1>8. Pinned' <=> Pinned
  BY <1>1, <1>2 DEF Pinned
<1>. USE DEF Shifts, Holds
<1>9. TypeOK'
  BY <1>1, <1>2 DEF TypeOK
<1>10. WorksOK'
  BY <1>1, <1>2, <1>3, <1>7, SMTT(20) DEF WorksOK
<1>11. EnableInv'
  BY <1>1, <1>2, <1>4, <1>8 DEF EnableInv
<1>12. PinInv'
  BY <1>1, <1>2, <1>7, <1>8 DEF PinInv
<1>13. PushInv'
  <2>1. (\A d \in CPU, n \in Nat : Lists(d, n, "push_cpu_stop") => push_busy[d])'
    BY <1>1, <1>2, <1>4 DEF PushInv, PushQueued, PushAwaited
  <2>2. (\A d \in CPU : stopper[d].fn = "push_cpu_stop" => push_busy[d])'
    <3>1. stopper'[c].fn = "push_cpu_stop" => Lists(c, 1, "push_cpu_stop")
      BY <1>5
    <3>2. \A d \in CPU \ {c} : stopper'[d] = stopper[d]
      BY <1>5
    <3> QED
      BY <1>1, <1>2, <3>1, <3>2 DEF PushInv, PushQueued, PushAwaited
  <2>3. (\A d \in CPU, n \in Nat : Lists(d, n, "push_cpu_stop")
           => stopper[d].fn # "push_cpu_stop")'
    <3> SUFFICES ASSUME NEW d \in CPU, NEW n \in Nat, Lists(d, n, "push_cpu_stop")'
                 PROVE  stopper'[d].fn # "push_cpu_stop"
      OBVIOUS
    <3>1. CASE d = c
      <4>1. Lists(c, s[n], "push_cpu_stop") /\ s[n] \in Nat /\ s[n] # 1
        BY <1>4, <3>1
      <4>2. ~Lists(c, 1, "push_cpu_stop")
        BY <1>1, <4>1 DEF PushInv, PushQueued, PushAwaited
      <4> QED
        BY <1>5, <3>1, <4>2
    <3>2. CASE d # c
      BY <1>1, <1>4, <1>5, <3>2 DEF PushInv, PushQueued, PushAwaited
    <3> QED
      BY <3>1, <3>2
  <2>4. (\A d \in CPU, f \in {"push_cpu_stop", "balance_push"}, m, n \in Nat :
        Lists(d, m, f) /\ Lists(d, n, f) => m = n)'
    <3> SUFFICES ASSUME NEW d \in CPU, NEW f \in {"push_cpu_stop", "balance_push"},
                        NEW m \in Nat, NEW n \in Nat, Lists(d, m, f)', Lists(d, n, f)'
                 PROVE  m = n
      OBVIOUS
    <3>1. CASE d = c
      <4>1. Lists(c, s[m], f) /\ Lists(c, s[n], f) /\ s[m] \in Nat /\ s[n] \in Nat
        BY <1>4, <3>1
      <4> QED
        BY <1>1, <1>4 DEF PushInv, PushQueued, PushAwaited
    <3>2. CASE d # c
      BY <1>1, <1>4 DEF PushInv, PushQueued, PushAwaited
    <3> QED
      BY <3>1, <3>2
  <2>5. PushAwaited'
    <3>1. enable'.at = "push" => enable.at = "push" /\ UNCHANGED cpu
      BY <1>1, <1>2 DEF EnableInv
    <3>2. NoNewPush
      BY <1>1, <1>2, <1>3, <1>4, <1>5 DEF NoNewPush, EnableInv, PushInv, PushAwaited
    <3> QED
      BY <1>1, <3>1, <3>2, AwaitedKept DEF PushInv, TypeOK
  <2> QED
    BY <2>1, <2>2, <2>3, <2>4, <2>5 DEF PushInv, PushQueued
<1>14. MaskInv'
  BY <1>1, <1>2, <1>8 DEF MaskInv
<1>15. StopInv'
  <2>1. (\A j \in Caller : pend[j].stop_pending => migration_pending = j)'
    BY <1>1, <1>2 DEF StopInv
  <2>2. (\A j \in Caller : pc[j] = "kick" => Installed(use[j]))'
    BY <1>1, <1>2 DEF StopInv, Installed
  <2>3. (\A j \in Caller : pc[j] = "kick" => kick[j] \in CPU)'
    BY <1>1, <1>2 DEF StopInv
  <2>4. (enable.at = "kick" => migration_pending # None /\ Installed(migration_pending))'
    BY <1>1, <1>2 DEF StopInv, Installed
  <2>5. (\A d \in CPU, n \in Nat, j \in Caller : InQueue(d, n, j) => Installed(j))'
    <3>1. \A d \in CPU, n \in Nat, j \in Caller : InQueue(d, n, j)'
               => \E m \in Nat : InQueue(d, m, j)
      BY <1>4
    <3> QED
      BY <1>1, <1>2, <3>1 DEF StopInv, Installed
  <2>6. (\A d \in CPU, j \in Caller : InHand(d, j) => Installed(j))'
    BY <1>1, <1>2, <1>5 DEF StopInv, Installed
  <2> QED
    BY <2>1, <2>2, <2>3, <2>4, <2>5, <2>6 DEF StopInv
<1>16. OneInv'
  <2>1. (\A i, j \in Caller : pc[i] = "kick" /\ pc[j] = "kick" => i = j)'
    BY <1>1, <1>2 DEF OneInv
  <2>2. (\A j \in Caller : pc[j] = "kick" => enable.at # "kick")'
    BY <1>1, <1>2 DEF OneInv
  <2>3. (\A i, j \in Caller, d \in CPU : pc[i] = "kick" => ~InHand(d, j))'
    <3>1. \A d \in CPU, j \in Caller : InHand(d, j)' => InHand(d, j) \/ InQueue(c, 1, j)
      BY <1>5
    <3> QED
      BY <1>1, <1>2, <3>1 DEF OneInv
  <2>4. (\A i, j \in Caller, d \in CPU, n \in Nat : pc[i] = "kick" => ~InQueue(d, n, j))'
    <3>1. \A d \in CPU, n \in Nat, j \in Caller : InQueue(d, n, j)'
               => \E m \in Nat : InQueue(d, m, j)
      BY <1>4
    <3> QED
      BY <1>1, <1>2, <3>1 DEF OneInv
  <2>5. (\A j \in Caller, d \in CPU : enable.at = "kick" => ~InHand(d, j))'
    BY <1>1, <1>2, <1>5 DEF OneInv
  <2>6. (\A j \in Caller, d \in CPU, n \in Nat : enable.at = "kick" => ~InQueue(d, n, j))'
    BY <1>1, <1>2, <1>4 DEF OneInv
  <2>7. (\A i, j \in Caller, d, e \in CPU : InHand(d, i) /\ InHand(e, j) => d = e)'
    <3>1. \A d \in CPU, i \in Caller : InHand(d, i)' =>
               IF d = c THEN InQueue(c, 1, i) ELSE InHand(d, i)
      BY <1>5
    <3> QED
      BY <1>1, <3>1 DEF OneInv
  <2>8. (\A i, j \in Caller, d, e \in CPU, n \in Nat : InHand(d, i) => ~InQueue(e, n, j))'
    <3>1. \A d \in CPU, i \in Caller : InHand(d, i)' =>
               IF d = c THEN InQueue(c, 1, i) ELSE InHand(d, i)
      BY <1>5
    <3> SUFFICES ASSUME NEW i \in Caller, NEW j \in Caller, NEW d \in CPU, NEW e \in CPU,
                        NEW n \in Nat, InHand(d, i)', InQueue(e, n, j)'
                 PROVE  FALSE
      OBVIOUS
    <3>2. \E m \in Nat : InQueue(e, m, j) /\ (e = c => m # 1)
      BY <1>4
    <3> QED
      BY <1>1, <3>1, <3>2 DEF OneInv
  <2>9. (\A i, j \in Caller, d, e \in CPU, m, n \in Nat :
        InQueue(d, m, i) /\ InQueue(e, n, j) => d = e /\ m = n)'
    <3> SUFFICES ASSUME NEW i \in Caller, NEW j \in Caller, NEW d \in CPU, NEW e \in CPU,
                        NEW m \in Nat, NEW n \in Nat, InQueue(d, m, i)', InQueue(e, n, j)'
                 PROVE  d = e /\ m = n
      OBVIOUS
    <3>1. s[m] \in Nat /\ s[n] \in Nat
      OBVIOUS
    <3>2. d = e
      BY <1>1, <1>4 DEF OneInv
    <3>3. CASE d = c
      <4>1. InQueue(c, s[m], i) /\ InQueue(c, s[n], j)
        BY <1>4, <3>2, <3>3
      <4> QED
        BY <1>1, <1>4 DEF OneInv
    <3>4. CASE d # c
      BY <1>1, <1>4 DEF OneInv
    <3> QED
      BY <3>3, <3>4
  <2> QED
    BY <2>1, <2>2, <2>3, <2>4, <2>5, <2>6, <2>7, <2>8, <2>9 DEF OneInv
<1>17. EndInv'
  <2>1. \A d \in CPU, j \in Caller : StopperEnds(d, j)' => StopperEnds(d, j)
    BY <1>5, <1>6
  <2>2. \A i, j \in Caller : (CallerEnds(i, j)' <=> CallerEnds(i, j))
             /\ (Waiting(j)' <=> Waiting(j))
    BY <1>2 DEF CallerEnds, EnableEnds, Waiting
  <2>3. \A j \in Caller : EnableEnds(j)' <=> EnableEnds(j)
    BY <1>2 DEF EnableEnds
  <2>4. EndOnce'
    BY <1>1, <1>2, <2>1, <2>2 DEF EndInv, EndOnce
  <2>5. EnableEndsOnce'
    BY <1>1, <1>2, <2>1, <2>2, <2>3 DEF EndInv, EnableEndsOnce
  <2> QED
    BY <2>4, <2>5 DEF EndInv
<1>18. LiveInv'
  BY <1>1, <1>2, LiveFrame
<1>19. RefInv'
  BY <1>1, <1>2, RefFrame
<1> QED
  BY <1>9, <1>10, <1>11, <1>12, <1>13, <1>14, <1>15, <1>16, <1>17, <1>18, <1>19
     DEF AffinityInv

LEMMA BailsAlone ==
  ASSUME AffinityInv, NEW c \in CPU, stopper[c].own = None, migration_cpu_stop(c), cpu = c,
         Pinned
  PROVE  AffinityInv'
<1>. USE NoneAssumption
<1>. USE DEF OnCpu
<1>1. /\ TypeOK /\ WorksOK /\ EnableInv /\ PinInv /\ PushInv /\ MaskInv
      /\ StopInv /\ OneInv /\ EndInv /\ LiveInv /\ RefInv
  BY DEF AffinityInv
<1>2. /\ stopper[c].fn = "migration_cpu_stop"
      /\ stopper' = [stopper EXCEPT ![c] = Idle]
      /\ exec' \in BOOLEAN
      /\ UNCHANGED <<cpu, run, cpus_mask, cpus_ptr, migration_disabled,
                     migration_pending, mdf_push, enable, nr_pinned, push_busy, pend,
                     pc, use, kick, works, hp, downs, lapsed>>
  BY <1>1 DEF migration_cpu_stop, MigrationHere, MigrationElsewhere, Bails, BailOut,
     Ends, rqVars, callVars
<1>3. Holds(c, "idle", None) /\ stopper'[c] = Idle
  BY <1>1, <1>2, StopperRests
<1>4. QueuesKept
  BY <1>1, <1>2, WorksKept
<1>. USE DEF Holds, QueuesKept
<1>5. TypeOK'
  BY <1>1, <1>2 DEF TypeOK
<1>6. WorksOK'
  BY <1>1, <1>2 DEF WorksOK
<1>7. EnableInv'
  BY <1>1, <1>2 DEF EnableInv
<1>8. PinInv'
  BY <1>1, <1>2, PinFrame
<1>9. PushInv'
  BY <1>1, <1>2, <1>3, <1>4 DEF PushInv, PushQueued, PushAwaited
<1>10. MaskInv'
  BY <1>1, <1>2, MaskFrame
<1>11. StopInv'
  BY <1>1, <1>2, <1>3, <1>4 DEF StopInv, Installed
<1>12. OneInv'
  BY <1>1, <1>2, <1>3, <1>4 DEF OneInv
<1>13. EndInv'
  BY <1>1, <1>2, <1>3 DEF EndInv, EndOnce, EnableEndsOnce, CallerEnds, EnableEnds, Waiting
<1>14. LiveInv'
  BY <1>1, <1>2, LiveFrame
<1>15. RefInv'
  BY <1>1, <1>2, RefFrame
<1> QED
  BY <1>5, <1>6, <1>7, <1>8, <1>9, <1>10, <1>11, <1>12, <1>13, <1>14, <1>15
     DEF AffinityInv

LEMMA BailsWithRequest ==
  ASSUME AffinityInv, NEW c \in CPU, NEW k \in Caller, stopper[c].own = k,
         migration_cpu_stop(c), cpu = c, Pinned
  PROVE  AffinityInv'
<1>. USE NoneAssumption
<1>. USE DEF OnCpu
<1>1. /\ TypeOK /\ WorksOK /\ EnableInv /\ PinInv /\ PushInv /\ MaskInv
      /\ StopInv /\ OneInv /\ EndInv /\ LiveInv /\ RefInv
  BY DEF AffinityInv
<1>2. /\ stopper[c].fn = "migration_cpu_stop"
      /\ stopper' = [stopper EXCEPT ![c] = Idle]
      /\ exec' \in BOOLEAN
      /\ pend' = [pend EXCEPT ![k].stop_pending = FALSE]
      /\ UNCHANGED <<cpu, run, cpus_mask, cpus_ptr, migration_disabled,
                     migration_pending, mdf_push, enable, nr_pinned, push_busy, pc,
                     use, kick, works, hp, downs, lapsed>>
  BY <1>1 DEF migration_cpu_stop, MigrationHere, MigrationElsewhere, Bails, BailOut,
     Ends, rqVars, callVars
<1>3. /\ cpu \in CPU
      /\ migration_pending \in Caller \cup {None}
      /\ pend \in [Caller -> Request]
  BY <1>1 DEF TypeOK
<1>4. InHand(c, k) /\ Installed(k)
  BY <1>1, <1>2 DEF InHand, StopInv
<1>5. NoStopWorkBut(c)
  BY <1>1, <1>2, OneUnderWay DEF InHand
<1>6. Holds(c, "idle", None) /\ stopper'[c] = Idle
  BY <1>1, <1>2, StopperRests
<1>7. QueuesKept
  BY <1>1, <1>2, WorksKept
<1>8. pend' \in [Caller -> Request]
  BY <1>2, <1>3 DEF Request
<1>. USE DEF Holds, QueuesKept, NoStopWorkBut
<1>9. TypeOK'
  BY <1>1, <1>2, <1>8 DEF TypeOK
<1>10. WorksOK'
  BY <1>1, <1>2 DEF WorksOK
<1>11. EnableInv'
  BY <1>1, <1>2 DEF EnableInv
<1>12. PinInv'
  BY <1>1, <1>2, PinFrame
<1>13. PushInv'
  BY <1>1, <1>2, <1>6, <1>7 DEF PushInv, PushQueued, PushAwaited
<1>14. MaskInv'
  BY <1>1, <1>2 DEF MaskInv
<1>15. StopInv'
  BY <1>1, <1>2, <1>5, <1>6, <1>7 DEF StopInv
<1>16. OneInv'
  BY <1>1, <1>2, <1>6, <1>7 DEF OneInv
<1>17. EndInv'
  BY <1>1, <1>2, <1>6 DEF EndInv, EndOnce, EnableEndsOnce, CallerEnds, EnableEnds, Waiting
<1>18. LiveInv'
  BY <1>1, <1>2, <1>4 DEF LiveInv, Installed
<1>19. RefInv'
  <2>1. \A j \in Caller : Waiters(j)' = Waiters(j)
    BY <1>1, <1>2 DEF Waiters
  <2>2. \A j \in Caller : pend'[j].refs = pend[j].refs
    BY <1>1, <1>2
  <2> QED
    BY <1>1, <2>1, <2>2 DEF RefInv
<1> QED
  BY <1>9, <1>10, <1>11, <1>12, <1>13, <1>14, <1>15, <1>16, <1>17, <1>18, <1>19
     DEF AffinityInv

LEMMA ExecMoves ==
  ASSUME AffinityInv, NEW c \in CPU, stopper[c].own = None, migration_cpu_stop(c), cpu = c,
         ~Pinned
  PROVE  AffinityInv'
<1>. USE NoneAssumption
<1>. USE DEF OnCpu
<1>1. /\ TypeOK /\ WorksOK /\ EnableInv /\ PinInv /\ PushInv /\ MaskInv
      /\ StopInv /\ OneInv /\ EndInv /\ LiveInv /\ RefInv
  BY DEF AffinityInv
<1>2. /\ stopper[c].fn = "migration_cpu_stop"
      /\ stopper' = [stopper EXCEPT ![c] = Idle]
      /\ exec' \in BOOLEAN
      /\ cpu' \in CPU
      /\ cpu' # cpu => run = "queued" /\ cpu' \in Ptr /\ hp[cpu'] = "up"
      /\ UNCHANGED <<run, cpus_mask, cpus_ptr, migration_disabled, migration_pending,
                     mdf_push, enable, nr_pinned, push_busy, pend, pc, use, kick,
                     works, hp, downs, lapsed>>
  BY <1>1 DEF migration_cpu_stop, MigrationHere, MigrationElsewhere, BailOut, Ends,
     MoveIfAllowed, is_cpu_allowed, cpu_active, rqVars, callVars
<1>3. Holds(c, "idle", None) /\ stopper'[c] = Idle
  BY <1>1, <1>2, StopperRests
<1>4. AlwaysReset /\ cpu' # cpu => cpu' \in cpus_mask
  BY <1>1, <1>2 DEF PinInv, Ptr
<1>5. AlwaysReset' <=> AlwaysReset
  BY <1>1, <1>2 DEF AlwaysReset
<1>6. Pinned' <=> Pinned
  BY <1>1, <1>2 DEF Pinned
<1>7. QueuesKept
  BY <1>1, <1>2, WorksKept
<1>. USE DEF Holds, QueuesKept
<1>8. TypeOK'
  BY <1>1, <1>2 DEF TypeOK
<1>9. WorksOK'
  BY <1>1, <1>2 DEF WorksOK
<1>10. EnableInv'
  BY <1>1, <1>2, <1>6 DEF EnableInv
<1>11. PinInv'
  BY <1>1, <1>2, <1>5, <1>6 DEF PinInv
<1>12. PushInv'
  <2>1. PushQueued'
    BY <1>1, <1>2, <1>3, <1>7 DEF PushInv, PushQueued
  <2>2. PushAwaited'
    BY <1>1, <1>2, <1>3, <1>7 DEF EnableInv, PushInv, PushAwaited
  <2> QED
    BY <2>1, <2>2 DEF PushInv, PushQueued, PushAwaited
<1>13. MaskInv'
  BY <1>1, <1>2, <1>4, <1>6 DEF MaskInv, AlwaysReset
<1>14. StopInv'
  BY <1>1, <1>2, <1>3, <1>7 DEF StopInv, Installed
<1>15. OneInv'
  BY <1>1, <1>2, <1>3, <1>7 DEF OneInv
<1>16. EndInv'
  BY <1>1, <1>2, <1>3 DEF EndInv, EndOnce, EnableEndsOnce, CallerEnds, EnableEnds, Waiting
<1>17. LiveInv'
  BY <1>1, <1>2, LiveFrame
<1>18. RefInv'
  BY <1>1, <1>2, RefFrame
<1> QED
  BY <1>8, <1>9, <1>10, <1>11, <1>12, <1>13, <1>14, <1>15, <1>16, <1>17, <1>18
     DEF AffinityInv

LEMMA RequestMoves ==
  ASSUME AffinityInv, NEW c \in CPU, NEW k \in Caller, stopper[c].own = k,
         migration_cpu_stop(c), cpu = c, ~Pinned
  PROVE  AffinityInv'
<1>. USE NoneAssumption
<1>. USE DEF OnCpu
<1>1. /\ TypeOK /\ WorksOK /\ EnableInv /\ PinInv /\ PushInv /\ MaskInv
      /\ StopInv /\ OneInv /\ EndInv /\ LiveInv /\ RefInv
  BY DEF AffinityInv
<1>2. /\ stopper[c].fn = "migration_cpu_stop" /\ cpu = c
      /\ exec' \in BOOLEAN
      /\ cpu' = IF cpu \in cpus_mask THEN cpu
             ELSE IF run = "queued" /\ is_cpu_allowed(pend[k].dest) THEN pend[k].dest ELSE cpu
      /\ migration_pending' = None /\ pend' = [pend EXCEPT ![k].stop_pending = FALSE]
      /\ stopper' = [stopper EXCEPT ![c].fn = "complete"]
      /\ UNCHANGED <<run, cpus_mask, cpus_ptr, migration_disabled, mdf_push, enable,
                     nr_pinned, push_busy, pc, use, kick, works, hp, downs>>
  BY <1>1 DEF migration_cpu_stop, MigrationHere, MigrationElsewhere, Bails, Then,
     Finish, MoveIfAllowed, rqVars, callVars
<1>3. /\ cpu \in CPU
      /\ migration_pending \in Caller \cup {None}
      /\ pend \in [Caller -> Request]
  BY <1>1 DEF TypeOK
<1>4. Finish(c, k)
  BY <1>1 DEF migration_cpu_stop, MigrationHere, MigrationElsewhere, Bails
<1>5. lapsed \subseteq lapsed' /\ lapsed' \subseteq lapsed \cup {"pinned", "waking",
        "not moved"}
  BY <1>4 DEF Finish
<1>6. AlwaysReset' <=> AlwaysReset
  BY <1>5 DEF AlwaysReset
<1>7. lapsed' \subseteq {"not reset", "pinned", "waking", "not moved"}
  BY <1>1, <1>5 DEF TypeOK
<1>8. lapsed' = {} =>
        lapsed = {} /\ (cpu \notin cpus_mask
          => run # "waking" /\ hp[pend[k].dest] = "up" /\ pend[k].dest \in CPU)
  BY <1>4, <1>1 DEF TypeOK, Finish, cpu_active
<1>9. InHand(c, k) /\ Installed(k)
  BY <1>1, <1>2 DEF InHand, StopInv
<1>10. NoStopWorkBut(c)
  BY <1>1, <1>2, OneUnderWay DEF InHand
<1>11. Holds(c, "complete", k)
  BY <1>1, <1>2, StopperGoesOn
<1>12. stopper[c] # Idle
  BY <1>1, <1>2 DEF Idle, NoWork
<1>13. ~OnCpu
  BY <1>1, <1>2 DEF EnableInv, Idle, NoWork
<1>14. cpu' \in CPU /\ (cpu' # cpu => run = "queued" /\ cpu' \in Ptr /\ hp[cpu'] = "up")
  BY <1>1, <1>2 DEF is_cpu_allowed, cpu_active
<1>15. Pinned' <=> Pinned
  BY <1>1, <1>2 DEF Pinned
<1>16. QueuesKept
  BY <1>1, <1>2, WorksKept
<1>17. pend' \in [Caller -> Request]
  BY <1>2, <1>3 DEF Request
<1>. USE DEF Holds, QueuesKept, NoStopWorkBut
<1>18. TypeOK'
  BY <1>1, <1>2, <1>7, <1>14, <1>17 DEF TypeOK
<1>19. WorksOK'
  BY <1>1, <1>2, <1>11 DEF WorksOK
<1>20. EnableInv'
  BY <1>1, <1>2, <1>12 DEF EnableInv
<1>21. PinInv'
  BY <1>1, <1>2, <1>6, <1>14, <1>15 DEF PinInv
<1>22. PushInv'
  <2>1. PushQueued'
    BY <1>1, <1>2, <1>16 DEF PushInv, PushQueued
  <2>2. PushAwaited'
    BY <1>1, <1>2, <1>16 DEF EnableInv, PushInv, PushAwaited
  <2> QED
    BY <2>1, <2>2 DEF PushInv, PushQueued, PushAwaited
<1>23. MaskInv'
  <2>1. (lapsed = {} /\ cpu \notin cpus_mask =>
           (run # "blocked" \/ Pinned => migration_pending # None))'
    <3> SUFFICES ASSUME lapsed' = {}, run' # "blocked", cpu' \notin cpus_mask'
                 PROVE  FALSE
      BY <1>15
    <3>1. cpu \notin cpus_mask
      BY <1>2
    <3>2. lapsed = {} /\ run = "queued" /\ hp[pend[k].dest] = "up" /\ pend[k].dest \in CPU
      BY <1>1, <1>2, <1>8, <1>13 DEF TypeOK
    <3>3. migration_pending = k /\ pend[k].dest \in cpus_mask
      BY <1>1, <1>2, <1>9, <3>2 DEF MaskInv, Installed
    <3>4. Ptr = cpus_mask
      BY <1>1, <3>2 DEF PinInv, AlwaysReset, Ptr
    <3>5. is_cpu_allowed(pend[k].dest)
      BY <3>2, <3>3, <3>4 DEF is_cpu_allowed, cpu_active
    <3> QED
      BY <1>2, <3>2, <3>3, <3>5
  <2>2. (lapsed = {} /\ cpu \notin cpus_mask =>
           (migration_pending # None => pend[migration_pending].dest \in cpus_mask))'
    BY <1>1, <1>2 DEF MaskInv
  <2> QED
    BY <2>1, <2>2 DEF MaskInv
<1>24. StopInv'
  BY <1>1, <1>2, <1>9, <1>10, <1>11, <1>16, <1>17 DEF StopInv, Installed
<1>25. OneInv'
  BY <1>1, <1>2, <1>11, <1>16 DEF OneInv
<1>26. EndInv'
  <2>1. (\A j \in Caller, d \in CPU : StopperEnds(d, j) => Waiting(j) /\ pc[j] = "wait")'
    BY <1>1, <1>2, <1>9, <1>10, <1>11 DEF EndInv, EndOnce, EnableEndsOnce, Waiting,
       LiveInv, Installed
  <2>2. (\A i, j \in Caller : CallerEnds(i, j)
           => Waiting(j) /\ pc[j] \in {"wait", "complete"})'
    BY <1>1, <1>2 DEF EndInv, EndOnce, EnableEndsOnce, CallerEnds, EnableEnds, Waiting
  <2>3. (\A j \in Caller, d, e \in CPU : StopperEnds(d, j) /\ StopperEnds(e, j) => d = e)'
    BY <1>1, <1>2, <1>9, <1>11 DEF EndInv, EndOnce, EnableEndsOnce, Waiting, Installed
  <2>4. (\A i, j \in Caller, d \in CPU : ~(StopperEnds(d, j) /\ CallerEnds(i, j)))'
    BY <1>1, <1>2, <1>9, <1>11 DEF EndInv, EndOnce, EnableEndsOnce, CallerEnds, Waiting,
       Installed
  <2>5. (\A h, i, j \in Caller : CallerEnds(h, j) /\ CallerEnds(i, j) => h = i)'
    BY <1>1, <1>2 DEF EndInv, EndOnce, EnableEndsOnce, CallerEnds
  <2>6. EnableEndsOnce'
    BY <1>1, <1>2, <1>3, <1>9, <1>10, <1>11 DEF EndInv, EnableEndsOnce, CallerEnds,
       EnableEnds, Waiting, LiveInv, Installed
  <2> QED
    BY <2>1, <2>2, <2>3, <2>4, <2>5, <2>6 DEF EndInv, EndOnce
<1>27. LiveInv'
  BY <1>1, <1>2, <1>9 DEF LiveInv, Installed
<1>28. RefInv'
  <2>1. \A j \in Caller : Waiters(j)' = Waiters(j)
    BY <1>2 DEF Waiters
  <2>2. \A j \in Caller : pend'[j].refs = pend[j].refs
    BY <1>2 DEF Request
  <2> QED
    BY <1>1, <2>1, <2>2 DEF RefInv
<1> QED
  BY <1>18, <1>19, <1>20, <1>21, <1>22, <1>23, <1>24, <1>25, <1>26, <1>27, <1>28
     DEF AffinityInv

LEMMA ElsewhereAlone ==
  ASSUME AffinityInv, NEW c \in CPU, stopper[c].own = None, migration_cpu_stop(c), cpu # c
  PROVE  AffinityInv'
<1>. USE NoneAssumption
<1>. USE DEF OnCpu
<1>1. /\ TypeOK /\ WorksOK /\ EnableInv /\ PinInv /\ PushInv /\ MaskInv
      /\ StopInv /\ OneInv /\ EndInv /\ LiveInv /\ RefInv
  BY DEF AffinityInv
<1>2. /\ stopper[c].fn = "migration_cpu_stop"
      /\ stopper' = [stopper EXCEPT ![c] = Idle]
      /\ exec' \in BOOLEAN
      /\ UNCHANGED <<cpu, run, cpus_mask, cpus_ptr, migration_disabled,
                     migration_pending, mdf_push, enable, nr_pinned, push_busy, pend,
                     pc, use, kick, works, hp, downs, lapsed>>
  BY <1>1 DEF migration_cpu_stop, MigrationHere, MigrationElsewhere, Ends, rqVars,
     callVars
<1>3. Holds(c, "idle", None) /\ stopper'[c] = Idle
  BY <1>1, <1>2, StopperRests
<1>4. Pinned' <=> Pinned
  BY <1>1, <1>2 DEF Pinned
<1>5. QueuesKept
  BY <1>1, <1>2, WorksKept
<1>. USE DEF Holds, QueuesKept
<1>6. TypeOK'
  BY <1>1, <1>2 DEF TypeOK
<1>7. WorksOK'
  BY <1>1, <1>2 DEF WorksOK
<1>8. EnableInv'
  BY <1>1, <1>2, <1>4 DEF EnableInv
<1>9. PinInv'
  BY <1>1, <1>2, PinFrame
<1>10. PushInv'
  <2>1. PushQueued'
    BY <1>1, <1>2, <1>3, <1>5 DEF PushInv, PushQueued
  <2>2. PushAwaited'
    <3>1. enable'.at = "push" => enable.at = "push" /\ UNCHANGED cpu
      BY <1>1, <1>2 DEF EnableInv
    <3>2. NoNewPush
      BY <1>1, <1>2, <1>3, <1>5 DEF NoNewPush, EnableInv, PushInv, PushAwaited
    <3> QED
      BY <1>1, <3>1, <3>2, AwaitedKept DEF PushInv, TypeOK
  <2> QED
    BY <2>1, <2>2 DEF PushInv, PushQueued, PushAwaited
<1>11. MaskInv'
  BY <1>1, <1>2, MaskFrame
<1>12. StopInv'
  BY <1>1, <1>2, <1>3, <1>5 DEF StopInv, Installed
<1>13. OneInv'
  BY <1>1, <1>2, <1>3, <1>5 DEF OneInv
<1>14. EndInv'
  BY <1>1, <1>2, <1>3 DEF EndInv, EndOnce, EnableEndsOnce, CallerEnds, EnableEnds, Waiting
<1>15. LiveInv'
  BY <1>1, <1>2, LiveFrame
<1>16. RefInv'
  BY <1>1, <1>2, RefFrame
<1> QED
  BY <1>6, <1>7, <1>8, <1>9, <1>10, <1>11, <1>12, <1>13, <1>14, <1>15, <1>16
     DEF AffinityInv

LEMMA ElsewhereFinishes ==
  ASSUME AffinityInv, NEW c \in CPU, NEW k \in Caller, stopper[c].own = k,
         migration_cpu_stop(c), cpu # c, cpu \in Ptr
  PROVE  AffinityInv'
<1>. USE NoneAssumption
<1>. USE DEF OnCpu
<1>1. /\ TypeOK /\ WorksOK /\ EnableInv /\ PinInv /\ PushInv /\ MaskInv
      /\ StopInv /\ OneInv /\ EndInv /\ LiveInv /\ RefInv
  BY DEF AffinityInv
<1>2. /\ stopper[c].fn = "migration_cpu_stop" /\ cpu # c /\ cpu \in Ptr
      /\ exec' \in BOOLEAN
      /\ migration_pending' = None /\ pend' = [pend EXCEPT ![k].stop_pending = FALSE]
      /\ stopper' = [stopper EXCEPT ![c].fn = "complete"]
      /\ UNCHANGED <<cpu, run, cpus_mask, cpus_ptr, migration_disabled, mdf_push,
                     enable, nr_pinned, push_busy, pc, use, kick, works, hp, downs>>
  BY <1>1 DEF migration_cpu_stop, MigrationHere, MigrationElsewhere, Then, Finish,
     rqVars, callVars
<1>3. /\ cpu \in CPU
      /\ migration_pending \in Caller \cup {None}
      /\ pend \in [Caller -> Request]
  BY <1>1 DEF TypeOK
<1>4. Finish(c, k)
  BY <1>1 DEF migration_cpu_stop, MigrationHere, MigrationElsewhere
<1>5. lapsed \subseteq lapsed' /\ lapsed' \subseteq lapsed \cup {"pinned", "waking",
        "not moved"}
  BY <1>4 DEF Finish
<1>6. AlwaysReset' <=> AlwaysReset
  BY <1>5 DEF AlwaysReset
<1>7. lapsed' \subseteq {"not reset", "pinned", "waking", "not moved"}
  BY <1>1, <1>5 DEF TypeOK
<1>8. lapsed' = {} => lapsed = {} /\ cpu \in cpus_mask
  BY <1>4 DEF Finish
<1>9. InHand(c, k) /\ Installed(k)
  BY <1>1, <1>2 DEF InHand, StopInv
<1>10. NoStopWorkBut(c)
  BY <1>1, <1>2, OneUnderWay DEF InHand
<1>11. Holds(c, "complete", k)
  BY <1>1, <1>2, StopperGoesOn
<1>12. stopper[c] # Idle
  BY <1>1, <1>2 DEF Idle, NoWork
<1>13. Pinned' <=> Pinned
  BY <1>1, <1>2 DEF Pinned
<1>14. QueuesKept
  BY <1>1, <1>2, WorksKept
<1>15. pend' \in [Caller -> Request]
  BY <1>2, <1>3 DEF Request
<1>. USE DEF Holds, QueuesKept, NoStopWorkBut
<1>16. TypeOK'
  BY <1>1, <1>2, <1>7, <1>15 DEF TypeOK
<1>17. WorksOK'
  BY <1>1, <1>2, <1>11 DEF WorksOK
<1>18. EnableInv'
  BY <1>1, <1>2, <1>12, <1>13 DEF EnableInv
<1>19. PinInv'
  BY <1>1, <1>2, <1>6, <1>13 DEF PinInv
<1>20. PushInv'
  <2>1. PushQueued'
    BY <1>1, <1>2, <1>14 DEF PushInv, PushQueued
  <2>2. PushAwaited'
    <3>1. enable'.at = "push" => enable.at = "push" /\ UNCHANGED cpu
      BY <1>1, <1>2 DEF EnableInv
    <3>2. NoNewPush
      BY <1>1, <1>2, <1>14 DEF NoNewPush, EnableInv, PushInv, PushAwaited
    <3> QED
      BY <1>1, <3>1, <3>2, AwaitedKept DEF PushInv, TypeOK
  <2> QED
    BY <2>1, <2>2 DEF PushInv, PushQueued, PushAwaited
<1>21. MaskInv'
  BY <1>1, <1>2, <1>8 DEF MaskInv
<1>22. StopInv'
  BY <1>1, <1>2, <1>9, <1>10, <1>11, <1>14, <1>15 DEF StopInv, Installed
<1>23. OneInv'
  BY <1>1, <1>2, <1>11, <1>14 DEF OneInv
<1>24. EndInv'
  <2>1. (\A j \in Caller, d \in CPU : StopperEnds(d, j) => Waiting(j) /\ pc[j] = "wait")'
    BY <1>1, <1>2, <1>9, <1>10, <1>11 DEF EndInv, EndOnce, EnableEndsOnce, Waiting,
       LiveInv, Installed
  <2>2. (\A i, j \in Caller : CallerEnds(i, j)
           => Waiting(j) /\ pc[j] \in {"wait", "complete"})'
    BY <1>1, <1>2 DEF EndInv, EndOnce, EnableEndsOnce, CallerEnds, EnableEnds, Waiting
  <2>3. (\A j \in Caller, d, e \in CPU : StopperEnds(d, j) /\ StopperEnds(e, j) => d = e)'
    BY <1>1, <1>2, <1>9, <1>11 DEF EndInv, EndOnce, EnableEndsOnce, Waiting, Installed
  <2>4. (\A i, j \in Caller, d \in CPU : ~(StopperEnds(d, j) /\ CallerEnds(i, j)))'
    BY <1>1, <1>2, <1>9, <1>11 DEF EndInv, EndOnce, EnableEndsOnce, CallerEnds, Waiting,
       Installed
  <2>5. (\A h, i, j \in Caller : CallerEnds(h, j) /\ CallerEnds(i, j) => h = i)'
    BY <1>1, <1>2 DEF EndInv, EndOnce, EnableEndsOnce, CallerEnds
  <2>6. EnableEndsOnce'
    BY <1>1, <1>2, <1>3, <1>9, <1>10, <1>11 DEF EndInv, EnableEndsOnce, CallerEnds,
       EnableEnds, Waiting, LiveInv, Installed
  <2> QED
    BY <2>1, <2>2, <2>3, <2>4, <2>5, <2>6 DEF EndInv, EndOnce
<1>25. LiveInv'
  BY <1>1, <1>2, <1>9 DEF LiveInv, Installed
<1>26. RefInv'
  <2>1. \A j \in Caller : Waiters(j)' = Waiters(j)
    BY <1>2 DEF Waiters
  <2>2. \A j \in Caller : pend'[j].refs = pend[j].refs
    BY <1>2 DEF Request
  <2> QED
    BY <1>1, <2>1, <2>2 DEF RefInv
<1> QED
  BY <1>16, <1>17, <1>18, <1>19, <1>20, <1>21, <1>22, <1>23, <1>24, <1>25, <1>26
     DEF AffinityInv

LEMMA ElsewhereChases ==
  ASSUME AffinityInv, NEW c \in CPU, NEW k \in Caller, stopper[c].own = k,
         migration_cpu_stop(c), cpu # c, cpu \notin Ptr
  PROVE  AffinityInv'
<1>. USE NoneAssumption
<1>. USE DEF OnCpu
<1>1. /\ TypeOK /\ WorksOK /\ EnableInv /\ PinInv /\ PushInv /\ MaskInv
      /\ StopInv /\ OneInv /\ EndInv /\ LiveInv /\ RefInv
  BY DEF AffinityInv
<1>2. /\ stopper[c].fn = "migration_cpu_stop"
      /\ exec' \in BOOLEAN
      /\ stopper' = [stopper EXCEPT ![c].fn = "chase"]
      /\ UNCHANGED <<cpu, run, cpus_mask, cpus_ptr, migration_disabled,
                     migration_pending, mdf_push, enable, nr_pinned, push_busy, pend,
                     pc, use, kick, works, hp, downs, lapsed>>
  BY <1>1 DEF migration_cpu_stop, MigrationHere, MigrationElsewhere, Then, rqVars,
     callVars
<1>3. InHand(c, k) /\ Installed(k)
  BY <1>1, <1>2 DEF InHand, StopInv
<1>4. NoStopWorkBut(c)
  BY <1>1, <1>2, OneUnderWay DEF InHand
<1>5. Holds(c, "chase", k)
  BY <1>1, <1>2, StopperGoesOn
<1>6. stopper[c] # Idle
  BY <1>1, <1>2 DEF Idle, NoWork
<1>7. Pinned' <=> Pinned
  BY <1>1, <1>2 DEF Pinned
<1>8. QueuesKept
  BY <1>1, <1>2, WorksKept
<1>. USE DEF Holds, QueuesKept, NoStopWorkBut
<1>9. TypeOK'
  BY <1>1, <1>2 DEF TypeOK
<1>10. WorksOK'
  BY <1>1, <1>2, <1>5 DEF WorksOK
<1>11. EnableInv'
  BY <1>1, <1>2, <1>6, <1>7 DEF EnableInv
<1>12. PinInv'
  BY <1>1, <1>2, PinFrame
<1>13. PushInv'
  <2>1. PushQueued'
    BY <1>1, <1>2, <1>8 DEF PushInv, PushQueued
  <2>2. PushAwaited'
    <3>1. enable'.at = "push" => enable.at = "push" /\ UNCHANGED cpu
      BY <1>1, <1>2 DEF EnableInv
    <3>2. NoNewPush
      BY <1>1, <1>2, <1>8 DEF NoNewPush, EnableInv, PushInv, PushAwaited
    <3> QED
      BY <1>1, <3>1, <3>2, AwaitedKept DEF PushInv, TypeOK
  <2> QED
    BY <2>1, <2>2 DEF PushInv, PushQueued, PushAwaited
<1>14. MaskInv'
  BY <1>1, <1>2, MaskFrame
<1>15. StopInv'
  BY <1>1, <1>2, <1>3, <1>5, <1>8 DEF StopInv, Installed
<1>16. OneInv'
  BY <1>1, <1>2, <1>4, <1>5, <1>8 DEF OneInv
<1>17. EndInv'
  BY <1>1, <1>2, <1>5 DEF EndInv, EndOnce, EnableEndsOnce, CallerEnds, EnableEnds, Waiting
<1>18. LiveInv'
  BY <1>1, <1>2, LiveFrame
<1>19. RefInv'
  BY <1>1, <1>2, RefFrame
<1> QED
  BY <1>9, <1>10, <1>11, <1>12, <1>13, <1>14, <1>15, <1>16, <1>17, <1>18, <1>19
     DEF AffinityInv

LEMMA StopperCompleteStep ==
  ASSUME AffinityInv, NEW c \in CPU, NEW k \in Caller, stopper[c].own = k,
         StopperComplete(c)
  PROVE  AffinityInv'
<1>. USE NoneAssumption
<1>. USE DEF OnCpu
<1>1. /\ TypeOK /\ WorksOK /\ EnableInv /\ PinInv /\ PushInv /\ MaskInv
      /\ StopInv /\ OneInv /\ EndInv /\ LiveInv /\ RefInv
  BY DEF AffinityInv
<1>2. /\ stopper[c].fn = "complete"
      /\ pend' = [pend EXCEPT ![k].done = TRUE]
      /\ stopper' = [stopper EXCEPT ![c] = Idle]
      /\ UNCHANGED <<cpu, run, cpus_mask, cpus_ptr, migration_disabled,
                     migration_pending, mdf_push, enable, exec, nr_pinned, push_busy,
                     pc, use, kick, works, hp, downs, lapsed>>
  BY <1>1 DEF StopperComplete, Ends, pVars, rqVars, callVars, otherVars
<1>3. /\ cpu \in CPU
      /\ migration_pending \in Caller \cup {None}
      /\ pend \in [Caller -> Request]
  BY <1>1 DEF TypeOK
<1>4. StopperEnds(c, k)
  BY <1>1, <1>2 DEF StopperEnds
<1>5. Holds(c, "idle", None) /\ stopper'[c] = Idle
  BY <1>1, <1>2, StopperRests
<1>6. Pinned' <=> Pinned
  BY <1>1, <1>2 DEF Pinned
<1>7. QueuesKept
  BY <1>1, <1>2, WorksKept
<1>8. pend' \in [Caller -> Request]
  BY <1>2, <1>3 DEF Request
<1>. USE DEF Holds, QueuesKept
<1>9. TypeOK'
  BY <1>1, <1>2, <1>8 DEF TypeOK
<1>10. WorksOK'
  BY <1>1, <1>2 DEF WorksOK
<1>11. EnableInv'
  BY <1>1, <1>2, <1>6 DEF EnableInv
<1>12. PinInv'
  BY <1>1, <1>2, PinFrame
<1>13. PushInv'
  <2>1. PushQueued'
    BY <1>1, <1>2, <1>5, <1>7 DEF PushInv, PushQueued
  <2>2. PushAwaited'
    <3>1. enable'.at = "push" => enable.at = "push" /\ UNCHANGED cpu
      BY <1>1, <1>2 DEF EnableInv
    <3>2. NoNewPush
      BY <1>1, <1>2, <1>5, <1>7 DEF NoNewPush, EnableInv, PushInv, PushAwaited
    <3> QED
      BY <1>1, <3>1, <3>2, AwaitedKept DEF PushInv, TypeOK
  <2> QED
    BY <2>1, <2>2 DEF PushInv, PushQueued, PushAwaited
<1>14. MaskInv'
  BY <1>1, <1>2, <1>6 DEF MaskInv
<1>15. StopInv'
  BY <1>1, <1>2, <1>5, <1>7 DEF StopInv, Installed
<1>16. OneInv'
  BY <1>1, <1>2, <1>5, <1>7 DEF OneInv
<1>17. EndInv'
  BY <1>1, <1>2, <1>4, <1>5 DEF EndInv, EndOnce, EnableEndsOnce, CallerEnds, EnableEnds,
     Waiting
<1>18. LiveInv'
  <2>1. (\A j \in Caller : use[j] = None <=> pc[j] \in {"idle", "own"})'
    BY <1>1, <1>2 DEF LiveInv
  <2>2. (\A j \in Caller : migration_pending = j =>
        use[j] = j /\ pc[j] \in {"kick", "wait"} /\ ~pend[j].done)'
    BY <1>1, <1>2, <1>4 DEF LiveInv, EndInv, EndOnce, EnableEndsOnce, Waiting
  <2>3. (\A i, j \in Caller : use[i] = j => use[j] = j \/ (pc[j] = "own" /\ pend[j].done))'
    BY <1>1, <1>2 DEF LiveInv
  <2>4. (\A j \in Caller : use[j] # j /\ pc[j] # "own" => pend[j] = NoPending)'
    BY <1>1, <1>2, <1>4 DEF LiveInv, EndInv, EndOnce, EnableEndsOnce, Waiting
  <2> QED
    BY <2>1, <2>2, <2>3, <2>4 DEF LiveInv
<1>19. RefInv'
  <2>1. \A j \in Caller : Waiters(j)' = Waiters(j)
    BY <1>1, <1>2 DEF Waiters
  <2>2. \A j \in Caller : pend'[j].refs = pend[j].refs
    BY <1>1, <1>2
  <2> QED
    BY <1>1, <2>1, <2>2 DEF RefInv
<1> QED
  BY <1>9, <1>10, <1>11, <1>12, <1>13, <1>14, <1>15, <1>16, <1>17, <1>18, <1>19
     DEF AffinityInv

LEMMA StopperChaseStep ==
  ASSUME AffinityInv, NEW c \in CPU, NEW k \in Caller, stopper[c].own = k, StopperChase(c)
  PROVE  AffinityInv'
<1>. USE NoneAssumption
<1>. USE DEF OnCpu
<1>1. /\ TypeOK /\ WorksOK /\ EnableInv /\ PinInv /\ PushInv /\ MaskInv
      /\ StopInv /\ OneInv /\ EndInv /\ LiveInv /\ RefInv
  BY DEF AffinityInv
<1>2. /\ stopper[c].fn = "chase" /\ Stop(cpu, MigrateWork(k))
      /\ stopper' = [stopper EXCEPT ![c] = Idle]
      /\ UNCHANGED <<cpu, run, cpus_mask, cpus_ptr, migration_disabled,
                     migration_pending, mdf_push, enable, exec, nr_pinned, push_busy,
                     pend, pc, use, kick, hp, downs, lapsed>>
  BY <1>1 DEF StopperChase, Ends, pVars, rqVars, callVars, otherVars
<1>3. /\ cpu \in CPU
      /\ migration_pending \in Caller \cup {None}
  BY <1>1 DEF TypeOK
<1>4. InHand(c, k) /\ Installed(k)
  BY <1>1, <1>2 DEF InHand, StopInv
<1>5. NoStopWorkBut(c)
  BY <1>1, <1>2, OneUnderWay DEF InHand
<1>6. Holds(c, "idle", None) /\ stopper'[c] = Idle
  BY <1>1, <1>2, StopperRests
<1>7. WorksGrow
  BY <1>1, <1>2, <1>3, MigrateAdds
<1>8. PICK place \in Nat : Adds(cpu, "migration_cpu_stop", k, place)
  BY <1>1, <1>2, <1>3, MigrateAdds
<1>9. Pinned' <=> Pinned
  BY <1>1, <1>2 DEF Pinned
<1>. USE DEF Adds, Holds, NoStopWorkBut
<1>10. TypeOK'
  BY <1>1, <1>2 DEF TypeOK
<1>11. WorksOK'
  <2>1. (works \in [CPU -> Seq(Work)])'
    BY <1>1, <1>2, <1>7 DEF WorksOK, WorksGrow
  <2>2. (stopper \in [CPU -> {Idle} \cup Work \cup Unlocked])'
    BY <1>1, <1>2 DEF WorksOK
  <2> QED
    BY <2>1, <2>2 DEF WorksOK
<1>12. EnableInv'
  BY <1>1, <1>2, <1>7, <1>9 DEF EnableInv, WorksGrow
<1>13. PinInv'
  BY <1>1, <1>2, PinFrame
<1>14. PushInv'
  <2>1. PushQueued'
    BY <1>1, <1>2, <1>6, <1>8 DEF PushInv, PushQueued
  <2>2. PushAwaited'
    <3>1. enable'.at = "push" => enable.at = "push" /\ UNCHANGED cpu
      BY <1>1, <1>2 DEF EnableInv
    <3>2. NoNewPush
      BY <1>1, <1>2, <1>6, <1>8 DEF NoNewPush, EnableInv, PushInv, PushAwaited
    <3> QED
      BY <1>1, <3>1, <3>2, AwaitedKept DEF PushInv, TypeOK
  <2> QED
    BY <2>1, <2>2 DEF PushInv, PushQueued, PushAwaited
<1>15. MaskInv'
  BY <1>1, <1>2, MaskFrame
<1>16. StopInv'
  BY <1>1, <1>2, <1>4, <1>6, <1>8 DEF StopInv, Installed
<1>17. OneInv'
  BY <1>1, <1>2, <1>5, <1>6, <1>8 DEF OneInv
<1>18. EndInv'
  BY <1>1, <1>2, <1>6 DEF EndInv, EndOnce, EnableEndsOnce, CallerEnds, EnableEnds, Waiting
<1>19. LiveInv'
  BY <1>1, <1>2, LiveFrame
<1>20. RefInv'
  BY <1>1, <1>2, RefFrame
<1> QED
  BY <1>10, <1>11, <1>12, <1>13, <1>14, <1>15, <1>16, <1>17, <1>18, <1>19, <1>20
     DEF AffinityInv

LEMMA PushCpuStopStep ==
  ASSUME AffinityInv, NEW c \in CPU, push_cpu_stop(c)
  PROVE  AffinityInv'
<1>. USE NoneAssumption
<1>. USE DEF OnCpu
<1>1. /\ TypeOK /\ WorksOK /\ EnableInv /\ PinInv /\ PushInv /\ MaskInv
      /\ StopInv /\ OneInv /\ EndInv /\ LiveInv /\ RefInv
  BY DEF AffinityInv
<1>2. /\ stopper[c].fn = "push_cpu_stop" /\ push_busy' = [push_busy EXCEPT ![c] = FALSE]
      /\ stopper' = [stopper EXCEPT ![c] = Idle]
      /\ UNCHANGED <<run, cpus_mask, cpus_ptr, migration_disabled, migration_pending,
                     enable, exec, nr_pinned, pend, pc, use, kick, works, hp, downs,
                     lapsed>>
  BY DEF push_cpu_stop, Ends, callVars, otherVars
<1>3. /\ cpu \in CPU
      /\ migration_pending \in Caller \cup {None}
      /\ push_busy \in [CPU -> BOOLEAN]
  BY <1>1 DEF TypeOK
<1>4. mdf_push' \in BOOLEAN
  <2>1. mdf_push' = IF cpu = c THEN Pinned ELSE mdf_push
    BY DEF push_cpu_stop, find_lock_rq
  <2>2. mdf_push \in BOOLEAN
    BY <1>1 DEF TypeOK
  <2>3. Pinned \in BOOLEAN
    BY DEF Pinned
  <2> QED
    BY <2>1, <2>2, <2>3
<1>5. Holds(c, "idle", None) /\ stopper'[c] = Idle
  BY <1>1, <1>2, StopperRests
<1>6. /\ cpu' \in CPU
      /\ cpu' # cpu => run = "queued" /\ ~Pinned /\ cpu' \in cpus_mask /\ hp[cpu'] = "up"
  BY <1>3 DEF push_cpu_stop, find_lock_rq, cpu_active
<1>7. AlwaysReset' <=> AlwaysReset
  BY <1>2 DEF AlwaysReset
<1>8. Pinned' <=> Pinned
  BY <1>2 DEF Pinned
<1>9. QueuesKept
  BY <1>2, WorksKept
<1>. USE DEF Holds, QueuesKept
<1>10. TypeOK'
  <2>1. (cpu \in CPU)'
    BY <1>6
  <2>2. (run \in {"running", "leaving", "queued", "blocked", "waking"})'
    BY <1>1, <1>2 DEF TypeOK
  <2>3. (cpus_mask \in (SUBSET CPU) \ {{}})'
    BY <1>1, <1>2 DEF TypeOK
  <2>4. (cpus_ptr \in CPU \cup {None})'
    BY <1>1, <1>2 DEF TypeOK
  <2>5. (migration_disabled \in 0 .. MaxNest)'
    BY <1>1, <1>2 DEF TypeOK
  <2>6. (migration_pending \in Caller \cup {None})'
    BY <1>2, <1>3
  <2>7. (mdf_push \in BOOLEAN /\ exec \in BOOLEAN)'
    BY <1>1, <1>2, <1>4 DEF TypeOK
  <2>8. (enable \in Rest)'
    BY <1>1, <1>2 DEF TypeOK
  <2>9. (nr_pinned \in [CPU -> Int])'
    BY <1>1, <1>2 DEF TypeOK
  <2>10. (push_busy \in [CPU -> BOOLEAN])'
    BY <1>2, <1>3
  <2>11. (pend \in [Caller -> Request])'
    BY <1>1, <1>2 DEF TypeOK
  <2>12. (pc \in [Caller -> {"idle", "kick", "complete", "complete_return", "wait", "own"}])'
    BY <1>1, <1>2 DEF TypeOK
  <2>13. (use \in [Caller -> Caller \cup {None}])'
    BY <1>1, <1>2 DEF TypeOK
  <2>14. (kick \in [Caller -> CPU \cup {None}])'
    BY <1>1, <1>2 DEF TypeOK
  <2>15. (hp \in [CPU -> {"up", "inactive", "empty", "dead", "starting"}])'
    BY <1>1, <1>2 DEF TypeOK
  <2>16. (downs \in 0 .. MaxDown)'
    BY <1>1, <1>2 DEF TypeOK
  <2>17. (lapsed \subseteq {"not reset", "pinned", "waking", "not moved"})'
    BY <1>1, <1>2 DEF TypeOK
  <2> QED
    BY <2>1, <2>2, <2>3, <2>4, <2>5, <2>6, <2>7, <2>8, <2>9, <2>10, <2>11, <2>12, <2>13,
       <2>14, <2>15, <2>16, <2>17 DEF TypeOK
<1>11. WorksOK'
  BY <1>1, <1>2 DEF WorksOK
<1>12. EnableInv'
  BY <1>1, <1>2, <1>6, <1>8 DEF EnableInv
<1>13. PinInv'
  <2>1. (AlwaysReset => (~Pinned \/ enable.at # "out" => cpus_ptr = None))'
    BY <1>1, <1>2, <1>7, <1>8 DEF PinInv
  <2>2. (AlwaysReset => (Pinned /\ cpus_ptr # None => cpus_ptr = cpu))'
    BY <1>1, <1>2, <1>6, <1>7 DEF PinInv
  <2>3. (AlwaysReset => (Pinned /\ ~OnCpu => cpus_ptr = cpu))'
    BY <1>1, <1>2, <1>6, <1>7, <1>8 DEF PinInv
  <2>4. (AlwaysReset => (\A d \in CPU : nr_pinned[d] = IF Pinned /\ cpu = d THEN 1 ELSE 0))'
    <3>1. AlwaysReset /\ Pinned' => cpu' = cpu /\ Pinned
      BY <1>6, <1>8
    <3>2. AlwaysReset => \A d \in CPU : nr_pinned[d] = IF Pinned /\ cpu = d THEN 1 ELSE 0
      BY <1>1 DEF PinInv
    <3>3. nr_pinned' = nr_pinned /\ (Pinned' <=> Pinned) /\ (~Pinned' \/ cpu' = cpu)
      BY <1>2, <1>6, <1>8
    <3> QED
      BY <1>7, <3>2, <3>3
  <2>5. (AlwaysReset =>
           (\A d \in CPU : hp[d] \in {"empty", "dead"} /\ cpu = d
              => run = "blocked" /\ ~Pinned))'
    BY <1>1, <1>2, <1>6, <1>7, <1>8 DEF PinInv
  <2> QED
    BY <2>1, <2>2, <2>3, <2>4, <2>5 DEF PinInv
<1>14. PushInv'
  <2>1. PushQueued'
    BY <1>1, <1>2, <1>5, <1>9 DEF PushInv, PushQueued
  <2>2. PushAwaited'
    <3>1. enable'.at = "push" => enable.at = "push" /\ UNCHANGED cpu
      BY <1>1, <1>2, <1>6 DEF EnableInv
    <3>2. enable.at = "push" => cpu # c
      BY <1>1, <1>2 DEF PushInv, PushAwaited
    <3>3. NoNewPush
      BY <1>2, <1>3, <1>5, <1>9, <3>2 DEF NoNewPush
    <3> QED
      BY <1>1, <3>1, <3>3, AwaitedKept DEF PushInv, TypeOK
  <2> QED
    BY <2>1, <2>2 DEF PushInv, PushQueued, PushAwaited
<1>15. MaskInv'
  <2>1. (lapsed = {} /\ cpu \notin cpus_mask =>
           (run # "blocked" \/ Pinned => migration_pending # None))'
    BY <1>1, <1>2, <1>6, <1>8 DEF MaskInv
  <2>2. (lapsed = {} /\ cpu \notin cpus_mask =>
           (migration_pending # None => pend[migration_pending].dest \in cpus_mask))'
    BY <1>1, <1>2, <1>6 DEF MaskInv
  <2> QED
    BY <2>1, <2>2 DEF MaskInv
<1>16. StopInv'
  BY <1>1, <1>2, <1>5, <1>9 DEF StopInv, Installed
<1>17. OneInv'
  BY <1>1, <1>2, <1>5, <1>9 DEF OneInv
<1>18. EndInv'
  BY <1>1, <1>2, <1>5 DEF EndInv, EndOnce, EnableEndsOnce, CallerEnds, EnableEnds, Waiting
<1>19. LiveInv'
  BY <1>1, <1>2, LiveFrame
<1>20. RefInv'
  BY <1>1, <1>2, RefFrame
<1> QED
  BY <1>10, <1>11, <1>12, <1>13, <1>14, <1>15, <1>16, <1>17, <1>18, <1>19, <1>20
     DEF AffinityInv

LEMMA BalancePushMoves ==
  ASSUME AffinityInv, NEW c \in CPU, balance_push_cpu_stop(c), cpu = c /\ run = "queued"
  PROVE  AffinityInv'
<1>. USE NoneAssumption
<1>. USE DEF OnCpu
<1>1. /\ TypeOK /\ WorksOK /\ EnableInv /\ PinInv /\ PushInv /\ MaskInv
      /\ StopInv /\ OneInv /\ EndInv /\ LiveInv /\ RefInv
  BY DEF AffinityInv
<1>2. PICK d \in CPU :
      /\ stopper[c].fn = "balance_push" /\ run = "queued"
      /\ Fallback(d) /\ cpu' = d
      /\ stopper' = [stopper EXCEPT ![c] = Idle]
      /\ UNCHANGED <<run, cpus_ptr, migration_disabled, migration_pending, mdf_push,
                     enable, exec, nr_pinned, push_busy, pend, pc, use, kick, works,
                     hp, downs, lapsed>>
  BY <1>1 DEF balance_push_cpu_stop, Ends, rqVars, callVars, otherVars
<1>3. Lands(d)
  BY <1>1, <1>2, FallbackLands
<1>4. Holds(c, "idle", None) /\ stopper'[c] = Idle
  BY <1>1, <1>2, StopperRests
<1>5. AlwaysReset' <=> AlwaysReset
  BY <1>1, <1>2 DEF AlwaysReset
<1>6. Pinned' <=> Pinned
  BY <1>1, <1>2 DEF Pinned
<1>7. QueuesKept
  BY <1>1, <1>2, WorksKept
<1>. USE DEF Holds, QueuesKept, Lands
<1>8. TypeOK'
  BY <1>1, <1>2, <1>3 DEF TypeOK
<1>9. WorksOK'
  BY <1>1, <1>2 DEF WorksOK
<1>10. EnableInv'
  BY <1>1, <1>2 DEF EnableInv
<1>11. PinInv'
  BY <1>1, <1>2, <1>3, <1>5, <1>6 DEF PinInv
<1>12. PushInv'
  <2>1. PushQueued'
    BY <1>1, <1>2, <1>4, <1>7 DEF PushInv, PushQueued
  <2>2. PushAwaited'
    BY <1>1, <1>2, <1>4, <1>7 DEF EnableInv, PushInv, PushAwaited
  <2> QED
    BY <2>1, <2>2 DEF PushInv, PushQueued, PushAwaited
<1>13. MaskInv'
  BY <1>1, <1>2, <1>3 DEF MaskInv, AlwaysReset
<1>14. StopInv'
  BY <1>1, <1>2, <1>4, <1>7 DEF StopInv, Installed
<1>15. OneInv'
  BY <1>1, <1>2, <1>4, <1>7 DEF OneInv
<1>16. EndInv'
  BY <1>1, <1>2, <1>4 DEF EndInv, EndOnce, EnableEndsOnce, CallerEnds, EnableEnds, Waiting
<1>17. LiveInv'
  BY <1>1, <1>2, LiveFrame
<1>18. RefInv'
  BY <1>1, <1>2, RefFrame
<1> QED
  BY <1>8, <1>9, <1>10, <1>11, <1>12, <1>13, <1>14, <1>15, <1>16, <1>17, <1>18
     DEF AffinityInv

LEMMA BalancePushStays ==
  ASSUME AffinityInv, NEW c \in CPU, balance_push_cpu_stop(c), ~(cpu = c /\ run = "queued")
  PROVE  AffinityInv'
<1>. USE NoneAssumption
<1>. USE DEF OnCpu
<1>1. /\ TypeOK /\ WorksOK /\ EnableInv /\ PinInv /\ PushInv /\ MaskInv
      /\ StopInv /\ OneInv /\ EndInv /\ LiveInv /\ RefInv
  BY DEF AffinityInv
<1>2. /\ stopper[c].fn = "balance_push"
      /\ stopper' = [stopper EXCEPT ![c] = Idle]
      /\ UNCHANGED <<cpu, run, cpus_mask, cpus_ptr, migration_disabled,
                     migration_pending, mdf_push, enable, exec, nr_pinned, push_busy,
                     pend, pc, use, kick, works, hp, downs, lapsed>>
  BY <1>1 DEF balance_push_cpu_stop, Ends, rqVars, callVars, otherVars
<1>3. Holds(c, "idle", None) /\ stopper'[c] = Idle
  BY <1>1, <1>2, StopperRests
<1>4. Pinned' <=> Pinned
  BY <1>1, <1>2 DEF Pinned
<1>5. QueuesKept
  BY <1>1, <1>2, WorksKept
<1>. USE DEF Holds, QueuesKept
<1>6. TypeOK'
  BY <1>1, <1>2 DEF TypeOK
<1>7. WorksOK'
  BY <1>1, <1>2 DEF WorksOK
<1>8. EnableInv'
  BY <1>1, <1>2, <1>4 DEF EnableInv
<1>9. PinInv'
  BY <1>1, <1>2, PinFrame
<1>10. PushInv'
  <2>1. PushQueued'
    BY <1>1, <1>2, <1>3, <1>5 DEF PushInv, PushQueued
  <2>2. PushAwaited'
    <3>1. enable'.at = "push" => enable.at = "push" /\ UNCHANGED cpu
      BY <1>1, <1>2 DEF EnableInv
    <3>2. NoNewPush
      BY <1>1, <1>2, <1>3, <1>5 DEF NoNewPush, EnableInv, PushInv, PushAwaited
    <3> QED
      BY <1>1, <3>1, <3>2, AwaitedKept DEF PushInv, TypeOK
  <2> QED
    BY <2>1, <2>2 DEF PushInv, PushQueued, PushAwaited
<1>11. MaskInv'
  BY <1>1, <1>2, MaskFrame
<1>12. StopInv'
  BY <1>1, <1>2, <1>3, <1>5 DEF StopInv, Installed
<1>13. OneInv'
  BY <1>1, <1>2, <1>3, <1>5 DEF OneInv
<1>14. EndInv'
  BY <1>1, <1>2, <1>3 DEF EndInv, EndOnce, EnableEndsOnce, CallerEnds, EnableEnds, Waiting
<1>15. LiveInv'
  BY <1>1, <1>2, LiveFrame
<1>16. RefInv'
  BY <1>1, <1>2, RefFrame
<1> QED
  BY <1>6, <1>7, <1>8, <1>9, <1>10, <1>11, <1>12, <1>13, <1>14, <1>15, <1>16
     DEF AffinityInv

LEMMA DeactivateStep ==
  ASSUME AffinityInv, NEW c \in CPU, sched_cpu_deactivate(c)
  PROVE  AffinityInv'
<1>. USE NoneAssumption
<1>. USE DEF OnCpu
<1>1. /\ TypeOK /\ WorksOK /\ EnableInv /\ PinInv /\ PushInv /\ MaskInv
      /\ StopInv /\ OneInv /\ EndInv /\ LiveInv /\ RefInv
  BY DEF AffinityInv
<1>2. /\ hp[c] = "up" /\ hp' = [hp EXCEPT ![c] = "inactive"]
      /\ downs < MaxDown /\ downs' = downs + 1
      /\ UNCHANGED <<cpu, run, cpus_mask, cpus_ptr, migration_disabled,
                     migration_pending, mdf_push, enable, exec, nr_pinned, push_busy,
                     pend, pc, use, kick, works, stopper, lapsed>>
  BY <1>1 DEF sched_cpu_deactivate, Hotplug, NotHp, pVars, rqVars, callVars, stopVars
<1>3. /\ cpu \in CPU
      /\ migration_pending \in Caller \cup {None}
      /\ hp \in [CPU -> {"up", "inactive", "empty", "dead", "starting"}]
      /\ downs \in 0 .. MaxDown
  BY <1>1 DEF TypeOK
<1>4. downs' \in 0 .. MaxDown
  <2>1. downs \in Nat
    BY <1>3
  <2>2. downs < MaxDown /\ downs' = downs + 1
    BY <1>2
  <2> QED
    BY <2>1, <2>2, BoundsAssumption
<1>5. AlwaysReset' <=> AlwaysReset
  BY <1>1, <1>2 DEF AlwaysReset
<1>6. Pinned' <=> Pinned
  BY <1>1, <1>2 DEF Pinned
<1>7. TypeOK'
  BY <1>1, <1>2, <1>4 DEF TypeOK
<1>8. WorksOK'
  BY <1>1, <1>2, WorksFrame
<1>9. EnableInv'
  BY <1>1, <1>2, <1>6 DEF EnableInv
<1>10. PinInv'
  BY <1>1, <1>2, <1>5, <1>6 DEF PinInv
<1>11. PushInv'
  BY <1>1, <1>2, PushFrame
<1>12. MaskInv'
  BY <1>1, <1>2, MaskFrame
<1>13. StopInv'
  BY <1>1, <1>2, StopFrame
<1>14. OneInv'
  BY <1>1, <1>2, OneFrame
<1>15. EndInv'
  BY <1>1, <1>2, EndFrame
<1>16. LiveInv'
  BY <1>1, <1>2, LiveFrame
<1>17. RefInv'
  BY <1>1, <1>2, RefFrame
<1> QED
  BY <1>7, <1>8, <1>9, <1>10, <1>11, <1>12, <1>13, <1>14, <1>15, <1>16, <1>17
     DEF AffinityInv

LEMMA CpusetRefusesStep ==
  ASSUME AffinityInv, NEW c \in CPU, CpusetRefuses(c)
  PROVE  AffinityInv'
<1>. USE NoneAssumption
<1>. USE DEF OnCpu
<1>1. /\ TypeOK /\ WorksOK /\ EnableInv /\ PinInv /\ PushInv /\ MaskInv
      /\ StopInv /\ OneInv /\ EndInv /\ LiveInv /\ RefInv
  BY DEF AffinityInv
<1>2. /\ hp[c] = "inactive" /\ hp' = [hp EXCEPT ![c] = "up"]
      /\ UNCHANGED <<cpu, run, cpus_mask, cpus_ptr, migration_disabled,
                     migration_pending, mdf_push, enable, exec, nr_pinned, push_busy,
                     pend, pc, use, kick, works, stopper, downs, lapsed>>
  BY <1>1 DEF CpusetRefuses, Hotplug, NotHp, pVars, rqVars, callVars, stopVars
<1>3. AlwaysReset' <=> AlwaysReset
  BY <1>1, <1>2 DEF AlwaysReset
<1>4. Pinned' <=> Pinned
  BY <1>1, <1>2 DEF Pinned
<1>5. TypeOK'
  BY <1>1, <1>2 DEF TypeOK
<1>6. WorksOK'
  BY <1>1, <1>2, WorksFrame
<1>7. EnableInv'
  BY <1>1, <1>2, <1>4 DEF EnableInv
<1>8. PinInv'
  BY <1>1, <1>2, <1>3, <1>4 DEF PinInv
<1>9. PushInv'
  BY <1>1, <1>2, PushFrame
<1>10. MaskInv'
  BY <1>1, <1>2, MaskFrame
<1>11. StopInv'
  BY <1>1, <1>2, StopFrame
<1>12. OneInv'
  BY <1>1, <1>2, OneFrame
<1>13. EndInv'
  BY <1>1, <1>2, EndFrame
<1>14. LiveInv'
  BY <1>1, <1>2, LiveFrame
<1>15. RefInv'
  BY <1>1, <1>2, RefFrame
<1> QED
  BY <1>5, <1>6, <1>7, <1>8, <1>9, <1>10, <1>11, <1>12, <1>13, <1>14, <1>15
     DEF AffinityInv

LEMMA WaitEmptyStep ==
  ASSUME AffinityInv, NEW c \in CPU, sched_cpu_wait_empty(c)
  PROVE  AffinityInv'
<1>. USE NoneAssumption
<1>. USE DEF OnCpu
<1>1. /\ TypeOK /\ WorksOK /\ EnableInv /\ PinInv /\ PushInv /\ MaskInv
      /\ StopInv /\ OneInv /\ EndInv /\ LiveInv /\ RefInv
  BY DEF AffinityInv
<1>2. /\ hp[c] = "inactive" /\ hp' = [hp EXCEPT ![c] = "empty"]
      /\ ~(cpu = c /\ run # "blocked") /\ nr_pinned[c] = 0
      /\ UNCHANGED <<cpu, run, cpus_mask, cpus_ptr, migration_disabled,
                     migration_pending, mdf_push, enable, exec, nr_pinned, push_busy,
                     pend, pc, use, kick, works, stopper, downs, lapsed>>
  BY <1>1 DEF sched_cpu_wait_empty, Hotplug, NotHp, Vacated, VacatedButPinned, pVars,
     rqVars, callVars, stopVars
<1>3. AlwaysReset' <=> AlwaysReset
  BY <1>1, <1>2 DEF AlwaysReset
<1>4. Pinned' <=> Pinned
  BY <1>1, <1>2 DEF Pinned
<1>5. TypeOK'
  BY <1>1, <1>2 DEF TypeOK
<1>6. WorksOK'
  BY <1>1, <1>2, WorksFrame
<1>7. EnableInv'
  BY <1>1, <1>2, <1>4 DEF EnableInv
<1>8. PinInv'
  BY <1>1, <1>2, <1>3, <1>4 DEF PinInv
<1>9. PushInv'
  BY <1>1, <1>2, PushFrame
<1>10. MaskInv'
  BY <1>1, <1>2, MaskFrame
<1>11. StopInv'
  BY <1>1, <1>2, StopFrame
<1>12. OneInv'
  BY <1>1, <1>2, OneFrame
<1>13. EndInv'
  BY <1>1, <1>2, EndFrame
<1>14. LiveInv'
  BY <1>1, <1>2, LiveFrame
<1>15. RefInv'
  BY <1>1, <1>2, RefFrame
<1> QED
  BY <1>5, <1>6, <1>7, <1>8, <1>9, <1>10, <1>11, <1>12, <1>13, <1>14, <1>15
     DEF AffinityInv

LEMMA DyingStep ==
  ASSUME AffinityInv, NEW c \in CPU, sched_cpu_dying(c)
  PROVE  AffinityInv'
<1>. USE NoneAssumption
<1>. USE DEF OnCpu
<1>1. /\ TypeOK /\ WorksOK /\ EnableInv /\ PinInv /\ PushInv /\ MaskInv
      /\ StopInv /\ OneInv /\ EndInv /\ LiveInv /\ RefInv
  BY DEF AffinityInv
<1>2. /\ hp[c] = "empty" /\ hp' = [hp EXCEPT ![c] = "dead"]
      /\ works[c] = <<>> /\ stopper[c] = Idle
      /\ UNCHANGED <<cpu, run, cpus_mask, cpus_ptr, migration_disabled,
                     migration_pending, mdf_push, enable, exec, nr_pinned, push_busy,
                     pend, pc, use, kick, works, stopper, downs, lapsed>>
  BY DEF sched_cpu_dying, Hotplug, NotHp, pVars, rqVars, callVars, stopVars
<1>3. AlwaysReset' <=> AlwaysReset
  BY <1>2 DEF AlwaysReset
<1>4. Pinned' <=> Pinned
  BY <1>2 DEF Pinned
<1>5. TypeOK'
  BY <1>1, <1>2 DEF TypeOK
<1>6. WorksOK'
  BY <1>1, <1>2, WorksFrame
<1>7. EnableInv'
  BY <1>1, <1>2, <1>4 DEF EnableInv
<1>8. PinInv'
  BY <1>1, <1>2, <1>3, <1>4 DEF PinInv
<1>9. PushInv'
  BY <1>1, <1>2, PushFrame
<1>10. MaskInv'
  BY <1>1, <1>2, MaskFrame
<1>11. StopInv'
  BY <1>1, <1>2, StopFrame
<1>12. OneInv'
  BY <1>1, <1>2, OneFrame
<1>13. EndInv'
  BY <1>1, <1>2, EndFrame
<1>14. LiveInv'
  BY <1>1, <1>2, LiveFrame
<1>15. RefInv'
  BY <1>1, <1>2, RefFrame
<1> QED
  BY <1>5, <1>6, <1>7, <1>8, <1>9, <1>10, <1>11, <1>12, <1>13, <1>14, <1>15
     DEF AffinityInv

LEMMA StartingStep ==
  ASSUME AffinityInv, NEW c \in CPU, sched_cpu_starting(c)
  PROVE  AffinityInv'
<1>. USE NoneAssumption
<1>. USE DEF OnCpu
<1>1. /\ TypeOK /\ WorksOK /\ EnableInv /\ PinInv /\ PushInv /\ MaskInv
      /\ StopInv /\ OneInv /\ EndInv /\ LiveInv /\ RefInv
  BY DEF AffinityInv
<1>2. /\ hp[c] = "dead" /\ hp' = [hp EXCEPT ![c] = "starting"]
      /\ UNCHANGED <<cpu, run, cpus_mask, cpus_ptr, migration_disabled,
                     migration_pending, mdf_push, enable, exec, nr_pinned, push_busy,
                     pend, pc, use, kick, works, stopper, downs, lapsed>>
  BY <1>1 DEF sched_cpu_starting, Hotplug, NotHp, pVars, rqVars, callVars, stopVars
<1>3. AlwaysReset' <=> AlwaysReset
  BY <1>1, <1>2 DEF AlwaysReset
<1>4. Pinned' <=> Pinned
  BY <1>1, <1>2 DEF Pinned
<1>5. TypeOK'
  BY <1>1, <1>2 DEF TypeOK
<1>6. WorksOK'
  BY <1>1, <1>2, WorksFrame
<1>7. EnableInv'
  BY <1>1, <1>2, <1>4 DEF EnableInv
<1>8. PinInv'
  BY <1>1, <1>2, <1>3, <1>4 DEF PinInv
<1>9. PushInv'
  BY <1>1, <1>2, PushFrame
<1>10. MaskInv'
  BY <1>1, <1>2, MaskFrame
<1>11. StopInv'
  BY <1>1, <1>2, StopFrame
<1>12. OneInv'
  BY <1>1, <1>2, OneFrame
<1>13. EndInv'
  BY <1>1, <1>2, EndFrame
<1>14. LiveInv'
  BY <1>1, <1>2, LiveFrame
<1>15. RefInv'
  BY <1>1, <1>2, RefFrame
<1> QED
  BY <1>5, <1>6, <1>7, <1>8, <1>9, <1>10, <1>11, <1>12, <1>13, <1>14, <1>15
     DEF AffinityInv

LEMMA ActivateStep ==
  ASSUME AffinityInv, NEW c \in CPU, sched_cpu_activate(c)
  PROVE  AffinityInv'
<1>. USE NoneAssumption
<1>. USE DEF OnCpu
<1>1. /\ TypeOK /\ WorksOK /\ EnableInv /\ PinInv /\ PushInv /\ MaskInv
      /\ StopInv /\ OneInv /\ EndInv /\ LiveInv /\ RefInv
  BY DEF AffinityInv
<1>2. /\ hp[c] = "starting" /\ hp' = [hp EXCEPT ![c] = "up"]
      /\ UNCHANGED <<cpu, run, cpus_mask, cpus_ptr, migration_disabled,
                     migration_pending, mdf_push, enable, exec, nr_pinned, push_busy,
                     pend, pc, use, kick, works, stopper, downs, lapsed>>
  BY <1>1 DEF sched_cpu_activate, Hotplug, NotHp, pVars, rqVars, callVars, stopVars
<1>3. AlwaysReset' <=> AlwaysReset
  BY <1>1, <1>2 DEF AlwaysReset
<1>4. Pinned' <=> Pinned
  BY <1>1, <1>2 DEF Pinned
<1>5. TypeOK'
  BY <1>1, <1>2 DEF TypeOK
<1>6. WorksOK'
  BY <1>1, <1>2, WorksFrame
<1>7. EnableInv'
  BY <1>1, <1>2, <1>4 DEF EnableInv
<1>8. PinInv'
  BY <1>1, <1>2, <1>3, <1>4 DEF PinInv
<1>9. PushInv'
  BY <1>1, <1>2, PushFrame
<1>10. MaskInv'
  BY <1>1, <1>2, MaskFrame
<1>11. StopInv'
  BY <1>1, <1>2, StopFrame
<1>12. OneInv'
  BY <1>1, <1>2, OneFrame
<1>13. EndInv'
  BY <1>1, <1>2, EndFrame
<1>14. LiveInv'
  BY <1>1, <1>2, LiveFrame
<1>15. RefInv'
  BY <1>1, <1>2, RefFrame
<1> QED
  BY <1>5, <1>6, <1>7, <1>8, <1>9, <1>10, <1>11, <1>12, <1>13, <1>14, <1>15
     DEF AffinityInv

-----------------------------------------------------------------------------
(***************************************************************************)
(* Every step of the specification keeps the invariant.                    *)
(***************************************************************************)
LEMMA SchedulingKeeps ==
  ASSUME AffinityInv, Scheduling
  PROVE  AffinityInv'
<1>1. CASE Resume
  BY <1>1, ResumeHere, ResumeAway
<1>2. ASSUME NEW c \in CPU, Wake(c) \/ Balance(c) \/ sched_exec(c)
      PROVE  AffinityInv'
  BY <1>2, WakeStep, BalanceStep, SchedExecStep
<1> QED
  BY <1>1, <1>2, PreemptStep, BlockStep, TakeIpiStep, RtPushStep DEF Scheduling

LEMMA MigrateKeeps ==
  ASSUME AffinityInv, Migrate
  PROVE  AffinityInv'
<1>1. CASE migrate_disable
  BY <1>1, DisableOuter, DisableInner
<1>2. CASE EnableFast
  BY <1>2, EnableInner, EnableOuter
<1>3. CASE EnableSlow
  <2>1. CASE cpus_mask \cap cpu_online = {}
    BY <1>3, <2>1, EnableNotReset
  <2>2. CASE cpus_mask \cap cpu_online # {} /\ cpu \in cpus_mask
    BY <1>3, <2>2, EnableStayDone, EnableStayOn
  <2>3. CASE cpus_mask \cap cpu_online # {} /\ cpu \notin cpus_mask
    BY <1>3, <2>3, EnableNoRequest, EnableRequest
  <2> QED
    BY <2>1, <2>2, <2>3
<1>4. CASE EnableComplete
  <2>1. enable.at = "complete" /\ enable.ends \in Caller
    BY <1>4 DEF EnableComplete, AffinityInv, EnableInv, TypeOK, Rest
  <2> QED
    BY <1>4, <2>1, EnableCompleteStep
<1> QED
  BY <1>1, <1>2, <1>3, <1>4, EnablePushStep, EnableKickStep, EnableClearStep
     DEF Migrate, EnableRest

LEMMA CallKeeps ==
  ASSUME AffinityInv, NEW k \in Caller, Call(k)
  PROVE  AffinityInv'
<1>1. ASSUME NEW M \in (SUBSET CPU) \ {{}}, set_cpus_allowed_ptr(k, M)
      PROVE  AffinityInv'
  <2>1. CASE cpu \in M
    BY <1>1, <2>1, CallCompletes, CallStays
  <2>2. CASE cpu \notin M
    <3>1. PICK dest \in M : Leaves(k, M, dest)
      BY <1>1, <2>2 DEF set_cpus_allowed_ptr, Leaves, cpu_active
    <3>2. PICK own \in Caller : own = IF migration_pending = None THEN k ELSE migration_pending
      BY DEF AffinityInv, TypeOK
    <3> QED
      BY <3>1, <3>2, CallKicks, CallJoins, CallMoves, CallWaits
  <2> QED
    BY <2>1, <2>2
<1>2. CASE Kick(k) \/ Complete(k) \/ Wait(k)
  <2>1. pc[k] \in {"kick", "complete", "complete_return", "wait"}
    BY <1>2 DEF Kick, Complete, Wait
  <2>2. PICK own \in Caller : use[k] = own
    BY <2>1 DEF AffinityInv, LiveInv, TypeOK
  <2>3. Complete(k) => pc[k] \in {"complete", "complete_return"}
    BY DEF Complete
  <2> QED
    BY <1>2, <2>2, <2>3, KickStep, CompleteStep, CompleteReturnStep, WaitStep
<1> QED
  BY <1>1, <1>2, OwnStep DEF Call

LEMMA StopperKeeps ==
  ASSUME AffinityInv, NEW c \in CPU, Stopper(c)
  PROVE  AffinityInv'
<1>1. stopper[c] \in {Idle} \cup Work \cup Unlocked
  BY DEF AffinityInv, WorksOK
<1>2. CASE migration_cpu_stop(c)
  <2>1. CASE stopper[c].own = None
    BY <1>2, <2>1, BailsAlone, ExecMoves, ElsewhereAlone
  <2>2. CASE stopper[c].own # None
    <3>1. stopper[c].fn = "migration_cpu_stop"
      BY <1>2 DEF migration_cpu_stop
    <3>2. PICK k \in Caller : stopper[c].own = k
      BY <1>1, <2>2, <3>1 DEF Work, Unlocked, Idle, NoWork
    <3> QED
      BY <1>2, <3>2, BailsWithRequest, RequestMoves, ElsewhereFinishes, ElsewhereChases
  <2> QED
    BY <2>1, <2>2
<1>3. CASE StopperComplete(c) \/ StopperChase(c)
  <2>1. stopper[c].fn \in {"complete", "chase"}
    BY <1>3 DEF StopperComplete, StopperChase
  <2>2. PICK k \in Caller : stopper[c].own = k
    BY <1>1, <2>1 DEF Work, Unlocked, Idle, NoWork
  <2> QED
    BY <1>3, <2>2, StopperCompleteStep, StopperChaseStep
<1> QED
  BY <1>2, <1>3, StopperStartStep, PushCpuStopStep, BalancePushMoves,
       BalancePushStays DEF Stopper

LEMMA HotplugKeeps ==
  ASSUME AffinityInv, NEW c \in CPU, HotplugStep(c)
  PROVE  AffinityInv'
BY DeactivateStep, CpusetRefusesStep, WaitEmptyStep, DyingStep, StartingStep, ActivateStep
   DEF HotplugStep

LEMMA StutterKeeps ==
  ASSUME AffinityInv, UNCHANGED vars
  PROVE  AffinityInv'
<1>1. UNCHANGED <<cpu, run, cpus_mask, cpus_ptr, migration_disabled, migration_pending,
                  mdf_push, enable, exec, nr_pinned, push_busy, pend, pc, use, kick,
                  works, stopper, hp, downs, lapsed>>
  BY DEF vars, pVars, rqVars, callVars, stopVars, otherVars
<1>2. TypeOK'
  BY <1>1 DEF AffinityInv, TypeOK
<1> QED
  BY <1>1, <1>2, WorksFrame, EnableFrame, PinFrame, PushFrame, MaskFrame, StopFrame,
     OneFrame, EndFrame, LiveFrame, RefFrame DEF AffinityInv

LEMMA AffinityStep == AffinityInv /\ [Next]_vars => AffinityInv'
BY SchedulingKeeps, MigrateKeeps, CallKeeps, StopperKeeps, HotplugKeeps, StutterKeeps
   DEF Next

LEMMA AffinityInit == Init => AffinityInv
<1> SUFFICES ASSUME Init
             PROVE  AffinityInv
  OBVIOUS
<1>. USE NoneAssumption
<1>1. TypeOK
  <2>1. cpus_mask \in (SUBSET CPU) \ {{}} /\ lapsed = {}
    BY DEF Init
  <2>2. NoPending \in Request
    BY DEF NoPending, Request
  <2>3. /\ pend \in [Caller -> Request]
        /\ migration_disabled \in 0 .. MaxNest /\ downs \in 0 .. MaxDown
    BY <2>2, BoundsAssumption DEF Init
  <2>4. /\ cpu \in CPU /\ run = "queued" /\ cpus_ptr = None /\ migration_pending = None
        /\ mdf_push = FALSE /\ exec = FALSE
        /\ enable = Enabling("out", None)
    BY DEF Init
  <2>5. nr_pinned \in [CPU -> Int] /\ push_busy \in [CPU -> BOOLEAN]
    BY DEF Init
  <2>6. /\ pc \in [Caller -> {"idle", "kick", "complete", "complete_return", "wait", "own"}]
        /\ use \in [Caller -> Caller \cup {None}] /\ kick \in [Caller -> CPU \cup {None}]
        /\ hp \in [CPU -> {"up", "inactive", "empty", "dead", "starting"}]
    BY DEF Init
  <2> QED
    BY <2>1, <2>3, <2>4, <2>5, <2>6 DEF TypeOK, Enabling, Rest
<1>2. /\ works \in [CPU -> Seq(Work)] /\ stopper \in [CPU -> {Idle}]
      /\ \A d \in CPU : works[d] = <<>> /\ stopper[d] = Idle
      /\ Idle.fn = "idle"
  BY DEF Init, Idle, NoWork
<1>3. /\ \A d \in CPU, n \in Nat : \A f : ~Lists(d, n, f)
      /\ \A d \in CPU, n \in Nat, j \in Caller : ~InQueue(d, n, j)
      /\ \A d \in CPU, j \in Caller : ~InHand(d, j) /\ ~StopperEnds(d, j)
  BY <1>2 DEF Lists, InQueue, InHand, StopperEnds
<1>4. WorksOK /\ PushInv
  BY <1>2, <1>3 DEF Init, WorksOK, PushInv, PushQueued, PushAwaited, Enabling
<1>5. EnableInv /\ PinInv /\ MaskInv
  BY <1>1, <1>2 DEF Init, TypeOK, EnableInv, PinInv, MaskInv, Pinned, Enabling
<1>6. StopInv /\ OneInv /\ EndInv /\ LiveInv
  BY <1>3 DEF Init, StopInv, OneInv, EndInv, EndOnce, EnableEndsOnce, LiveInv, CallerEnds,
     EnableEnds, NoPending,
     Enabling
<1>7. RefInv
  <2>1. \A j \in Caller : Waiters(j) = {} /\ pend[j].refs = 0
    BY DEF Init, Waiters, NoPending
  <2> QED
    BY <2>1, FS_EmptySet DEF RefInv
<1> QED
  BY <1>1, <1>4, <1>5, <1>6, <1>7 DEF AffinityInv

(***************************************************************************)
(* The theorems.                                                           *)
(***************************************************************************)
(* The inductive invariant, at every point of the callers, migrate_enable(), *)
(* the stoppers and hotplug.                                                 *)
THEOREM AffinityHolds == Spec => []AffinityInv
<1>1. Init => AffinityInv
  BY AffinityInit
<1>2. AffinityInv /\ [Next]_vars => AffinityInv'
  BY AffinityStep
<1> QED
  BY <1>1, <1>2, PTL DEF Spec

(* Every variable of the task, the callers and the stoppers keeps its type. *)
THEOREM AffinityTypes == Spec => []TypeOK
<1>1. AffinityInv => TypeOK
  BY DEF AffinityInv
<1> QED
  BY <1>1, AffinityHolds, PTL

(* A task that is not where its mask allows has a request installed, which *)
(* is what set_cpus_allowed_ptr() promises (core.c affine_move_task).      *)
THEOREM RequestIsInstalled == Spec => []AllowedOrPending
<1>1. AffinityInv => AllowedOrPending
  BY DEF AffinityInv, MaskInv, AllowedOrPending
<1> QED
  BY <1>1, AffinityHolds, PTL

(* What lies in a queue lies at a place of it.                             *)
LEMMA WorksArePlaced ==
  ASSUME WorksOK, NEW c \in CPU, NEW w \in Works(c), w # stopper[c]
  PROVE  \E n \in DOMAIN works[c] : n \in Nat /\ works[c][n] = w
<1>1. w \in Range(works[c])
  BY DEF Works
<1>2. \A n \in DOMAIN works[c] : n \in Nat
  BY DEF WorksOK
<1> QED
  BY <1>1, <1>2 DEF Range

LEMMA ServesIsPlaced ==
  ASSUME AffinityInv, NEW c \in CPU, NEW k \in Caller, NEW w \in Works(c), w.own = k
  PROVE  \/ InHand(c, k) \/ StopperEnds(c, k)
         \/ \E n \in Nat : InQueue(c, n, k)
<1>1. CASE w = stopper[c]
  <2>1. stopper[c] \in {Idle} \cup Work \cup Unlocked
    BY DEF AffinityInv, WorksOK
  <2> QED
    BY <1>1, <2>1, NoneAssumption DEF InHand, StopperEnds, Work, Unlocked, Idle, NoWork
<1>2. CASE w # stopper[c]
  BY <1>2, WorksArePlaced DEF AffinityInv, InQueue
<1> QED
  BY <1>1, <1>2

(* The request a stop work was queued for is the one installed, so that    *)
(* migration_cpu_stop() completes no other.                                *)
THEOREM StopWorkIsExpected == Spec => []StopWorkHasPending
<1>1. AffinityInv => StopWorkHasPending
  <2> SUFFICES ASSUME AffinityInv, NEW c \in CPU, NEW k \in Caller,
                      NEW w \in Works(c), Serves(w, k)
               PROVE  migration_pending = k /\ pend[k].stop_pending
    BY DEF StopWorkHasPending
  <2>1. w.own = k /\ w.fn \in {"migration_cpu_stop", "chase"}
    BY DEF Serves
  <2>2. InHand(c, k) \/ \E n \in Nat : InQueue(c, n, k)
    <3>1. w = stopper[c] => ~StopperEnds(c, k)
      BY <2>1 DEF StopperEnds
    <3>2. w # stopper[c] => \E n \in Nat : InQueue(c, n, k)
      BY <2>1, WorksArePlaced DEF AffinityInv, InQueue
    <3> QED
      BY <2>1, <3>1, <3>2, ServesIsPlaced
  <2> QED
    BY <2>2 DEF AffinityInv, StopInv, Installed
<1> QED
  BY <1>1, AffinityHolds, PTL

(* No cpu_stop_work is queued while it is queued.                          *)
THEOREM StopWorkIsOnce == Spec => []StopWorkQueuedOnce
<1>1. AffinityInv => StopWorkQueuedOnce
  <2> SUFFICES ASSUME AffinityInv
               PROVE  StopWorkQueuedOnce
    OBVIOUS
  <2>1. \A c \in CPU : \A n \in DOMAIN works[c] : n \in Nat
    BY DEF AffinityInv, WorksOK
  <2>2. ASSUME NEW k \in Caller, NEW c \in CPU, NEW d \in CPU,
               NEW m \in DOMAIN works[c], NEW n \in DOMAIN works[d],
               Serves(works[c][m], k), Serves(works[d][n], k)
        PROVE  c = d /\ m = n
    <3>1. InQueue(c, m, k) /\ InQueue(d, n, k) /\ m \in Nat /\ n \in Nat
      BY <2>1, <2>2 DEF Serves, InQueue
    <3> QED
      BY <3>1 DEF AffinityInv, OneInv
  <2>3. ASSUME NEW c \in CPU, NEW fn \in {"push_cpu_stop", "balance_push"},
               NEW m \in DOMAIN works[c], NEW n \in DOMAIN works[c],
               works[c][m].fn = fn, works[c][n].fn = fn
        PROVE  m = n
    <3>1. Lists(c, m, fn) /\ Lists(c, n, fn) /\ m \in Nat /\ n \in Nat
      BY <2>1, <2>3 DEF Lists
    <3> QED
      BY <3>1 DEF AffinityInv, PushInv, PushQueued, PushAwaited
  <2> QED
    BY <2>2, <2>3 DEF StopWorkQueuedOnce
<1> QED
  BY <1>1, AffinityHolds, PTL

(* A request is on the stack of its caller as long as anything uses it.    *)
THEOREM RequestsOutliveUse == Spec => []RequestOutlivesUse
<1>1. AffinityInv => RequestOutlivesUse
  <2> SUFFICES ASSUME AffinityInv, NEW k \in Caller
               PROVE  /\ pend[k].refs =
                           Cardinality({j \in Caller : use[j] = k
                             /\ pc[j] # "complete_return"})
                      /\ pc[k] = "idle" =>
                           /\ migration_pending # k /\ enable.ends # k
                           /\ \A j \in Caller : use[j] # k
                           /\ \A c \in CPU : \A w \in Works(c) : w.own # k
    BY DEF RequestOutlivesUse
  <2>1. pend[k].refs = Cardinality({j \in Caller : use[j] = k /\ pc[j] # "complete_return"})
    BY DEF AffinityInv, RefInv, Waiters
  <2>2. ASSUME pc[k] = "idle"
        PROVE  migration_pending # k /\ \A j \in Caller : use[j] # k
    <3>1. use[k] # k
      BY <2>2, NoneAssumption DEF AffinityInv, LiveInv
    <3> QED
      BY <2>2, <3>1 DEF AffinityInv, LiveInv
  <2>3. ASSUME pc[k] = "idle", NEW c \in CPU, NEW w \in Works(c), w.own = k
        PROVE  FALSE
    <3>1. ~StopperEnds(c, k)
      BY <2>3 DEF AffinityInv, EndInv, EndOnce, EnableEndsOnce
    <3>2. ~InHand(c, k) /\ \A n \in Nat : ~InQueue(c, n, k)
      BY <2>2, <2>3 DEF AffinityInv, StopInv, Installed
    <3> QED
      BY <2>3, <3>1, <3>2, ServesIsPlaced
  <2>4. pc[k] = "idle" => enable.ends # k
    BY DEF AffinityInv, EndInv, EnableEndsOnce, EnableEnds
  <2> QED
    BY <2>1, <2>2, <2>3, <2>4
<1> QED
  BY <1>1, AffinityHolds, PTL

(* A CPU that dies has been vacated, and nr_pinned counts the regions.     *)
THEOREM DyingCpusAreVacated == Spec => []DyingIsVacated
<1>1. AffinityInv => DyingIsVacated
  BY DEF AffinityInv, PinInv, DyingIsVacated
<1> QED
  BY <1>1, AffinityHolds, PTL

(* No step of the scheduler, of a caller, of a stopper or of hotplug moves *)
(* a task that is pinned and stays pinned.                                 *)
LEMMA PinnedStaysPut ==
  ASSUME AffinityInv, [Next]_vars, AlwaysReset, Pinned
  PROVE  UNCHANGED cpu
<1>. USE NoneAssumption
<1>1. TypeOK /\ PinInv
  BY DEF AffinityInv
<1>2. Ptr = {cpu} \/ OnCpu
  <2>1. OnCpu \/ cpus_ptr = cpu
    BY <1>1 DEF PinInv
  <2>2. cpu # None
    BY <1>1 DEF TypeOK
  <2> QED
    BY <2>1, <2>2 DEF Ptr
<1>3. ASSUME Scheduling
      PROVE  UNCHANGED cpu
  <2>1. ASSUME NEW c \in CPU, Wake(c)
        PROVE  UNCHANGED cpu
    <3>1. ~OnCpu /\ Fallback(c) /\ cpu' = c
      BY <2>1 DEF Wake, OnCpu
    <3> QED
      BY <1>1, <3>1, FallbackLands DEF Lands
  <2>2. ASSUME NEW c \in CPU, Balance(c)
        PROVE  UNCHANGED cpu
    BY <1>2, <2>2 DEF Balance, OnCpu
  <2> QED
    BY <1>3, <2>1, <2>2 DEF Scheduling, Preempt, Block, Resume, TakeIpi, RtPush, sched_exec,
       pVars
<1>4. ASSUME Migrate
      PROVE  UNCHANGED cpu
  BY <1>4 DEF Migrate, migrate_disable, EnableFast, EnableSlow, EnableRest, EnablePush,
     EnableComplete, EnableKick, EnableClear
<1>5. ASSUME NEW k \in Caller, Call(k)
      PROVE  UNCHANGED cpu
  BY <1>5 DEF Call, set_cpus_allowed_ptr, AffineStay, AffineMove, Kick, Complete, Wait,
       Own, pVars
<1>6. ASSUME NEW c \in CPU, Stopper(c)
      PROVE  UNCHANGED cpu
  <2>1. CASE migration_cpu_stop(c)
    BY <2>1 DEF migration_cpu_stop, MigrationHere, MigrationElsewhere, Bails
  <2>2. CASE balance_push_cpu_stop(c)
    <3>1. CASE UNCHANGED cpu
      BY <3>1
    <3>2. CASE run = "queued" /\ \E d \in CPU : Fallback(d) /\ cpu' = d
      <4>1. PICK d \in CPU : Fallback(d) /\ cpu' = d /\ ~OnCpu
        BY <3>2 DEF OnCpu
      <4> QED
        BY <1>1, <4>1, FallbackLands DEF Lands
    <3> QED
      BY <2>2, <3>1, <3>2 DEF balance_push_cpu_stop
  <2> QED
    BY <1>6, <2>1, <2>2 DEF Stopper, StopperStart, StopperComplete, StopperChase,
       push_cpu_stop, find_lock_rq, pVars
<1>7. ASSUME NEW c \in CPU, HotplugStep(c)
      PROVE  UNCHANGED cpu
  BY <1>7 DEF HotplugStep, sched_cpu_deactivate, CpusetRefuses, sched_cpu_wait_empty,
     sched_cpu_dying, sched_cpu_starting, sched_cpu_activate, NotHp, pVars
<1> QED
  BY <1>3, <1>4, <1>5, <1>6, <1>7 DEF Next, vars, pVars

(* A task stays where it is throughout its migrate-disabled region.        *)
THEOREM PinnedTaskStays == Spec => PinnedStays
<1>1. AffinityInv /\ [Next]_vars => [AlwaysReset /\ Pinned /\ Pinned' => cpu' = cpu]_vars
  BY PinnedStaysPut
<1> QED
  BY <1>1, AffinityHolds, PTL DEF Spec, PinnedStays
=============================================================================
