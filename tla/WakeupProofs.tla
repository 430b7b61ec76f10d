---------------------------- MODULE WakeupProofs ----------------------------
(***************************************************************************)
(* The invariants of blocking and waking, for any number of CPUs and       *)
(* tasks: where a task is, who will queue it and who will see that its     *)
(* condition is true (WakingInv), and what the counters count (CountInv).  *)
(*                                                                         *)
(* First sums over finite sets, then WakingInv, one lemma per action or    *)
(* branch of an action; then CountInv on top of it; then the properties.   *)
(***************************************************************************)
EXTENDS WakeupProps, FiniteSetTheorems, TLAPS

-----------------------------------------------------------------------------
(* A sum over a set is the last of the sums over its subsets, each of      *)
(* which adds one element to a smaller one.                                *)
Sum(f, S) == MapThenSumSet(LAMBDA c : f[c], S)
Pick(s) == CHOOSE x \in s : TRUE
Added(f, g, s) == IF s = {} THEN 0 ELSE f[Pick(s)] + g[s \ {Pick(s)}]
Sums(f, S) == CHOOSE g : g = [s \in SUBSET S |-> Added(f, g, s)]

(* A set of naturals has a least member. *)
LEMMA NatMin ==
  ASSUME NEW S \in SUBSET Nat, S # {}
  PROVE  \E x \in S : \A y \in S : x =< y
<1>1. PICK x \in S : \A y \in S : ~(<<y, x>> \in OpToRel(<, Nat))
  BY NatLessThanWellFounded, WFMin
<1>2. ASSUME NEW y \in S PROVE x =< y
  <2>1. <<y, x>> \in Nat \X Nat /\ <<y, x>>[1] = y /\ <<y, x>>[2] = x
    OBVIOUS
  <2>2. ~(y < x)
    BY <1>1, <2>1, Zenon DEF OpToRel
  <2> QED
    BY <2>2
<1> QED
  BY <1>2

(* Induction over the naturals, for a set instead of a predicate.         *)
LEMMA NatInduct ==
  ASSUME NEW G, 0 \in G, \A n \in Nat : n \in G => n + 1 \in G
  PROVE  Nat \subseteq G
<1>1. ASSUME Nat \ G # {} PROVE FALSE
  <2>1. PICK n \in Nat \ G : \A m \in Nat \ G : n =< m
    BY <1>1, NatMin
  <2>2. n - 1 \in Nat /\ n - 1 \in G
    BY <2>1
  <2> QED
    BY <2>1, <2>2
<1> QED
  BY <1>1

(* Induction over the subsets of a finite set, one element at a time.      *)
LEMMA SetInduct ==
  ASSUME NEW S, IsFiniteSet(S), NEW G, {} \in G,
         \A s \in SUBSET S : s # {} /\ s \ {Pick(s)} \in G => s \in G
  PROVE  \A s \in SUBSET S : s \in G
<1>. DEFINE Sized == {n \in Nat : \A s \in SUBSET S : Cardinality(s) = n => s \in G}
<1>1. \A s \in SUBSET S : IsFiniteSet(s) /\ Cardinality(s) \in Nat
  BY FS_Subset, FS_CardinalityType
<1>2. 0 \in Sized
  BY <1>1, FS_EmptySet
<1>3. ASSUME NEW n \in Nat, n \in Sized PROVE n + 1 \in Sized
  <2>1. SUFFICES ASSUME NEW s \in SUBSET S, Cardinality(s) = n + 1 PROVE s \in G
    OBVIOUS
  <2>2. s # {}
    BY <2>1, <1>1, FS_EmptySet
  <2>3. Pick(s) \in s
    BY <2>2 DEF Pick
  <2>4. s \ {Pick(s)} \in SUBSET S /\ Cardinality(s \ {Pick(s)}) = n
    BY <1>1, <2>1, <2>3, FS_RemoveElement
  <2> QED
    BY <1>3, <2>2, <2>4
<1>. HIDE DEF Sized
<1>4. Nat \subseteq Sized
  BY <1>2, <1>3, NatInduct
<1> QED
  BY <1>1, <1>4 DEF Sized

(* The function of the sums over all subsets exists: it is extended by     *)
(* one cardinality at a time.                                              *)
LEMMA SumsExist ==
  ASSUME NEW S, IsFiniteSet(S), NEW f
  PROVE  \E g : g = [s \in SUBSET S |-> Added(f, g, s)]
<1>. DEFINE Small(n) == {s \in SUBSET S : Cardinality(s) =< n}
            Good == {n \in Nat : \E g : g = [s \in Small(n) |-> Added(f, g, s)]}
<1>1. \A s \in SUBSET S : IsFiniteSet(s) /\ Cardinality(s) \in Nat
  BY FS_Subset, FS_CardinalityType
<1>2. 0 \in Good
  <2>. DEFINE g == [s \in Small(0) |-> 0]
  <2>1. \A s \in Small(0) : s = {}
    BY <1>1, FS_EmptySet
  <2>2. g = [s \in Small(0) |-> Added(f, g, s)]
    BY <2>1 DEF Added
  <2> QED
    BY <2>2
<1>3. ASSUME NEW n \in Nat, n \in Good PROVE n + 1 \in Good
  <2>1. PICK g : g = [s \in Small(n) |-> Added(f, g, s)]
    BY <1>3
  <2>. DEFINE h == [s \in Small(n + 1) |-> Added(f, g, s)]
  <2>2. ASSUME NEW s \in Small(n + 1) PROVE Added(f, g, s) = Added(f, h, s)
    <3>1. CASE s = {}
      BY <3>1 DEF Added
    <3>2. CASE s # {}
      <4>1. Pick(s) \in s
        BY <3>2 DEF Pick
      <4>2. s \ {Pick(s)} \in Small(n) /\ s \ {Pick(s)} \in Small(n + 1)
        <5>1. Cardinality(s \ {Pick(s)}) = Cardinality(s) - 1
          BY <1>1, <2>2, <4>1, FS_RemoveElement
        <5> QED
          BY <1>1, <2>2, <5>1
      <4>. DEFINE r == s \ {Pick(s)}
      <4>3. h[r] = Added(f, g, r)
        BY <4>2
      <4>4. g[r] = Added(f, g, r)
        BY <2>1, <4>2
      <4> QED
        BY <3>2, <4>3, <4>4 DEF Added
    <3> QED
      BY <3>1, <3>2
  <2>3. h = [s \in Small(n + 1) |-> Added(f, h, s)]
    BY <2>2
  <2>. HIDE DEF h
  <2>4. \E k : k = [s \in Small(n + 1) |-> Added(f, k, s)]
    BY <2>3, Zenon
  <2>5. n + 1 \in Nat
    OBVIOUS
  <2> QED
    BY <2>4, <2>5, Zenon
<1>. HIDE DEF Good
<1>4. Cardinality(S) \in Good
  BY <1>1, <1>2, <1>3, NatInduct
<1>5. Small(Cardinality(S)) = SUBSET S
  BY <1>1, FS_Subset
<1> QED
  BY <1>4, <1>5 DEF Good

(* What MapThenSumSet computes: nothing over the empty set, and one more   *)
(* element over a larger set.                                              *)
LEMMA SumsStep ==
  ASSUME NEW S, IsFiniteSet(S), NEW f \in [S -> Int]
  PROVE  /\ Sum(f, S) = Sums(f, S)[S]
         /\ Sums(f, S)[{}] = 0
         /\ \A s \in SUBSET S : s # {} =>
              /\ Pick(s) \in s
              /\ Sums(f, S)[s] = f[Pick(s)] + Sums(f, S)[s \ {Pick(s)}]
         /\ \A s \in SUBSET S : Sums(f, S)[s] \in Int
<1>1. Sum(f, S) = Sums(f, S)[S]
  BY DEF Sum, Sums, Added, Pick, MapThenSumSet, MapThenFoldSet
<1>2. Sums(f, S) = [s \in SUBSET S |-> Added(f, Sums(f, S), s)]
  BY SumsExist DEF Sums
<1>3. \A s \in SUBSET S : s # {} => Pick(s) \in s
  BY DEF Pick
<1>4. \A s \in SUBSET S : Sums(f, S)[s] = Added(f, Sums(f, S), s)
  BY <1>2
<1>. DEFINE G == {s \in SUBSET S : Sums(f, S)[s] \in Int}
<1>5. {} \in G
  <2>1. Sums(f, S)[{}] = Added(f, Sums(f, S), {})
    BY <1>4
  <2> QED
    BY <2>1 DEF Added
<1>6. ASSUME NEW s \in SUBSET S, s # {}, s \ {Pick(s)} \in G PROVE s \in G
  <2>1. Sums(f, S)[s] = f[Pick(s)] + Sums(f, S)[s \ {Pick(s)}]
    BY <1>4, <1>6 DEF Added
  <2>2. f[Pick(s)] \in Int
    BY <1>3, <1>6
  <2> QED
    BY <1>6, <2>1, <2>2
<1>7. \A s \in SUBSET S : s \in G
  <2>. HIDE DEF G
  <2> QED
    BY <1>5, <1>6, SetInduct
<1> QED
  BY <1>1, <1>3, <1>4, <1>7 DEF Added

(* A function that changes at one place changes its sum by as much.        *)
LEMMA SumChange ==
  ASSUME NEW S, IsFiniteSet(S), NEW f \in [S -> Int], NEW h \in [S -> Int],
         NEW x \in S, \A y \in S \ {x} : h[y] = f[y]
  PROVE  Sum(h, S) = Sum(f, S) + h[x] - f[x]
<1>. DEFINE G == {s \in SUBSET S :
                    Sums(h, S)[s] = Sums(f, S)[s] + (IF x \in s THEN h[x] - f[x] ELSE 0)}
<1>1. {} \in G
  BY SumsStep
<1>2. ASSUME NEW s \in SUBSET S, s # {}, s \ {Pick(s)} \in G PROVE s \in G
  <2>. DEFINE r == s \ {Pick(s)}
  <2>1. /\ Pick(s) \in s
        /\ Sums(h, S)[s] = h[Pick(s)] + Sums(h, S)[r]
        /\ Sums(f, S)[s] = f[Pick(s)] + Sums(f, S)[r]
    BY <1>2, SumsStep
  <2>2. Sums(h, S)[r] \in Int /\ Sums(f, S)[r] \in Int
    BY SumsStep
  <2>3. Sums(h, S)[r] = Sums(f, S)[r] + (IF x \in r THEN h[x] - f[x] ELSE 0)
    BY <1>2
  <2> QED
    BY <2>1, <2>2, <2>3
<1>3. S \in G
  <2>. HIDE DEF G
  <2> QED
    BY <1>1, <1>2, SetInduct
<1> QED
  BY <1>3, SumsStep

(* The sizes of the parts of a partition sum up to the size of the whole.  *)
LEMMA SumOfParts ==
  ASSUME NEW S, IsFiniteSet(S), NEW T, IsFiniteSet(T), NEW place \in [T -> S],
         NEW f \in [S -> Int],
         \A c \in S : f[c] = Cardinality({t \in T : place[t] = c})
  PROVE  Sum(f, S) = Cardinality(T)
<1>. DEFINE In(s) == {t \in T : place[t] \in s}
            G == {s \in SUBSET S : Sums(f, S)[s] = Cardinality(In(s))}
<1>1. {} \in G
  BY SumsStep, FS_EmptySet
<1>2. ASSUME NEW s \in SUBSET S, s # {}, s \ {Pick(s)} \in G PROVE s \in G
  <2>. DEFINE r == s \ {Pick(s)}
              x == Pick(s)
              A == {t \in T : place[t] = x}
  <2>1. x \in s /\ Sums(f, S)[s] = f[x] + Sums(f, S)[r]
    BY <1>2, SumsStep
  <2>2. IsFiniteSet(A) /\ IsFiniteSet(In(r)) /\ A \cap In(r) = {} /\ In(s) = A \cup In(r)
    BY <2>1, FS_Subset
  <2>3. Cardinality(In(s)) = Cardinality(A) + Cardinality(In(r))
    <3>1. Cardinality(A \cup In(r)) = Cardinality(A) + Cardinality(In(r)) - Cardinality(A \cap In(r))
      BY <2>2, FS_Union
    <3>2. Cardinality(A \cap In(r)) = 0
      BY <2>2, FS_EmptySet
    <3>3. Cardinality(A) \in Nat /\ Cardinality(In(r)) \in Nat
      BY <2>2, FS_CardinalityType
    <3>4. Cardinality(In(s)) = Cardinality(A \cup In(r))
      BY <2>2, Zenon
    <3>. HIDE DEF A, In, r
    <3> QED
      BY <3>1, <3>2, <3>3, <3>4
  <2> QED
    BY <1>2, <2>1, <2>3
<1>3. S \in G
  <2>. HIDE DEF G
  <2> QED
    BY <1>1, <1>2, SetInduct
<1>4. In(S) = T
  OBVIOUS
<1> QED
  BY <1>3, <1>4, SumsStep

(* A multiple of the modulus does not count. *)
LEMMA ModShift ==
  ASSUME NEW M \in Nat \ {0}, NEW k \in Int, NEW r \in 0 .. M - 1
  PROVE  (k * M + r) % M = r
  OBVIOUS

-----------------------------------------------------------------------------
(* The parts of a CPU's operation. *)
PC == {"run", "s_lock", "s_block", "s_switch", "s_finish", "s_clear", "s_unlock",
       "w_match", "w_on_rq", "w_task_rq", "w_runnable", "w_waking",
       "w_on_cpu", "w_select", "w_queue", "w_list", "i_lock", "i_wake", "n_queue", "m_attach"}
RqHeld == {"s_block", "s_switch", "s_finish", "s_clear", "s_unlock", "i_wake"}
Matched == {"w_on_rq", "w_task_rq", "w_runnable", "w_waking"}
Waking == {"w_on_cpu", "w_select", "w_queue", "w_list"}
PiHeld == Matched \cup Waking \cup {"n_queue"}
States == {"RUNNING"} \cup NotRunning

(* The types that TypeOK leaves out; nr_running is the business of CountInv. *)
TypeInv ==
  /\ state \in [Task -> States] /\ onRq \in [Task -> {"off", "queued", "migrating"}]
  /\ onCpu \in [Task -> BOOLEAN] /\ taskCpu \in [Task -> CPU]
  /\ contrib \in [Task -> BOOLEAN] /\ iowait \in [Task -> BOOLEAN] /\ remote \in [Task -> BOOLEAN]
  /\ cond \in [Task -> BOOLEAN] /\ signal \in [Task -> BOOLEAN]
  /\ loc \in [Task -> {"work", "check", "sched", "back", "dead", "gone"}]
  /\ drops \in [Task -> {0, 1}] /\ piLock \in [Task -> CPU \cup {NoCpu}]
  /\ curr \in [CPU -> Task \cup {Idle}] /\ queue \in [CPU -> SUBSET Task]
  /\ wakeList \in [CPU -> SUBSET Task] /\ pending \in [CPU -> BOOLEAN]
  /\ rqLock \in [CPU -> CPU \cup {NoCpu}] /\ pc \in [CPU -> PC]
  /\ tgt \in [CPU -> Task \cup {Idle}] /\ seen \in [CPU -> States] /\ atCpu \in [CPU -> CPU]
  /\ mask \in [CPU -> {{}, {"INTERRUPTIBLE"}, Sleeping, NotRunning}]
  /\ moved \in [CPU -> BOOLEAN] /\ batch \in [CPU -> SUBSET Task]

(* Who holds what lock, and what an operation works on.                    *)
LockInv ==
  /\ \A c \in CPU : rqLock[c] = IF pc[c] \in RqHeld THEN c ELSE NoCpu
  /\ \A c \in CPU, t \in Task : piLock[t] = c <=> tgt[c] = t /\ pc[c] \in PiHeld
  /\ \A c \in CPU : pc[c] \in PiHeld \cup {"w_match", "m_attach"} => tgt[c] \in Task
  /\ \A c \in CPU : pc[c] = "w_match" => mask[c] \subseteq Sleeping

(* Where a task runs, or is still being switched away from.                *)
RunsOn(c, t) == curr[c] = t \/ (pc[c] \in {"s_finish", "s_clear"} /\ tgt[c] = t)

PlaceInv ==
  /\ \A c \in CPU, t \in Task : RunsOn(c, t) => onCpu[t] /\ taskCpu[t] = c
  /\ \A t \in Task : onCpu[t] => RunsOn(taskCpu[t], t)
  /\ \A c \in CPU : curr[c] \in Task /\ pc[c] # "s_switch" => onRq[curr[c]] = "queued"
  /\ \A c \in CPU : pc[c] \in {"s_lock", "s_block", "s_switch"} => tgt[c] = curr[c]
  /\ \A c \in CPU : pc[c] \in {"s_finish", "s_clear"} => tgt[c] # curr[c]
  /\ \A c \in CPU : queue[c] = {t \in Task : onRq[t] = "queued" /\ taskCpu[t] = c}

(* A task that is not queued: who will queue it.                           *)
Listed(c) == wakeList[c] \cup batch[c]

StateInv ==
  /\ \A t \in Task : onRq[t] # "off" => state[t] \in {"RUNNING", "DEAD"} \cup Sleeping
  /\ \A t \in Task : onRq[t] = "off" /\ state[t] = "RUNNING" =>
                       piLock[t] \in CPU /\ pc[piLock[t]] = "n_queue"
  /\ \A t \in Task : state[t] = "NEW" => ~onCpu[t]
  /\ \A t \in Task : state[t] = "WAKING" => piLock[t] \in CPU \/ t \in Listed(taskCpu[t])
  /\ \A c \in CPU : pc[c] = "s_block" =>
                      seen[c] = IF tgt[c] = Idle THEN "RUNNING" ELSE state[tgt[c]]
  /\ \A c \in CPU : pc[c] = "n_queue" =>
       state[tgt[c]] = "RUNNING" /\ onRq[tgt[c]] = "off" /\ ~onCpu[tgt[c]]
         /\ taskCpu[tgt[c]] = atCpu[c]

WakeInv ==
  /\ \A c \in CPU : pc[c] \in Matched => state[tgt[c]] \in {"RUNNING"} \cup Sleeping
  /\ \A c \in CPU : pc[c] = "w_waking" => onRq[tgt[c]] = "off"
  /\ \A c \in CPU : pc[c] \in Waking =>
       onRq[tgt[c]] = "off" /\ state[tgt[c]] = "WAKING"
         /\ \A d \in CPU : tgt[c] \notin Listed(d)
  /\ \A c \in CPU : pc[c] = "w_queue" => ~onCpu[tgt[c]]
  /\ \A c \in CPU : pc[c] \in {"w_queue", "w_list"} => taskCpu[tgt[c]] = atCpu[c]
  /\ \A c \in CPU : \A t \in Listed(c) :
       state[t] = "WAKING" /\ onRq[t] = "off" /\ taskCpu[t] = c
  /\ \A c \in CPU : wakeList[c] \cap batch[c] = {}
  /\ \A c \in CPU : batch[c] # {} => pc[c] \in {"i_lock", "i_wake"}
  /\ \A c \in CPU : pc[c] = "i_lock" => batch[c] # {}
  /\ \A c \in CPU : pc[c] = "i_wake" /\ batch[c] = {} => queue[c] # {}

(* A migrating task is one CPU's business.                                 *)
MoveInv ==
  /\ \A c \in CPU : pc[c] = "m_attach" =>
       onRq[tgt[c]] = "migrating" /\ ~onCpu[tgt[c]] /\ taskCpu[tgt[c]] = atCpu[c]
  /\ \A c, d \in CPU : pc[c] = "m_attach" /\ pc[d] = "m_attach" /\ tgt[c] = tgt[d] => c = d

(* Where a task is in its wait loop, and in its exit.                      *)
LocInv ==
  /\ \A t \in Task : state[t] = "DEAD" <=> loc[t] \in {"dead", "gone"}
  /\ \A t \in Task : loc[t] = "dead" =>
       LET c == taskCpu[t] IN
         curr[c] = t /\ pc[c] \notin {"s_lock", "s_block", "s_switch", "s_finish", "s_clear", "s_unlock"}
  /\ \A t \in Task : loc[t] = "gone" /\ onRq[t] # "off" =>
       LET c == taskCpu[t] IN
         curr[c] = t /\ pc[c] \in {"s_lock", "s_block"} /\ mask[c] = NotRunning
  /\ \A t \in Task : onRq[t] = "off" /\ state[t] \in Sleeping \cup {"WAKING"} => loc[t] = "back"
  /\ \A c \in CPU : pc[c] \in {"s_lock", "s_block"} /\ tgt[c] \in Task /\ mask[c] # {} =>
       loc[tgt[c]] \in {"back", "gone"}

(* The last reference of a dead task.                                      *)
DropInv ==
  /\ \A t \in Task : drops[t] = 1 => state[t] = "DEAD" /\ onRq[t] = "off" /\ ~onCpu[t]
  /\ \A c \in CPU : pc[c] \in {"s_clear", "s_unlock"} /\ seen[c] = "DEAD" =>
       /\ tgt[c] \in Task /\ state[tgt[c]] = "DEAD" /\ onRq[tgt[c]] = "off"
       /\ taskCpu[tgt[c]] = c /\ drops[tgt[c]] = 0
       /\ pc[c] = "s_unlock" => ~onCpu[tgt[c]]

(* Who will see that the condition of a task is true.                      *)
Waker(c, t) ==
  tgt[c] = t /\ (pc[c] \in Matched \/ (pc[c] = "w_match" /\ mask[c] = Sleeping))

HandledInv ==
  \A t \in Task : cond[t] /\ state[t] \in Sleeping /\ loc[t] \in {"sched", "back"} =>
    \E c \in CPU : Waker(c, t)

(* The inductive invariant of all of it. *)
WakingInv ==
  /\ TypeInv /\ LockInv /\ PlaceInv /\ StateInv /\ WakeInv
  /\ MoveInv /\ LocInv /\ DropInv /\ HandledInv

-----------------------------------------------------------------------------
(* The steps of the system and WakingInv. *)

(* set_current_state: the current task is queued here, so nothing else     *)
(* waits for the state.                                                    *)
LEMMA SetStateStep ==
  ASSUME WakingInv, NEW c \in CPU, NEW t \in Task, SetState(c, t)
  PROVE  WakingInv'
<1>. USE IdleAssumption, NoCpuAssumption, AllowedAssumption, SleepAssumption
<1>. USE DEF WakingInv, TypeInv, PC, RqHeld, Matched, Waking, PiHeld, States, NotRunning,
         Sleeping, flags, user, counts, locals, Goto
<1>1. pc[c] = "run" /\ curr[c] = t /\ loc[t] \in {"work", "back"}
       /\ state' = [state EXCEPT ![t] = Sleep[t]] /\ loc' = [loc EXCEPT ![t] = "check"]
       /\ iowait' = [iowait EXCEPT ![t] = FALSE]
       /\ UNCHANGED <<onRq, onCpu, taskCpu, contrib, remote, cond, signal, drops, piLock, curr,
                      queue, counts, wakeList, pending, rqLock, pc, locals>>
  BY DEF SetState, Running, flags, user, counts, locals, Goto
<1>2. onRq[t] = "queued" /\ taskCpu[t] = c /\ onCpu[t]
  BY <1>1 DEF PlaceInv, RunsOn
<1>3. state[t] \in {"RUNNING", "DEAD"} \cup Sleeping
  BY <1>1, <1>2 DEF StateInv
<1>4. state[t] # "DEAD"
  BY <1>1 DEF LocInv
<1>5. Sleep[t] \in Sleeping
  BY SleepAssumption
<1>6. \A u \in Task : state'[u] = IF u = t THEN Sleep[t] ELSE state[u]
  BY <1>1
<1>7. TypeInv'
  BY <1>1, <1>2, <1>3, <1>4, <1>5, <1>6
<1>8. LockInv'
  BY <1>1, <1>2, <1>3, <1>4, <1>5, <1>6 DEF LockInv
<1>9. PlaceInv'
  BY <1>1, <1>2, <1>3, <1>4, <1>5, <1>6 DEF PlaceInv, RunsOn
<1>10. StateInv'
  BY <1>1, <1>2, <1>3, <1>4, <1>5, <1>6 DEF StateInv, Listed, LockInv, PlaceInv, RunsOn
<1>11. WakeInv'
  <2>1. (\A p \in CPU : pc[p] \in Matched => state[tgt[p]] \in {"RUNNING"} \cup Sleeping)'
    BY <1>1, <1>2, <1>3, <1>4, <1>5, <1>6 DEF WakeInv, Listed
  <2>2. (\A p \in CPU : pc[p] = "w_waking" => onRq[tgt[p]] = "off")'
    BY <1>1, <1>2, <1>3, <1>4, <1>5, <1>6 DEF WakeInv, Listed
  <2>3. (\A p \in CPU : pc[p] \in Waking =>
          onRq[tgt[p]] = "off" /\ state[tgt[p]] = "WAKING"
            /\ \A d \in CPU : tgt[p] \notin Listed(d))'
    BY <1>1, <1>2, <1>3, <1>4, <1>5, <1>6 DEF WakeInv, Listed
  <2>4. (\A p \in CPU : pc[p] = "w_queue" => ~onCpu[tgt[p]])'
    BY <1>1, <1>2, <1>3, <1>4, <1>5, <1>6 DEF WakeInv, Listed
  <2>5. (\A p \in CPU : pc[p] \in {"w_queue", "w_list"} => taskCpu[tgt[p]] = atCpu[p])'
    BY <1>1, <1>2, <1>3, <1>4, <1>5, <1>6 DEF WakeInv, Listed
  <2>6. (\A p \in CPU : \A s \in Listed(p) :
          state[s] = "WAKING" /\ onRq[s] = "off" /\ taskCpu[s] = p)'
    BY <1>1, <1>2, <1>3, <1>4, <1>5, <1>6 DEF WakeInv, Listed
  <2>7. (\A p \in CPU : wakeList[p] \cap batch[p] = {})'
    BY <1>1, <1>2, <1>3, <1>4, <1>5, <1>6 DEF WakeInv, Listed
  <2>8. (\A p \in CPU : batch[p] # {} => pc[p] \in {"i_lock", "i_wake"})'
    BY <1>1, <1>2, <1>3, <1>4, <1>5, <1>6 DEF WakeInv, Listed
  <2>9. (\A p \in CPU : pc[p] = "i_lock" => batch[p] # {})'
    BY <1>1, <1>2, <1>3, <1>4, <1>5, <1>6 DEF WakeInv, Listed
  <2>10. ASSUME NEW d \in CPU, pc'[d] = "i_wake", batch'[d] = {} PROVE queue'[d] # {}
    <3>1. pc[d] = "i_wake" /\ batch[d] = {} /\ queue[d] \subseteq queue'[d]
      BY <2>10, <1>1, <1>2, <1>3, <1>4, <1>5, <1>6 DEF LockInv
    <3>2. queue[d] # {}
      BY <3>1 DEF WakeInv
    <3> QED
      BY <3>1, <3>2
  <2> QED
    BY <2>1, <2>2, <2>3, <2>4, <2>5, <2>6, <2>7, <2>8, <2>9, <2>10 DEF WakeInv, Listed
<1>12. MoveInv'
  BY <1>1, <1>2, <1>3, <1>4, <1>5, <1>6 DEF MoveInv
<1>13. LocInv'
  BY <1>1, <1>2, <1>3, <1>4, <1>5, <1>6 DEF LocInv, LockInv, PlaceInv, RunsOn
<1>14. DropInv'
  BY <1>1, <1>2, <1>3, <1>4, <1>5, <1>6 DEF DropInv
<1>15. HandledInv'
  <2>1. ASSUME NEW u \in Task, cond'[u], state'[u] \in Sleeping, loc'[u] \in {"sched", "back"}
        PROVE  \E d \in CPU : Waker(d, u)'
    <3>1. cond[u] /\ state[u] \in Sleeping /\ loc[u] \in {"sched", "back"}
      BY <2>1, <1>1, <1>2, <1>3, <1>4, <1>5, <1>6
    <3>2. PICK d \in CPU : Waker(d, u)
      BY <3>1 DEF HandledInv
    <3>3. Waker(d, u)'
      BY <2>1, <3>1, <3>2, <1>1, <1>2, <1>3, <1>4, <1>5, <1>6 DEF Waker
    <3> QED
      BY <3>3
  <2> QED
    BY <2>1 DEF HandledInv
<1> QED
  BY <1>7, <1>8, <1>9, <1>10, <1>11, <1>12, <1>13, <1>14, <1>15

(* The loop ends: the current task is runnable again.                      *)
LEMMA ConditionMetStep ==
  ASSUME WakingInv, NEW c \in CPU, NEW t \in Task, CheckCondition(c, t),
         cond[t] \/ Interrupted(t)
  PROVE  WakingInv'
<1>. USE IdleAssumption, NoCpuAssumption, AllowedAssumption, SleepAssumption
<1>. USE DEF WakingInv, TypeInv, PC, RqHeld, Matched, Waking, PiHeld, States, NotRunning,
         Sleeping, flags, user, counts, locals, Goto
<1>1. pc[c] = "run" /\ curr[c] = t /\ loc[t] = "check"
       /\ state' = [state EXCEPT ![t] = "RUNNING"] /\ loc' = [loc EXCEPT ![t] = "work"]
       /\ cond' = [cond EXCEPT ![t] = FALSE] /\ signal' = [signal EXCEPT ![t] = FALSE]
       /\ UNCHANGED <<onRq, onCpu, taskCpu, flags, drops, piLock, curr,
                      queue, counts, wakeList, pending, rqLock, pc, locals>>
  BY DEF CheckCondition, Running, Interrupted, flags, user, counts, locals, Goto
<1>2. onRq[t] = "queued" /\ taskCpu[t] = c /\ onCpu[t]
  BY <1>1 DEF PlaceInv, RunsOn
<1>3. state[t] \in {"RUNNING", "DEAD"} \cup Sleeping
  BY <1>1, <1>2 DEF StateInv
<1>4. state[t] # "DEAD"
  BY <1>1 DEF LocInv
<1>5. TypeInv'
  BY <1>1, <1>2, <1>3, <1>4
<1>6. LockInv'
  BY <1>1, <1>2, <1>3, <1>4 DEF LockInv
<1>7. PlaceInv'
  BY <1>1, <1>2, <1>3, <1>4 DEF PlaceInv, RunsOn
<1>8. StateInv'
  BY <1>1, <1>2, <1>3, <1>4 DEF StateInv, Listed, LockInv, PlaceInv, RunsOn
<1>9. WakeInv'
  <2>1. (\A p \in CPU : pc[p] \in Matched => state[tgt[p]] \in {"RUNNING"} \cup Sleeping)'
    BY <1>1, <1>2, <1>3, <1>4 DEF WakeInv, Listed
  <2>2. (\A p \in CPU : pc[p] = "w_waking" => onRq[tgt[p]] = "off")'
    BY <1>1, <1>2, <1>3, <1>4 DEF WakeInv, Listed
  <2>3. (\A p \in CPU : pc[p] \in Waking =>
          onRq[tgt[p]] = "off" /\ state[tgt[p]] = "WAKING"
            /\ \A d \in CPU : tgt[p] \notin Listed(d))'
    BY <1>1, <1>2, <1>3, <1>4 DEF WakeInv, Listed
  <2>4. (\A p \in CPU : pc[p] = "w_queue" => ~onCpu[tgt[p]])'
    BY <1>1, <1>2, <1>3, <1>4 DEF WakeInv, Listed
  <2>5. (\A p \in CPU : pc[p] \in {"w_queue", "w_list"} => taskCpu[tgt[p]] = atCpu[p])'
    BY <1>1, <1>2, <1>3, <1>4 DEF WakeInv, Listed
  <2>6. (\A p \in CPU : \A s \in Listed(p) :
          state[s] = "WAKING" /\ onRq[s] = "off" /\ taskCpu[s] = p)'
    BY <1>1, <1>2, <1>3, <1>4 DEF WakeInv, Listed
  <2>7. (\A p \in CPU : wakeList[p] \cap batch[p] = {})'
    BY <1>1, <1>2, <1>3, <1>4 DEF WakeInv, Listed
  <2>8. (\A p \in CPU : batch[p] # {} => pc[p] \in {"i_lock", "i_wake"})'
    BY <1>1, <1>2, <1>3, <1>4 DEF WakeInv, Listed
  <2>9. (\A p \in CPU : pc[p] = "i_lock" => batch[p] # {})'
    BY <1>1, <1>2, <1>3, <1>4 DEF WakeInv, Listed
  <2>10. ASSUME NEW d \in CPU, pc'[d] = "i_wake", batch'[d] = {} PROVE queue'[d] # {}
    <3>1. pc[d] = "i_wake" /\ batch[d] = {} /\ queue[d] \subseteq queue'[d]
      BY <2>10, <1>1, <1>2, <1>3, <1>4 DEF LockInv
    <3>2. queue[d] # {}
      BY <3>1 DEF WakeInv
    <3> QED
      BY <3>1, <3>2
  <2> QED
    BY <2>1, <2>2, <2>3, <2>4, <2>5, <2>6, <2>7, <2>8, <2>9, <2>10 DEF WakeInv, Listed
<1>10. MoveInv'
  BY <1>1, <1>2, <1>3, <1>4 DEF MoveInv
<1>11. LocInv'
  BY <1>1, <1>2, <1>3, <1>4 DEF LocInv
<1>12. DropInv'
  BY <1>1, <1>2, <1>3, <1>4 DEF DropInv
<1>13. HandledInv'
  <2>1. ASSUME NEW u \in Task, cond'[u], state'[u] \in Sleeping, loc'[u] \in {"sched", "back"}
        PROVE  \E d \in CPU : Waker(d, u)'
    <3>1. cond[u] /\ state[u] \in Sleeping /\ loc[u] \in {"sched", "back"}
      BY <2>1, <1>1, <1>2, <1>3, <1>4
    <3>2. PICK d \in CPU : Waker(d, u)
      BY <3>1 DEF HandledInv
    <3>3. Waker(d, u)'
      BY <2>1, <3>1, <3>2, <1>1, <1>2, <1>3, <1>4 DEF Waker
    <3> QED
      BY <3>3
  <2> QED
    BY <2>1 DEF HandledInv
<1> QED
  BY <1>5, <1>6, <1>7, <1>8, <1>9, <1>10, <1>11, <1>12, <1>13

(* A false condition needs no waker when the task goes on to schedule().   *)
LEMMA ConditionUnmetStep ==
  ASSUME WakingInv, NEW c \in CPU, NEW t \in Task, CheckCondition(c, t),
         ~(cond[t] \/ Interrupted(t))
  PROVE  WakingInv'
<1>. USE IdleAssumption, NoCpuAssumption, AllowedAssumption, SleepAssumption
<1>. USE DEF WakingInv, TypeInv, PC, RqHeld, Matched, Waking, PiHeld, States, NotRunning,
         Sleeping, flags, user, counts, locals, Goto
<1>1. pc[c] = "run" /\ curr[c] = t /\ loc[t] = "check" /\ ~cond[t]
       /\ loc' = [loc EXCEPT ![t] = "sched"] /\ iowait' = [iowait EXCEPT ![t] = t \in IoTask]
       /\ UNCHANGED <<state, onRq, onCpu, taskCpu, contrib, remote, cond, signal, drops, piLock, curr,
                      queue, counts, wakeList, pending, rqLock, pc, locals>>
  BY DEF CheckCondition, Running, Interrupted, flags, user, counts, locals, Goto
<1>2. onRq[t] = "queued" /\ taskCpu[t] = c /\ onCpu[t]
  BY <1>1 DEF PlaceInv, RunsOn
<1>3. state[t] \in {"RUNNING", "DEAD"} \cup Sleeping
  BY <1>1, <1>2 DEF StateInv
<1>4. state[t] # "DEAD"
  BY <1>1 DEF LocInv
<1>5. TypeInv'
  <2>1. (state \in [Task -> States] /\ onRq \in [Task -> {"off", "queued", "migrating"}])'
    BY <1>1, <1>2, <1>3, <1>4
  <2>2. (onCpu \in [Task -> BOOLEAN] /\ taskCpu \in [Task -> CPU])'
    BY <1>1, <1>2, <1>3, <1>4
  <2>3. (contrib \in [Task -> BOOLEAN] /\ iowait \in [Task -> BOOLEAN] /\ remote \in [Task -> BOOLEAN])'
    BY <1>1, <1>2, <1>3, <1>4
  <2>4. (cond \in [Task -> BOOLEAN] /\ signal \in [Task -> BOOLEAN])'
    BY <1>1, <1>2, <1>3, <1>4
  <2>5. (loc \in [Task -> {"work", "check", "sched", "back", "dead", "gone"}])'
    BY <1>1, <1>2, <1>3, <1>4
  <2>6. (drops \in [Task -> {0, 1}] /\ piLock \in [Task -> CPU \cup {NoCpu}])'
    BY <1>1, <1>2, <1>3, <1>4
  <2>7. (curr \in [CPU -> Task \cup {Idle}] /\ queue \in [CPU -> SUBSET Task])'
    BY <1>1, <1>2, <1>3, <1>4
  <2>8. (wakeList \in [CPU -> SUBSET Task] /\ pending \in [CPU -> BOOLEAN])'
    BY <1>1, <1>2, <1>3, <1>4
  <2>9. (rqLock \in [CPU -> CPU \cup {NoCpu}] /\ pc \in [CPU -> PC])'
    BY <1>1, <1>2, <1>3, <1>4
  <2>10. (tgt \in [CPU -> Task \cup {Idle}] /\ seen \in [CPU -> States] /\ atCpu \in [CPU -> CPU])'
    BY <1>1, <1>2, <1>3, <1>4
  <2>11. (mask \in [CPU -> {{}, {"INTERRUPTIBLE"}, Sleeping, NotRunning}])'
    BY <1>1, <1>2, <1>3, <1>4
  <2>12. (moved \in [CPU -> BOOLEAN] /\ batch \in [CPU -> SUBSET Task])'
    BY <1>1, <1>2, <1>3, <1>4
  <2> QED
    BY <2>1, <2>2, <2>3, <2>4, <2>5, <2>6, <2>7, <2>8, <2>9, <2>10, <2>11, <2>12
<1>6. LockInv'
  BY <1>1, <1>2, <1>3, <1>4 DEF LockInv
<1>7. PlaceInv'
  BY <1>1, <1>2, <1>3, <1>4 DEF PlaceInv, RunsOn
<1>8. StateInv'
  BY <1>1, <1>2, <1>3, <1>4 DEF StateInv, Listed
<1>9. WakeInv'
  <2>1. (\A p \in CPU : pc[p] \in Matched => state[tgt[p]] \in {"RUNNING"} \cup Sleeping)'
    BY <1>1, <1>2, <1>3, <1>4 DEF WakeInv, Listed
  <2>2. (\A p \in CPU : pc[p] = "w_waking" => onRq[tgt[p]] = "off")'
    BY <1>1, <1>2, <1>3, <1>4 DEF WakeInv, Listed
  <2>3. (\A p \in CPU : pc[p] \in Waking =>
          onRq[tgt[p]] = "off" /\ state[tgt[p]] = "WAKING"
            /\ \A d \in CPU : tgt[p] \notin Listed(d))'
    BY <1>1, <1>2, <1>3, <1>4 DEF WakeInv, Listed
  <2>4. (\A p \in CPU : pc[p] = "w_queue" => ~onCpu[tgt[p]])'
    BY <1>1, <1>2, <1>3, <1>4 DEF WakeInv, Listed
  <2>5. (\A p \in CPU : pc[p] \in {"w_queue", "w_list"} => taskCpu[tgt[p]] = atCpu[p])'
    BY <1>1, <1>2, <1>3, <1>4 DEF WakeInv, Listed
  <2>6. (\A p \in CPU : \A s \in Listed(p) :
          state[s] = "WAKING" /\ onRq[s] = "off" /\ taskCpu[s] = p)'
    BY <1>1, <1>2, <1>3, <1>4 DEF WakeInv, Listed
  <2>7. (\A p \in CPU : wakeList[p] \cap batch[p] = {})'
    BY <1>1, <1>2, <1>3, <1>4 DEF WakeInv, Listed
  <2>8. (\A p \in CPU : batch[p] # {} => pc[p] \in {"i_lock", "i_wake"})'
    BY <1>1, <1>2, <1>3, <1>4 DEF WakeInv, Listed
  <2>9. (\A p \in CPU : pc[p] = "i_lock" => batch[p] # {})'
    BY <1>1, <1>2, <1>3, <1>4 DEF WakeInv, Listed
  <2>10. ASSUME NEW d \in CPU, pc'[d] = "i_wake", batch'[d] = {} PROVE queue'[d] # {}
    <3>1. pc[d] = "i_wake" /\ batch[d] = {} /\ queue[d] \subseteq queue'[d]
      BY <2>10, <1>1, <1>2, <1>3, <1>4 DEF LockInv
    <3>2. queue[d] # {}
      BY <3>1 DEF WakeInv
    <3> QED
      BY <3>1, <3>2
  <2> QED
    BY <2>1, <2>2, <2>3, <2>4, <2>5, <2>6, <2>7, <2>8, <2>9, <2>10 DEF WakeInv, Listed
<1>10. MoveInv'
  BY <1>1, <1>2, <1>3, <1>4 DEF MoveInv
<1>11. LocInv'
  BY <1>1, <1>2, <1>3, <1>4 DEF LocInv
<1>12. DropInv'
  BY <1>1, <1>2, <1>3, <1>4 DEF DropInv
<1>13. HandledInv'
  <2>1. ASSUME NEW u \in Task, cond'[u], state'[u] \in Sleeping, loc'[u] \in {"sched", "back"}
        PROVE  \E d \in CPU : Waker(d, u)'
    <3>1. cond[u] /\ state[u] \in Sleeping /\ loc[u] \in {"sched", "back"}
      BY <2>1, <1>1, <1>2, <1>3, <1>4
    <3>2. PICK d \in CPU : Waker(d, u)
      BY <3>1 DEF HandledInv
    <3>3. Waker(d, u)'
      BY <2>1, <3>1, <3>2, <1>1, <1>2, <1>3, <1>4 DEF Waker
    <3> QED
      BY <3>3
  <2> QED
    BY <2>1 DEF HandledInv
<1> QED
  BY <1>5, <1>6, <1>7, <1>8, <1>9, <1>10, <1>11, <1>12, <1>13

(* do_task_dead: under pi_lock no wakeup is past its state test.           *)
LEMMA ExitStep ==
  ASSUME WakingInv, NEW c \in CPU, NEW t \in Task, Exit(c, t)
  PROVE  WakingInv'
<1>. USE IdleAssumption, NoCpuAssumption, AllowedAssumption, SleepAssumption
<1>. USE DEF WakingInv, TypeInv, PC, RqHeld, Matched, Waking, PiHeld, States, NotRunning,
         Sleeping, Exit, Running, Free, flags, user, counts, locals, Goto
<1>1. onRq[t] = "queued" /\ taskCpu[t] = c /\ onCpu[t]
  BY DEF PlaceInv, RunsOn
<1>2. state[t] \in {"RUNNING", "DEAD"} \cup Sleeping
  BY <1>1 DEF StateInv
<1>3. state[t] # "DEAD"
  BY DEF LocInv
<1>4. \A d \in CPU : tgt[d] = t => pc[d] \notin PiHeld
  BY DEF LockInv
<1>5. TypeInv'
  BY <1>1, <1>2, <1>3, <1>4
<1>6. LockInv'
  BY <1>1, <1>2, <1>3, <1>4 DEF LockInv
<1>7. PlaceInv'
  BY <1>1, <1>2, <1>3, <1>4 DEF PlaceInv, RunsOn
<1>8. StateInv'
  BY <1>1, <1>2, <1>3, <1>4 DEF StateInv, Listed, LockInv, PlaceInv, RunsOn
<1>9. WakeInv'
  <2>1. (\A p \in CPU : pc[p] \in Matched => state[tgt[p]] \in {"RUNNING"} \cup Sleeping)'
    BY <1>1, <1>2, <1>3, <1>4 DEF WakeInv, Listed
  <2>2. (\A p \in CPU : pc[p] = "w_waking" => onRq[tgt[p]] = "off")'
    BY <1>1, <1>2, <1>3, <1>4 DEF WakeInv, Listed
  <2>3. (\A p \in CPU : pc[p] \in Waking =>
          onRq[tgt[p]] = "off" /\ state[tgt[p]] = "WAKING"
            /\ \A d \in CPU : tgt[p] \notin Listed(d))'
    BY <1>1, <1>2, <1>3, <1>4 DEF WakeInv, Listed
  <2>4. (\A p \in CPU : pc[p] = "w_queue" => ~onCpu[tgt[p]])'
    BY <1>1, <1>2, <1>3, <1>4 DEF WakeInv, Listed
  <2>5. (\A p \in CPU : pc[p] \in {"w_queue", "w_list"} => taskCpu[tgt[p]] = atCpu[p])'
    BY <1>1, <1>2, <1>3, <1>4 DEF WakeInv, Listed
  <2>6. (\A p \in CPU : \A s \in Listed(p) :
          state[s] = "WAKING" /\ onRq[s] = "off" /\ taskCpu[s] = p)'
    BY <1>1, <1>2, <1>3, <1>4 DEF WakeInv, Listed
  <2>7. (\A p \in CPU : wakeList[p] \cap batch[p] = {})'
    BY <1>1, <1>2, <1>3, <1>4 DEF WakeInv, Listed
  <2>8. (\A p \in CPU : batch[p] # {} => pc[p] \in {"i_lock", "i_wake"})'
    BY <1>1, <1>2, <1>3, <1>4 DEF WakeInv, Listed
  <2>9. (\A p \in CPU : pc[p] = "i_lock" => batch[p] # {})'
    BY <1>1, <1>2, <1>3, <1>4 DEF WakeInv, Listed
  <2>10. ASSUME NEW d \in CPU, pc'[d] = "i_wake", batch'[d] = {} PROVE queue'[d] # {}
    <3>1. pc[d] = "i_wake" /\ batch[d] = {} /\ queue[d] \subseteq queue'[d]
      BY <2>10, <1>1, <1>2, <1>3, <1>4 DEF LockInv
    <3>2. queue[d] # {}
      BY <3>1 DEF WakeInv
    <3> QED
      BY <3>1, <3>2
  <2> QED
    BY <2>1, <2>2, <2>3, <2>4, <2>5, <2>6, <2>7, <2>8, <2>9, <2>10 DEF WakeInv, Listed
<1>10. MoveInv'
  BY <1>1, <1>2, <1>3, <1>4 DEF MoveInv
<1>11. LocInv'
  BY <1>1, <1>2, <1>3, <1>4 DEF LocInv
<1>12. DropInv'
  BY <1>1, <1>2, <1>3, <1>4 DEF DropInv
<1>13. HandledInv'
  <2>1. ASSUME NEW u \in Task, cond'[u], state'[u] \in Sleeping, loc'[u] \in {"sched", "back"}
        PROVE  \E d \in CPU : Waker(d, u)'
    <3>1. cond[u] /\ state[u] \in Sleeping /\ loc[u] \in {"sched", "back"}
      BY <2>1, <1>1, <1>2, <1>3, <1>4
    <3>2. PICK d \in CPU : Waker(d, u)
      BY <3>1 DEF HandledInv
    <3>3. Waker(d, u)'
      BY <2>1, <3>1, <3>2, <1>1, <1>2, <1>3, <1>4 DEF Waker
    <3> QED
      BY <3>3
  <2> QED
    BY <2>1 DEF HandledInv
<1> QED
  BY <1>5, <1>6, <1>7, <1>8, <1>9, <1>10, <1>11, <1>12, <1>13

(* Entering __schedule() only fixes prev and the kind of call.             *)
LEMMA EnterScheduleStep ==
  ASSUME WakingInv, NEW c \in CPU, NEW v \in BOOLEAN, EnterSchedule(c, v)
  PROVE  WakingInv'
<1>. USE IdleAssumption, NoCpuAssumption, AllowedAssumption, SleepAssumption
<1>. USE DEF WakingInv, TypeInv, PC, RqHeld, Matched, Waking, PiHeld, States, NotRunning,
         Sleeping, EnterSchedule, flags, user, counts, locals, Goto
<1>1. curr[c] \in Task => onRq[curr[c]] = "queued" /\ taskCpu[curr[c]] = c /\ onCpu[curr[c]]
  BY DEF PlaceInv, RunsOn
<1>2. TypeInv'
  BY <1>1, ZenonT(30)
<1>3. LockInv'
  BY <1>1 DEF LockInv
<1>4. PlaceInv'
  BY <1>1 DEF PlaceInv, RunsOn
<1>5. StateInv'
  BY <1>1 DEF StateInv, Listed
<1>6. WakeInv'
  <2>1. (\A p \in CPU : pc[p] \in Matched => state[tgt[p]] \in {"RUNNING"} \cup Sleeping)'
    BY <1>1 DEF WakeInv, Listed
  <2>2. (\A p \in CPU : pc[p] = "w_waking" => onRq[tgt[p]] = "off")'
    BY <1>1 DEF WakeInv, Listed
  <2>3. (\A p \in CPU : pc[p] \in Waking =>
          onRq[tgt[p]] = "off" /\ state[tgt[p]] = "WAKING"
            /\ \A d \in CPU : tgt[p] \notin Listed(d))'
    BY <1>1 DEF WakeInv, Listed
  <2>4. (\A p \in CPU : pc[p] = "w_queue" => ~onCpu[tgt[p]])'
    BY <1>1 DEF WakeInv, Listed
  <2>5. (\A p \in CPU : pc[p] \in {"w_queue", "w_list"} => taskCpu[tgt[p]] = atCpu[p])'
    BY <1>1 DEF WakeInv, Listed
  <2>6. (\A p \in CPU : \A t \in Listed(p) :
          state[t] = "WAKING" /\ onRq[t] = "off" /\ taskCpu[t] = p)'
    BY <1>1 DEF WakeInv, Listed
  <2>7. (\A p \in CPU : wakeList[p] \cap batch[p] = {})'
    BY <1>1 DEF WakeInv, Listed
  <2>8. (\A p \in CPU : batch[p] # {} => pc[p] \in {"i_lock", "i_wake"})'
    BY <1>1 DEF WakeInv, Listed
  <2>9. (\A p \in CPU : pc[p] = "i_lock" => batch[p] # {})'
    BY <1>1 DEF WakeInv, Listed
  <2>10. ASSUME NEW d \in CPU, pc'[d] = "i_wake", batch'[d] = {} PROVE queue'[d] # {}
    <3>1. pc[d] = "i_wake" /\ batch[d] = {} /\ queue[d] \subseteq queue'[d]
      BY <2>10, <1>1 DEF LockInv
    <3>2. queue[d] # {}
      BY <3>1 DEF WakeInv
    <3> QED
      BY <3>1, <3>2
  <2> QED
    BY <2>1, <2>2, <2>3, <2>4, <2>5, <2>6, <2>7, <2>8, <2>9, <2>10 DEF WakeInv, Listed
<1>7. MoveInv'
  BY <1>1 DEF MoveInv
<1>8. LocInv'
  BY <1>1 DEF LocInv, LockInv, PlaceInv, RunsOn
<1>9. DropInv'
  BY <1>1 DEF DropInv
<1>10. HandledInv'
  <2>1. ASSUME NEW u \in Task, cond'[u], state'[u] \in Sleeping, loc'[u] \in {"sched", "back"}
        PROVE  \E d \in CPU : Waker(d, u)'
    <3>1. cond[u] /\ state[u] \in Sleeping /\ loc[u] \in {"sched", "back"}
      BY <2>1, <1>1
    <3>2. PICK d \in CPU : Waker(d, u)
      BY <3>1 DEF HandledInv
    <3>3. Waker(d, u)'
      BY <2>1, <3>1, <3>2, <1>1 DEF Waker
    <3> QED
      BY <3>3
  <2> QED
    BY <2>1 DEF HandledInv
<1> QED
  BY <1>2, <1>3, <1>4, <1>5, <1>6, <1>7, <1>8, <1>9, <1>10

(* With the runqueue locked, the state read is the state prev has.         *)
LEMMA LockScheduleStep ==
  ASSUME WakingInv, NEW c \in CPU, LockSchedule(c)
  PROVE  WakingInv'
<1>. USE IdleAssumption, NoCpuAssumption, AllowedAssumption, SleepAssumption
<1>. USE DEF WakingInv, TypeInv, PC, RqHeld, Matched, Waking, PiHeld, States, NotRunning,
         Sleeping, LockSchedule, Free, flags, user, counts, locals, Goto
<1>1. TypeInv'
  <2>1. /\ seen' = [seen EXCEPT ![c] = IF tgt[c] = Idle THEN "RUNNING" ELSE state[tgt[c]]]
        /\ rqLock' = [rqLock EXCEPT ![c] = c] /\ pc' = [pc EXCEPT ![c] = "s_block"]
    OBVIOUS
  <2>2. seen' \in [CPU -> States]
    BY <2>1
  <2>3. rqLock' \in [CPU -> CPU \cup {NoCpu}] /\ pc' \in [CPU -> PC]
    BY <2>1
  <2> QED
    BY <2>2, <2>3
<1>2. LockInv'
  BY DEF LockInv
<1>3. PlaceInv'
  BY DEF PlaceInv, RunsOn
<1>4. StateInv'
  BY DEF StateInv, Listed
<1>5. WakeInv'
  <2>1. (\A p \in CPU : pc[p] \in Matched => state[tgt[p]] \in {"RUNNING"} \cup Sleeping)'
    BY DEF WakeInv, Listed
  <2>2. (\A p \in CPU : pc[p] = "w_waking" => onRq[tgt[p]] = "off")'
    BY DEF WakeInv, Listed
  <2>3. (\A p \in CPU : pc[p] \in Waking =>
          onRq[tgt[p]] = "off" /\ state[tgt[p]] = "WAKING"
            /\ \A d \in CPU : tgt[p] \notin Listed(d))'
    BY DEF WakeInv, Listed
  <2>4. (\A p \in CPU : pc[p] = "w_queue" => ~onCpu[tgt[p]])'
    BY DEF WakeInv, Listed
  <2>5. (\A p \in CPU : pc[p] \in {"w_queue", "w_list"} => taskCpu[tgt[p]] = atCpu[p])'
    BY DEF WakeInv, Listed
  <2>6. (\A p \in CPU : \A t \in Listed(p) :
          state[t] = "WAKING" /\ onRq[t] = "off" /\ taskCpu[t] = p)'
    BY DEF WakeInv, Listed
  <2>7. (\A p \in CPU : wakeList[p] \cap batch[p] = {})'
    BY DEF WakeInv, Listed
  <2>8. (\A p \in CPU : batch[p] # {} => pc[p] \in {"i_lock", "i_wake"})'
    BY DEF WakeInv, Listed
  <2>9. (\A p \in CPU : pc[p] = "i_lock" => batch[p] # {})'
    BY DEF WakeInv, Listed
  <2>10. ASSUME NEW d \in CPU, pc'[d] = "i_wake", batch'[d] = {} PROVE queue'[d] # {}
    <3>1. pc[d] = "i_wake" /\ batch[d] = {} /\ queue[d] \subseteq queue'[d]
      BY <2>10 DEF LockInv
    <3>2. queue[d] # {}
      BY <3>1 DEF WakeInv
    <3> QED
      BY <3>1, <3>2
  <2> QED
    BY <2>1, <2>2, <2>3, <2>4, <2>5, <2>6, <2>7, <2>8, <2>9, <2>10 DEF WakeInv, Listed
<1>6. MoveInv'
  BY DEF MoveInv
<1>7. LocInv'
  BY DEF LocInv
<1>8. DropInv'
  BY DEF DropInv
<1>9. HandledInv'
  <2>1. ASSUME NEW u \in Task, cond'[u], state'[u] \in Sleeping, loc'[u] \in {"sched", "back"}
        PROVE  \E d \in CPU : Waker(d, u)'
    <3>1. cond[u] /\ state[u] \in Sleeping /\ loc[u] \in {"sched", "back"}
      BY <2>1
    <3>2. PICK d \in CPU : Waker(d, u)
      BY <3>1 DEF HandledInv
    <3>3. Waker(d, u)'
      BY <2>1, <3>1, <3>2 DEF Waker
    <3> QED
      BY <3>3
  <2> QED
    BY <2>1 DEF HandledInv
<1> QED
  BY <1>1, <1>2, <1>3, <1>4, <1>5, <1>6, <1>7, <1>8, <1>9

(* __schedule() leaves a preempted or runnable prev queued.                *)
LEMMA BlockNotStep ==
  ASSUME WakingInv, NEW c \in CPU, Block(c), seen[c] \notin mask[c]
  PROVE  WakingInv'
<1>. USE IdleAssumption, NoCpuAssumption, AllowedAssumption, SleepAssumption
<1>. USE DEF WakingInv, TypeInv, PC, RqHeld, Matched, Waking, PiHeld, States, NotRunning,
         Sleeping, flags, user, counts, locals, Goto
<1>1. pc[c] = "s_block" /\ pc' = [pc EXCEPT ![c] = "s_switch"]
       /\ UNCHANGED <<state, onRq, onCpu, taskCpu, flags, user, drops, piLock,
                      curr, queue, counts, wakeList, pending, rqLock, locals>>
  BY DEF Block, flags, user, counts, locals, Goto
<1>2. tgt[c] \in Task => /\ onRq[tgt[c]] = "queued" /\ taskCpu[tgt[c]] = c /\ onCpu[tgt[c]]
                            /\ curr[c] = tgt[c] /\ tgt[c] \in queue[c]
  BY <1>1 DEF PlaceInv, RunsOn
<1>3. tgt[c] \in Task => seen[c] = state[tgt[c]] /\ state[tgt[c]] \in {"RUNNING", "DEAD"} \cup Sleeping
  BY <1>1, <1>2 DEF StateInv
<1>4. TypeInv'
  BY <1>1, <1>2, <1>3
<1>5. LockInv'
  BY <1>1, <1>2, <1>3 DEF LockInv
<1>6. PlaceInv'
  BY <1>1, <1>2, <1>3 DEF PlaceInv, RunsOn
<1>7. StateInv'
  BY <1>1, <1>2, <1>3 DEF StateInv, Listed
<1>8. WakeInv'
  <2>1. (\A p \in CPU : pc[p] \in Matched => state[tgt[p]] \in {"RUNNING"} \cup Sleeping)'
    BY <1>1, <1>2, <1>3 DEF WakeInv, Listed
  <2>2. (\A p \in CPU : pc[p] = "w_waking" => onRq[tgt[p]] = "off")'
    BY <1>1, <1>2, <1>3 DEF WakeInv, Listed
  <2>3. (\A p \in CPU : pc[p] \in Waking =>
          onRq[tgt[p]] = "off" /\ state[tgt[p]] = "WAKING"
            /\ \A d \in CPU : tgt[p] \notin Listed(d))'
    BY <1>1, <1>2, <1>3 DEF WakeInv, Listed
  <2>4. (\A p \in CPU : pc[p] = "w_queue" => ~onCpu[tgt[p]])'
    BY <1>1, <1>2, <1>3 DEF WakeInv, Listed
  <2>5. (\A p \in CPU : pc[p] \in {"w_queue", "w_list"} => taskCpu[tgt[p]] = atCpu[p])'
    BY <1>1, <1>2, <1>3 DEF WakeInv, Listed
  <2>6. (\A p \in CPU : \A t \in Listed(p) :
          state[t] = "WAKING" /\ onRq[t] = "off" /\ taskCpu[t] = p)'
    BY <1>1, <1>2, <1>3 DEF WakeInv, Listed
  <2>7. (\A p \in CPU : wakeList[p] \cap batch[p] = {})'
    BY <1>1, <1>2, <1>3 DEF WakeInv, Listed
  <2>8. (\A p \in CPU : batch[p] # {} => pc[p] \in {"i_lock", "i_wake"})'
    BY <1>1, <1>2, <1>3 DEF WakeInv, Listed
  <2>9. (\A p \in CPU : pc[p] = "i_lock" => batch[p] # {})'
    BY <1>1, <1>2, <1>3 DEF WakeInv, Listed
  <2>10. ASSUME NEW d \in CPU, pc'[d] = "i_wake", batch'[d] = {} PROVE queue'[d] # {}
    <3>1. pc[d] = "i_wake" /\ batch[d] = {} /\ queue[d] \subseteq queue'[d]
      BY <2>10, <1>1, <1>2, <1>3 DEF LockInv
    <3>2. queue[d] # {}
      BY <3>1 DEF WakeInv
    <3> QED
      BY <3>1, <3>2
  <2> QED
    BY <2>1, <2>2, <2>3, <2>4, <2>5, <2>6, <2>7, <2>8, <2>9, <2>10 DEF WakeInv, Listed
<1>9. MoveInv'
  BY <1>1, <1>2, <1>3 DEF MoveInv
<1>10. LocInv'
  BY <1>1, <1>2, <1>3 DEF LocInv, LockInv, PlaceInv, RunsOn
<1>11. DropInv'
  BY <1>1, <1>2, <1>3 DEF DropInv
<1>12. HandledInv'
  <2>1. ASSUME NEW u \in Task, cond'[u], state'[u] \in Sleeping, loc'[u] \in {"sched", "back"}
        PROVE  \E d \in CPU : Waker(d, u)'
    <3>1. cond[u] /\ state[u] \in Sleeping /\ loc[u] \in {"sched", "back"}
      BY <2>1, <1>1, <1>2, <1>3
    <3>2. PICK d \in CPU : Waker(d, u)
      BY <3>1 DEF HandledInv
    <3>3. Waker(d, u)'
      BY <2>1, <3>1, <3>2, <1>1, <1>2, <1>3 DEF Waker
    <3> QED
      BY <3>3
  <2> QED
    BY <2>1 DEF HandledInv
<1> QED
  BY <1>4, <1>5, <1>6, <1>7, <1>8, <1>9, <1>10, <1>11, <1>12

(* signal_pending_state: prev goes on running.                             *)
LEMMA BlockSignalStep ==
  ASSUME WakingInv, NEW c \in CPU, Block(c), seen[c] \in mask[c], seen[c] = "INTERRUPTIBLE",
         signal[tgt[c]]
  PROVE  WakingInv'
<1>. USE IdleAssumption, NoCpuAssumption, AllowedAssumption, SleepAssumption
<1>. USE DEF WakingInv, TypeInv, PC, RqHeld, Matched, Waking, PiHeld, States, NotRunning,
         Sleeping, flags, user, counts, locals, Goto
<1>1. pc[c] = "s_block" /\ pc' = [pc EXCEPT ![c] = "s_switch"] /\ state' = [state EXCEPT ![tgt[c]] = "RUNNING"]
       /\ UNCHANGED <<onRq, onCpu, taskCpu, flags, user, drops, piLock,
                      curr, queue, counts, wakeList, pending, rqLock, locals>>
  BY DEF Block, flags, user, counts, locals, Goto
<1>2. tgt[c] \in Task => /\ onRq[tgt[c]] = "queued" /\ taskCpu[tgt[c]] = c /\ onCpu[tgt[c]]
                            /\ curr[c] = tgt[c] /\ tgt[c] \in queue[c]
  BY <1>1 DEF PlaceInv, RunsOn
<1>3. tgt[c] \in Task => seen[c] = state[tgt[c]] /\ state[tgt[c]] \in {"RUNNING", "DEAD"} \cup Sleeping
  BY <1>1, <1>2 DEF StateInv
<1>4. tgt[c] \in Task
  BY <1>1 DEF StateInv
<1>5. state[tgt[c]] = "INTERRUPTIBLE"
  BY <1>3, <1>4
<1>6. TypeInv'
  BY <1>1, <1>2, <1>3, <1>4, <1>5
<1>7. LockInv'
  BY <1>1, <1>2, <1>3, <1>4, <1>5 DEF LockInv
<1>8. PlaceInv'
  BY <1>1, <1>2, <1>3, <1>4, <1>5 DEF PlaceInv, RunsOn
<1>9. StateInv'
  BY <1>1, <1>2, <1>3, <1>4, <1>5 DEF StateInv, Listed, LockInv, PlaceInv, RunsOn
<1>10. WakeInv'
  <2>1. (\A p \in CPU : pc[p] \in Matched => state[tgt[p]] \in {"RUNNING"} \cup Sleeping)'
    BY <1>1, <1>2, <1>3, <1>4, <1>5 DEF WakeInv, Listed
  <2>2. (\A p \in CPU : pc[p] = "w_waking" => onRq[tgt[p]] = "off")'
    BY <1>1, <1>2, <1>3, <1>4, <1>5 DEF WakeInv, Listed
  <2>3. (\A p \in CPU : pc[p] \in Waking =>
          onRq[tgt[p]] = "off" /\ state[tgt[p]] = "WAKING"
            /\ \A d \in CPU : tgt[p] \notin Listed(d))'
    BY <1>1, <1>2, <1>3, <1>4, <1>5 DEF WakeInv, Listed
  <2>4. (\A p \in CPU : pc[p] = "w_queue" => ~onCpu[tgt[p]])'
    BY <1>1, <1>2, <1>3, <1>4, <1>5 DEF WakeInv, Listed
  <2>5. (\A p \in CPU : pc[p] \in {"w_queue", "w_list"} => taskCpu[tgt[p]] = atCpu[p])'
    BY <1>1, <1>2, <1>3, <1>4, <1>5 DEF WakeInv, Listed
  <2>6. (\A p \in CPU : \A t \in Listed(p) :
          state[t] = "WAKING" /\ onRq[t] = "off" /\ taskCpu[t] = p)'
    BY <1>1, <1>2, <1>3, <1>4, <1>5 DEF WakeInv, Listed
  <2>7. (\A p \in CPU : wakeList[p] \cap batch[p] = {})'
    BY <1>1, <1>2, <1>3, <1>4, <1>5 DEF WakeInv, Listed
  <2>8. (\A p \in CPU : batch[p] # {} => pc[p] \in {"i_lock", "i_wake"})'
    BY <1>1, <1>2, <1>3, <1>4, <1>5 DEF WakeInv, Listed
  <2>9. (\A p \in CPU : pc[p] = "i_lock" => batch[p] # {})'
    BY <1>1, <1>2, <1>3, <1>4, <1>5 DEF WakeInv, Listed
  <2>10. ASSUME NEW d \in CPU, pc'[d] = "i_wake", batch'[d] = {} PROVE queue'[d] # {}
    <3>1. pc[d] = "i_wake" /\ batch[d] = {} /\ queue[d] \subseteq queue'[d]
      BY <2>10, <1>1, <1>2, <1>3, <1>4, <1>5 DEF LockInv
    <3>2. queue[d] # {}
      BY <3>1 DEF WakeInv
    <3> QED
      BY <3>1, <3>2
  <2> QED
    BY <2>1, <2>2, <2>3, <2>4, <2>5, <2>6, <2>7, <2>8, <2>9, <2>10 DEF WakeInv, Listed
<1>11. MoveInv'
  BY <1>1, <1>2, <1>3, <1>4, <1>5 DEF MoveInv
<1>12. LocInv'
  BY <1>1, <1>2, <1>3, <1>4, <1>5 DEF LocInv
<1>13. DropInv'
  BY <1>1, <1>2, <1>3, <1>4, <1>5 DEF DropInv
<1>14. HandledInv'
  <2>1. ASSUME NEW u \in Task, cond'[u], state'[u] \in Sleeping, loc'[u] \in {"sched", "back"}
        PROVE  \E d \in CPU : Waker(d, u)'
    <3>1. cond[u] /\ state[u] \in Sleeping /\ loc[u] \in {"sched", "back"}
      BY <2>1, <1>1, <1>2, <1>3, <1>4, <1>5
    <3>2. PICK d \in CPU : Waker(d, u)
      BY <3>1 DEF HandledInv
    <3>3. Waker(d, u)'
      BY <2>1, <3>1, <3>2, <1>1, <1>2, <1>3, <1>4, <1>5 DEF Waker
    <3> QED
      BY <3>3
  <2> QED
    BY <2>1 DEF HandledInv
<1> QED
  BY <1>6, <1>7, <1>8, <1>9, <1>10, <1>11, <1>12, <1>13, <1>14

(* deactivate_task: prev leaves the queue and is still on_cpu.             *)
LEMMA BlockOffStep ==
  ASSUME WakingInv, NEW c \in CPU, Block(c), seen[c] \in mask[c],
         ~(seen[c] = "INTERRUPTIBLE" /\ signal[tgt[c]])
  PROVE  WakingInv'
<1>. USE IdleAssumption, NoCpuAssumption, AllowedAssumption, SleepAssumption
<1>. USE DEF WakingInv, TypeInv, PC, RqHeld, Matched, Waking, PiHeld, States, NotRunning,
         Sleeping, flags, user, counts, locals, Goto
<1>1. pc[c] = "s_block" /\ pc' = [pc EXCEPT ![c] = "s_switch"]
       /\ contrib' = [contrib EXCEPT ![tgt[c]] = seen[c] = "UNINTERRUPTIBLE"]
       /\ queue' = [queue EXCEPT ![c] = @ \ {tgt[c]}] /\ onRq' = [onRq EXCEPT ![tgt[c]] = "off"]
       /\ UNCHANGED <<state, onCpu, taskCpu, iowait, remote, user, drops, piLock,
                      curr, wakeList, pending, rqLock, locals>>
  BY DEF Block, Dequeue, flags, user, counts, locals, Goto
<1>2. tgt[c] \in Task => /\ onRq[tgt[c]] = "queued" /\ taskCpu[tgt[c]] = c /\ onCpu[tgt[c]]
                            /\ curr[c] = tgt[c] /\ tgt[c] \in queue[c]
  BY <1>1 DEF PlaceInv, RunsOn
<1>3. tgt[c] \in Task => seen[c] = state[tgt[c]] /\ state[tgt[c]] \in {"RUNNING", "DEAD"} \cup Sleeping
  BY <1>1, <1>2 DEF StateInv
<1>4. mask[c] \in {{}, {"INTERRUPTIBLE"}, Sleeping, NotRunning}
  OBVIOUS
<1>5. seen[c] # "RUNNING"
  BY <1>4
<1>6. tgt[c] \in Task /\ state[tgt[c]] \in {"DEAD"} \cup Sleeping
  BY <1>1, <1>2, <1>3, <1>5 DEF StateInv
<1>7. TypeInv'
  BY <1>1, <1>2, <1>3, <1>4, <1>5, <1>6
<1>8. LockInv'
  BY <1>1, <1>2, <1>3, <1>4, <1>5, <1>6 DEF LockInv
<1>9. PlaceInv'
  BY <1>1, <1>2, <1>3, <1>4, <1>5, <1>6 DEF PlaceInv, RunsOn
<1>10. StateInv'
  BY <1>1, <1>2, <1>3, <1>4, <1>5, <1>6 DEF StateInv, Listed
<1>11. WakeInv'
  <2>1. (\A p \in CPU : pc[p] \in Matched => state[tgt[p]] \in {"RUNNING"} \cup Sleeping)'
    BY <1>1, <1>2, <1>3, <1>4, <1>5, <1>6 DEF WakeInv, Listed
  <2>2. (\A p \in CPU : pc[p] = "w_waking" => onRq[tgt[p]] = "off")'
    BY <1>1, <1>2, <1>3, <1>4, <1>5, <1>6 DEF WakeInv, Listed
  <2>3. (\A p \in CPU : pc[p] \in Waking =>
          onRq[tgt[p]] = "off" /\ state[tgt[p]] = "WAKING"
            /\ \A d \in CPU : tgt[p] \notin Listed(d))'
    BY <1>1, <1>2, <1>3, <1>4, <1>5, <1>6 DEF WakeInv, Listed
  <2>4. (\A p \in CPU : pc[p] = "w_queue" => ~onCpu[tgt[p]])'
    BY <1>1, <1>2, <1>3, <1>4, <1>5, <1>6 DEF WakeInv, Listed
  <2>5. (\A p \in CPU : pc[p] \in {"w_queue", "w_list"} => taskCpu[tgt[p]] = atCpu[p])'
    BY <1>1, <1>2, <1>3, <1>4, <1>5, <1>6 DEF WakeInv, Listed
  <2>6. (\A p \in CPU : \A t \in Listed(p) :
          state[t] = "WAKING" /\ onRq[t] = "off" /\ taskCpu[t] = p)'
    BY <1>1, <1>2, <1>3, <1>4, <1>5, <1>6 DEF WakeInv, Listed
  <2>7. (\A p \in CPU : wakeList[p] \cap batch[p] = {})'
    BY <1>1, <1>2, <1>3, <1>4, <1>5, <1>6 DEF WakeInv, Listed
  <2>8. (\A p \in CPU : batch[p] # {} => pc[p] \in {"i_lock", "i_wake"})'
    BY <1>1, <1>2, <1>3, <1>4, <1>5, <1>6 DEF WakeInv, Listed
  <2>9. (\A p \in CPU : pc[p] = "i_lock" => batch[p] # {})'
    BY <1>1, <1>2, <1>3, <1>4, <1>5, <1>6 DEF WakeInv, Listed
  <2>10. ASSUME NEW d \in CPU, pc'[d] = "i_wake", batch'[d] = {} PROVE queue'[d] # {}
    <3>1. pc[d] = "i_wake" /\ batch[d] = {} /\ queue[d] \subseteq queue'[d]
      BY <2>10, <1>1, <1>2, <1>3, <1>4, <1>5, <1>6 DEF LockInv
    <3>2. queue[d] # {}
      BY <3>1 DEF WakeInv
    <3> QED
      BY <3>1, <3>2
  <2> QED
    BY <2>1, <2>2, <2>3, <2>4, <2>5, <2>6, <2>7, <2>8, <2>9, <2>10 DEF WakeInv, Listed
<1>12. MoveInv'
  BY <1>1, <1>2, <1>3, <1>4, <1>5, <1>6 DEF MoveInv
<1>13. LocInv'
  BY <1>1, <1>2, <1>3, <1>4, <1>5, <1>6 DEF LocInv
<1>14. DropInv'
  BY <1>1, <1>2, <1>3, <1>4, <1>5, <1>6 DEF DropInv
<1>15. HandledInv'
  <2>1. ASSUME NEW u \in Task, cond'[u], state'[u] \in Sleeping, loc'[u] \in {"sched", "back"}
        PROVE  \E d \in CPU : Waker(d, u)'
    <3>1. cond[u] /\ state[u] \in Sleeping /\ loc[u] \in {"sched", "back"}
      BY <2>1, <1>1, <1>2, <1>3, <1>4, <1>5, <1>6
    <3>2. PICK d \in CPU : Waker(d, u)
      BY <3>1 DEF HandledInv
    <3>3. Waker(d, u)'
      BY <2>1, <3>1, <3>2, <1>1, <1>2, <1>3, <1>4, <1>5, <1>6 DEF Waker
    <3> QED
      BY <3>3
  <2> QED
    BY <2>1 DEF HandledInv
<1> QED
  BY <1>7, <1>8, <1>9, <1>10, <1>11, <1>12, <1>13, <1>14, <1>15

(* The next task is queued here and runs nowhere else.                     *)
LEMMA SwitchStep ==
  ASSUME WakingInv, NEW c \in CPU, Switch(c)
  PROVE  WakingInv'
<1>. USE IdleAssumption, NoCpuAssumption, AllowedAssumption, SleepAssumption
<1>. USE DEF WakingInv, TypeInv, PC, RqHeld, Matched, Waking, PiHeld, States, NotRunning,
         Sleeping, flags, user, counts, locals, Goto
<1>1. PICK n \in IF queue[c] = {} THEN {Idle} ELSE queue[c] :
       /\ pc[c] = "s_switch" /\ curr' = [curr EXCEPT ![c] = n]
       /\ onCpu' = IF n = Idle THEN onCpu ELSE [onCpu EXCEPT ![n] = TRUE]
       /\ pc' = [pc EXCEPT ![c] = IF n = tgt[c] THEN "s_unlock" ELSE "s_finish"]
       /\ seen' = [seen EXCEPT ![c] = "RUNNING"]
       /\ UNCHANGED <<state, onRq, taskCpu, flags, user, drops, piLock, queue, counts,
                      wakeList, pending, rqLock, tgt, atCpu, mask, moved, batch>>
  BY DEF Switch, flags, user, counts, locals, Goto
<1>2. tgt[c] = curr[c]
  BY <1>1 DEF PlaceInv
<1>3. n # Idle => n \in Task /\ onRq[n] = "queued" /\ taskCpu[n] = c /\ (n # tgt[c] => ~onCpu[n])
  BY <1>1, <1>2 DEF PlaceInv, RunsOn
<1>4. n # Idle => state[n] \in {"RUNNING", "DEAD"} \cup Sleeping
  BY <1>3 DEF StateInv
<1>5. TypeInv'
  BY <1>1, <1>2, <1>3, <1>4
<1>6. LockInv'
  BY <1>1, <1>2, <1>3, <1>4 DEF LockInv
<1>7. PlaceInv'
  BY <1>1, <1>2, <1>3, <1>4 DEF PlaceInv, RunsOn
<1>8. StateInv'
  BY <1>1, <1>2, <1>3, <1>4 DEF StateInv, Listed
<1>9. WakeInv'
  <2>1. (\A p \in CPU : pc[p] \in Matched => state[tgt[p]] \in {"RUNNING"} \cup Sleeping)'
    BY <1>1, <1>2, <1>3, <1>4 DEF WakeInv, Listed
  <2>2. (\A p \in CPU : pc[p] = "w_waking" => onRq[tgt[p]] = "off")'
    BY <1>1, <1>2, <1>3, <1>4 DEF WakeInv, Listed
  <2>3. (\A p \in CPU : pc[p] \in Waking =>
          onRq[tgt[p]] = "off" /\ state[tgt[p]] = "WAKING"
            /\ \A d \in CPU : tgt[p] \notin Listed(d))'
    BY <1>1, <1>2, <1>3, <1>4 DEF WakeInv, Listed
  <2>4. (\A p \in CPU : pc[p] = "w_queue" => ~onCpu[tgt[p]])'
    BY <1>1, <1>2, <1>3, <1>4 DEF WakeInv, Listed
  <2>5. (\A p \in CPU : pc[p] \in {"w_queue", "w_list"} => taskCpu[tgt[p]] = atCpu[p])'
    BY <1>1, <1>2, <1>3, <1>4 DEF WakeInv, Listed
  <2>6. (\A p \in CPU : \A t \in Listed(p) :
          state[t] = "WAKING" /\ onRq[t] = "off" /\ taskCpu[t] = p)'
    BY <1>1, <1>2, <1>3, <1>4 DEF WakeInv, Listed
  <2>7. (\A p \in CPU : wakeList[p] \cap batch[p] = {})'
    BY <1>1, <1>2, <1>3, <1>4 DEF WakeInv, Listed
  <2>8. (\A p \in CPU : batch[p] # {} => pc[p] \in {"i_lock", "i_wake"})'
    BY <1>1, <1>2, <1>3, <1>4 DEF WakeInv, Listed
  <2>9. (\A p \in CPU : pc[p] = "i_lock" => batch[p] # {})'
    BY <1>1, <1>2, <1>3, <1>4 DEF WakeInv, Listed
  <2>10. ASSUME NEW d \in CPU, pc'[d] = "i_wake", batch'[d] = {} PROVE queue'[d] # {}
    <3>1. pc[d] = "i_wake" /\ batch[d] = {} /\ queue[d] \subseteq queue'[d]
      BY <2>10, <1>1, <1>2, <1>3, <1>4 DEF LockInv
    <3>2. queue[d] # {}
      BY <3>1 DEF WakeInv
    <3> QED
      BY <3>1, <3>2
  <2> QED
    BY <2>1, <2>2, <2>3, <2>4, <2>5, <2>6, <2>7, <2>8, <2>9, <2>10 DEF WakeInv, Listed
<1>10. MoveInv'
  BY <1>1, <1>2, <1>3, <1>4 DEF MoveInv
<1>11. LocInv'
  BY <1>1, <1>2, <1>3, <1>4 DEF LocInv
<1>12. DropInv'
  BY <1>1, <1>2, <1>3, <1>4 DEF DropInv
<1>13. HandledInv'
  <2>1. ASSUME NEW u \in Task, cond'[u], state'[u] \in Sleeping, loc'[u] \in {"sched", "back"}
        PROVE  \E d \in CPU : Waker(d, u)'
    <3>1. cond[u] /\ state[u] \in Sleeping /\ loc[u] \in {"sched", "back"}
      BY <2>1, <1>1, <1>2, <1>3, <1>4
    <3>2. PICK d \in CPU : Waker(d, u)
      BY <3>1 DEF HandledInv
    <3>3. Waker(d, u)'
      BY <2>1, <3>1, <3>2, <1>1, <1>2, <1>3, <1>4 DEF Waker
    <3> QED
      BY <3>3
  <2> QED
    BY <2>1 DEF HandledInv
<1> QED
  BY <1>5, <1>6, <1>7, <1>8, <1>9, <1>10, <1>11, <1>12, <1>13

(* finish_task_switch reads prev's state while prev is still its own.      *)
LEMMA ReadPrevStateStep ==
  ASSUME WakingInv, NEW c \in CPU, ReadPrevState(c)
  PROVE  WakingInv'
<1>. USE IdleAssumption, NoCpuAssumption, AllowedAssumption, SleepAssumption
<1>. USE DEF WakingInv, TypeInv, PC, RqHeld, Matched, Waking, PiHeld, States, NotRunning,
         Sleeping, ReadPrevState, flags, user, counts, locals, Goto
<1>1. tgt[c] \in Task => onCpu[tgt[c]] /\ taskCpu[tgt[c]] = c /\ tgt[c] # curr[c]
  BY DEF PlaceInv, RunsOn
<1>2. tgt[c] \in Task /\ state[tgt[c]] = "DEAD" => onRq[tgt[c]] = "off"
  BY <1>1 DEF LocInv
<1>3. tgt[c] \in Task => drops[tgt[c]] = 0
  BY <1>1 DEF DropInv
<1>4. TypeInv'
  BY <1>1, <1>2, <1>3
<1>5. LockInv'
  BY <1>1, <1>2, <1>3 DEF LockInv
<1>6. PlaceInv'
  BY <1>1, <1>2, <1>3 DEF PlaceInv, RunsOn
<1>7. StateInv'
  BY <1>1, <1>2, <1>3 DEF StateInv, Listed
<1>8. WakeInv'
  <2>1. (\A p \in CPU : pc[p] \in Matched => state[tgt[p]] \in {"RUNNING"} \cup Sleeping)'
    BY <1>1, <1>2, <1>3 DEF WakeInv, Listed
  <2>2. (\A p \in CPU : pc[p] = "w_waking" => onRq[tgt[p]] = "off")'
    BY <1>1, <1>2, <1>3 DEF WakeInv, Listed
  <2>3. (\A p \in CPU : pc[p] \in Waking =>
          onRq[tgt[p]] = "off" /\ state[tgt[p]] = "WAKING"
            /\ \A d \in CPU : tgt[p] \notin Listed(d))'
    BY <1>1, <1>2, <1>3 DEF WakeInv, Listed
  <2>4. (\A p \in CPU : pc[p] = "w_queue" => ~onCpu[tgt[p]])'
    BY <1>1, <1>2, <1>3 DEF WakeInv, Listed
  <2>5. (\A p \in CPU : pc[p] \in {"w_queue", "w_list"} => taskCpu[tgt[p]] = atCpu[p])'
    BY <1>1, <1>2, <1>3 DEF WakeInv, Listed
  <2>6. (\A p \in CPU : \A t \in Listed(p) :
          state[t] = "WAKING" /\ onRq[t] = "off" /\ taskCpu[t] = p)'
    BY <1>1, <1>2, <1>3 DEF WakeInv, Listed
  <2>7. (\A p \in CPU : wakeList[p] \cap batch[p] = {})'
    BY <1>1, <1>2, <1>3 DEF WakeInv, Listed
  <2>8. (\A p \in CPU : batch[p] # {} => pc[p] \in {"i_lock", "i_wake"})'
    BY <1>1, <1>2, <1>3 DEF WakeInv, Listed
  <2>9. (\A p \in CPU : pc[p] = "i_lock" => batch[p] # {})'
    BY <1>1, <1>2, <1>3 DEF WakeInv, Listed
  <2>10. ASSUME NEW d \in CPU, pc'[d] = "i_wake", batch'[d] = {} PROVE queue'[d] # {}
    <3>1. pc[d] = "i_wake" /\ batch[d] = {} /\ queue[d] \subseteq queue'[d]
      BY <2>10, <1>1, <1>2, <1>3 DEF LockInv
    <3>2. queue[d] # {}
      BY <3>1 DEF WakeInv
    <3> QED
      BY <3>1, <3>2
  <2> QED
    BY <2>1, <2>2, <2>3, <2>4, <2>5, <2>6, <2>7, <2>8, <2>9, <2>10 DEF WakeInv, Listed
<1>9. MoveInv'
  BY <1>1, <1>2, <1>3 DEF MoveInv
<1>10. LocInv'
  BY <1>1, <1>2, <1>3 DEF LocInv
<1>11. DropInv'
  BY <1>1, <1>2, <1>3 DEF DropInv
<1>12. HandledInv'
  <2>1. ASSUME NEW u \in Task, cond'[u], state'[u] \in Sleeping, loc'[u] \in {"sched", "back"}
        PROVE  \E d \in CPU : Waker(d, u)'
    <3>1. cond[u] /\ state[u] \in Sleeping /\ loc[u] \in {"sched", "back"}
      BY <2>1, <1>1, <1>2, <1>3
    <3>2. PICK d \in CPU : Waker(d, u)
      BY <3>1 DEF HandledInv
    <3>3. Waker(d, u)'
      BY <2>1, <3>1, <3>2, <1>1, <1>2, <1>3 DEF Waker
    <3> QED
      BY <3>3
  <2> QED
    BY <2>1 DEF HandledInv
<1> QED
  BY <1>4, <1>5, <1>6, <1>7, <1>8, <1>9, <1>10, <1>11, <1>12

(* Clearing on_cpu ends the last use of prev by this CPU.                  *)
LEMMA FinishTaskStep ==
  ASSUME WakingInv, NEW c \in CPU, FinishTask(c)
  PROVE  WakingInv'
<1>. USE IdleAssumption, NoCpuAssumption, AllowedAssumption, SleepAssumption
<1>. USE DEF WakingInv, TypeInv, PC, RqHeld, Matched, Waking, PiHeld, States, NotRunning,
         Sleeping, FinishTask, flags, user, counts, locals, Goto
<1>1. tgt[c] \in Task => onCpu[tgt[c]] /\ taskCpu[tgt[c]] = c
  BY DEF PlaceInv, RunsOn
<1>2. tgt[c] # curr[c]
  BY DEF PlaceInv
<1>3. TypeInv'
  BY <1>1, <1>2
<1>4. LockInv'
  BY <1>1, <1>2 DEF LockInv
<1>5. PlaceInv'
  BY <1>1, <1>2 DEF PlaceInv, RunsOn
<1>6. StateInv'
  BY <1>1, <1>2 DEF StateInv, Listed
<1>7. WakeInv'
  <2>1. (\A p \in CPU : pc[p] \in Matched => state[tgt[p]] \in {"RUNNING"} \cup Sleeping)'
    BY <1>1, <1>2 DEF WakeInv, Listed
  <2>2. (\A p \in CPU : pc[p] = "w_waking" => onRq[tgt[p]] = "off")'
    BY <1>1, <1>2 DEF WakeInv, Listed
  <2>3. (\A p \in CPU : pc[p] \in Waking =>
          onRq[tgt[p]] = "off" /\ state[tgt[p]] = "WAKING"
            /\ \A d \in CPU : tgt[p] \notin Listed(d))'
    BY <1>1, <1>2 DEF WakeInv, Listed
  <2>4. (\A p \in CPU : pc[p] = "w_queue" => ~onCpu[tgt[p]])'
    BY <1>1, <1>2 DEF WakeInv, Listed
  <2>5. (\A p \in CPU : pc[p] \in {"w_queue", "w_list"} => taskCpu[tgt[p]] = atCpu[p])'
    BY <1>1, <1>2 DEF WakeInv, Listed
  <2>6. (\A p \in CPU : \A t \in Listed(p) :
          state[t] = "WAKING" /\ onRq[t] = "off" /\ taskCpu[t] = p)'
    BY <1>1, <1>2 DEF WakeInv, Listed
  <2>7. (\A p \in CPU : wakeList[p] \cap batch[p] = {})'
    BY <1>1, <1>2 DEF WakeInv, Listed
  <2>8. (\A p \in CPU : batch[p] # {} => pc[p] \in {"i_lock", "i_wake"})'
    BY <1>1, <1>2 DEF WakeInv, Listed
  <2>9. (\A p \in CPU : pc[p] = "i_lock" => batch[p] # {})'
    BY <1>1, <1>2 DEF WakeInv, Listed
  <2>10. ASSUME NEW d \in CPU, pc'[d] = "i_wake", batch'[d] = {} PROVE queue'[d] # {}
    <3>1. pc[d] = "i_wake" /\ batch[d] = {} /\ queue[d] \subseteq queue'[d]
      BY <2>10, <1>1, <1>2 DEF LockInv
    <3>2. queue[d] # {}
      BY <3>1 DEF WakeInv
    <3> QED
      BY <3>1, <3>2
  <2> QED
    BY <2>1, <2>2, <2>3, <2>4, <2>5, <2>6, <2>7, <2>8, <2>9, <2>10 DEF WakeInv, Listed
<1>8. MoveInv'
  BY <1>1, <1>2 DEF MoveInv
<1>9. LocInv'
  BY <1>1, <1>2 DEF LocInv
<1>10. DropInv'
  BY <1>1, <1>2 DEF DropInv
<1>11. HandledInv'
  <2>1. ASSUME NEW u \in Task, cond'[u], state'[u] \in Sleeping, loc'[u] \in {"sched", "back"}
        PROVE  \E d \in CPU : Waker(d, u)'
    <3>1. cond[u] /\ state[u] \in Sleeping /\ loc[u] \in {"sched", "back"}
      BY <2>1, <1>1, <1>2
    <3>2. PICK d \in CPU : Waker(d, u)
      BY <3>1 DEF HandledInv
    <3>3. Waker(d, u)'
      BY <2>1, <3>1, <3>2, <1>1, <1>2 DEF Waker
    <3> QED
      BY <3>3
  <2> QED
    BY <2>1 DEF HandledInv
<1> QED
  BY <1>3, <1>4, <1>5, <1>6, <1>7, <1>8, <1>9, <1>10, <1>11

(* The reference of a dead prev is dropped once.                           *)
LEMMA UnlockScheduleStep ==
  ASSUME WakingInv, NEW c \in CPU, UnlockSchedule(c)
  PROVE  WakingInv'
<1>. USE IdleAssumption, NoCpuAssumption, AllowedAssumption, SleepAssumption
<1>. USE DEF WakingInv, TypeInv, PC, RqHeld, Matched, Waking, PiHeld, States, NotRunning,
         Sleeping, UnlockSchedule, Return, flags, user, counts, locals, Goto
<1>1. seen[c] = "DEAD" => tgt[c] \in Task /\ drops[tgt[c]] = 0
  BY DEF DropInv
<1>2. drops' \in [Task -> {0, 1}]
  BY <1>1
<1>3. TypeInv'
  <2>1. (state \in [Task -> States] /\ onRq \in [Task -> {"off", "queued", "migrating"}])'
    BY <1>1, <1>2
  <2>2. (onCpu \in [Task -> BOOLEAN] /\ taskCpu \in [Task -> CPU])'
    BY <1>1, <1>2
  <2>3. (contrib \in [Task -> BOOLEAN] /\ iowait \in [Task -> BOOLEAN] /\ remote \in [Task -> BOOLEAN])'
    BY <1>1, <1>2
  <2>4. (cond \in [Task -> BOOLEAN] /\ signal \in [Task -> BOOLEAN])'
    BY <1>1, <1>2
  <2>5. (loc \in [Task -> {"work", "check", "sched", "back", "dead", "gone"}])'
    BY <1>1, <1>2
  <2>6. (drops \in [Task -> {0, 1}] /\ piLock \in [Task -> CPU \cup {NoCpu}])'
    BY <1>1, <1>2 DEF LockInv, PlaceInv, RunsOn, StateInv, Listed, WakeInv, MoveInv, LocInv
  <2>7. (curr \in [CPU -> Task \cup {Idle}] /\ queue \in [CPU -> SUBSET Task])'
    BY <1>1, <1>2
  <2>8. (wakeList \in [CPU -> SUBSET Task] /\ pending \in [CPU -> BOOLEAN])'
    BY <1>1, <1>2
  <2>9. (rqLock \in [CPU -> CPU \cup {NoCpu}] /\ pc \in [CPU -> PC])'
    BY <1>1, <1>2
  <2>10. (tgt \in [CPU -> Task \cup {Idle}] /\ seen \in [CPU -> States] /\ atCpu \in [CPU -> CPU])'
    BY <1>1, <1>2
  <2>11. (mask \in [CPU -> {{}, {"INTERRUPTIBLE"}, Sleeping, NotRunning}])'
    BY <1>1, <1>2
  <2>12. (moved \in [CPU -> BOOLEAN] /\ batch \in [CPU -> SUBSET Task])'
    BY <1>1, <1>2
  <2> QED
    BY <2>1, <2>2, <2>3, <2>4, <2>5, <2>6, <2>7, <2>8, <2>9, <2>10, <2>11, <2>12
<1>4. LockInv'
  BY <1>1, <1>2 DEF LockInv
<1>5. PlaceInv'
  BY <1>1, <1>2 DEF PlaceInv, RunsOn
<1>6. StateInv'
  BY <1>1, <1>2 DEF StateInv, Listed
<1>7. WakeInv'
  <2>1. (\A p \in CPU : pc[p] \in Matched => state[tgt[p]] \in {"RUNNING"} \cup Sleeping)'
    BY <1>1, <1>2 DEF WakeInv, Listed
  <2>2. (\A p \in CPU : pc[p] = "w_waking" => onRq[tgt[p]] = "off")'
    BY <1>1, <1>2 DEF WakeInv, Listed
  <2>3. (\A p \in CPU : pc[p] \in Waking =>
          onRq[tgt[p]] = "off" /\ state[tgt[p]] = "WAKING"
            /\ \A d \in CPU : tgt[p] \notin Listed(d))'
    BY <1>1, <1>2 DEF WakeInv, Listed
  <2>4. (\A p \in CPU : pc[p] = "w_queue" => ~onCpu[tgt[p]])'
    BY <1>1, <1>2 DEF WakeInv, Listed
  <2>5. (\A p \in CPU : pc[p] \in {"w_queue", "w_list"} => taskCpu[tgt[p]] = atCpu[p])'
    BY <1>1, <1>2 DEF WakeInv, Listed
  <2>6. (\A p \in CPU : \A t \in Listed(p) :
          state[t] = "WAKING" /\ onRq[t] = "off" /\ taskCpu[t] = p)'
    BY <1>1, <1>2 DEF WakeInv, Listed
  <2>7. (\A p \in CPU : wakeList[p] \cap batch[p] = {})'
    BY <1>1, <1>2 DEF WakeInv, Listed
  <2>8. (\A p \in CPU : batch[p] # {} => pc[p] \in {"i_lock", "i_wake"})'
    BY <1>1, <1>2 DEF WakeInv, Listed
  <2>9. (\A p \in CPU : pc[p] = "i_lock" => batch[p] # {})'
    BY <1>1, <1>2 DEF WakeInv, Listed
  <2>10. ASSUME NEW d \in CPU, pc'[d] = "i_wake", batch'[d] = {} PROVE queue'[d] # {}
    <3>1. pc[d] = "i_wake" /\ batch[d] = {} /\ queue[d] \subseteq queue'[d]
      BY <2>10, <1>1, <1>2 DEF LockInv
    <3>2. queue[d] # {}
      BY <3>1 DEF WakeInv
    <3> QED
      BY <3>1, <3>2
  <2> QED
    BY <2>1, <2>2, <2>3, <2>4, <2>5, <2>6, <2>7, <2>8, <2>9, <2>10 DEF WakeInv, Listed
<1>8. MoveInv'
  BY <1>1, <1>2 DEF MoveInv
<1>9. LocInv'
  BY <1>1, <1>2 DEF LocInv
<1>10. DropInv'
  BY <1>1, <1>2 DEF DropInv
<1>11. HandledInv'
  <2>1. ASSUME NEW u \in Task, cond'[u], state'[u] \in Sleeping, loc'[u] \in {"sched", "back"}
        PROVE  \E d \in CPU : Waker(d, u)'
    <3>1. cond[u] /\ state[u] \in Sleeping /\ loc[u] \in {"sched", "back"}
      BY <2>1, <1>1, <1>2
    <3>2. PICK d \in CPU : Waker(d, u)
      BY <3>1 DEF HandledInv
    <3>3. Waker(d, u)'
      BY <2>1, <3>1, <3>2, <1>1, <1>2 DEF Waker
    <3> QED
      BY <3>3
  <2> QED
    BY <2>1 DEF HandledInv
<1> QED
  BY <1>3, <1>4, <1>5, <1>6, <1>7, <1>8, <1>9, <1>10, <1>11

(* A wakeup of the waker itself puts its state back without a lock.        *)
LEMMA StartWakeSelfStep ==
  ASSUME WakingInv, NEW c \in CPU, NEW t \in Task, NEW b \in BOOLEAN, StartWake(c, t, b),
         curr[c] = t
  PROVE  WakingInv'
<1>. USE IdleAssumption, NoCpuAssumption, AllowedAssumption, SleepAssumption
<1>. USE DEF WakingInv, TypeInv, PC, RqHeld, Matched, Waking, PiHeld, States, NotRunning,
         Sleeping, flags, user, counts, locals, Goto
<1>1. pc[c] = "run" /\ state[t] # "NEW"
       /\ UNCHANGED <<onRq, onCpu, taskCpu, flags, loc, drops, piLock, curr, queue,
                      counts, wakeList, pending, rqLock, pc, locals>>
  BY DEF StartWake, flags, user, counts, locals, Goto
<1>2. \A u \in Task \ {t} : cond'[u] = cond[u]
  BY DEF StartWake, flags, user, counts, locals, Goto
<1>3. cond' \in [Task -> BOOLEAN] /\ signal' \in [Task -> BOOLEAN]
  <2>1. CASE b
    <3>1. cond' = cond /\ signal' = [signal EXCEPT ![t] = TRUE]
      BY <2>1 DEF StartWake, flags, user, counts, locals, Goto
    <3> QED
      BY <3>1
  <2>2. CASE ~b
    <3>1. signal' = signal /\ cond' = [cond EXCEPT ![t] = TRUE]
      BY <2>2 DEF StartWake, flags, user, counts, locals, Goto
    <3> QED
      BY <3>1
  <2> QED
    BY <2>1, <2>2
<1>4. b => cond' = cond
  BY DEF StartWake, flags, user, counts, locals, Goto
<1>5. state' \in [Task -> States] /\ \A u \in Task \ {t} : state'[u] = state[u]
  BY SMTT(20) DEF StartWake, flags, user, counts, locals, Goto
<1>6. state'[t] = state[t] \/ (state[t] \in Sleeping /\ state'[t] = "RUNNING")
  BY DEF StartWake, flags, user, counts, locals, Goto
<1>7. ~b => state'[t] \notin Sleeping
  BY DEF StartWake, flags, user, counts, locals, Goto
<1>8. onRq[t] = "queued" /\ taskCpu[t] = c /\ onCpu[t]
  BY <1>1 DEF PlaceInv, RunsOn
<1>9. state[t] \in {"RUNNING", "DEAD"} \cup Sleeping
  BY <1>8 DEF StateInv
<1>10. TypeInv'
  BY <1>1, <1>2, <1>3, <1>4, <1>5, <1>6, <1>7, <1>8, <1>9
<1>11. LockInv'
  BY <1>1, <1>2, <1>3, <1>4, <1>5, <1>6, <1>7, <1>8, <1>9 DEF LockInv
<1>12. PlaceInv'
  BY <1>1, <1>2, <1>3, <1>4, <1>5, <1>6, <1>7, <1>8, <1>9 DEF PlaceInv, RunsOn
<1>13. StateInv'
  <2>1. (\A s \in Task : onRq[s] # "off" => state[s] \in {"RUNNING", "DEAD"} \cup Sleeping)'
    BY <1>1, <1>2, <1>3, <1>4, <1>5, <1>6, <1>7, <1>8, <1>9 DEF StateInv, Listed
  <2>2. (\A s \in Task : onRq[s] = "off" /\ state[s] = "RUNNING" =>
                          piLock[s] \in CPU /\ pc[piLock[s]] = "n_queue")'
    BY <1>1, <1>2, <1>3, <1>4, <1>5, <1>6, <1>7, <1>8, <1>9 DEF StateInv, Listed
  <2>3. (\A s \in Task : state[s] = "NEW" => ~onCpu[s])'
    BY <1>1, <1>2, <1>3, <1>4, <1>5, <1>6, <1>7, <1>8, <1>9 DEF StateInv, Listed
  <2>4. (\A s \in Task : state[s] = "WAKING" => piLock[s] \in CPU \/ s \in Listed(taskCpu[s]))'
    BY <1>1, <1>2, <1>3, <1>4, <1>5, <1>6, <1>7, <1>8, <1>9 DEF StateInv, Listed
  <2>5. (\A p \in CPU : pc[p] = "s_block" =>
                         seen[p] = IF tgt[p] = Idle THEN "RUNNING" ELSE state[tgt[p]])'
    BY <1>1, <1>2, <1>3, <1>4, <1>5, <1>6, <1>7, <1>8, <1>9 DEF StateInv, Listed, LockInv,
       PlaceInv, RunsOn
  <2>6. (\A p \in CPU : pc[p] = "n_queue" =>
          state[tgt[p]] = "RUNNING" /\ onRq[tgt[p]] = "off" /\ ~onCpu[tgt[p]]
            /\ taskCpu[tgt[p]] = atCpu[p])'
    BY <1>1, <1>2, <1>3, <1>4, <1>5, <1>6, <1>7, <1>8, <1>9 DEF StateInv, Listed, LockInv
  <2> QED
    BY <2>1, <2>2, <2>3, <2>4, <2>5, <2>6 DEF StateInv, Listed
<1>14. WakeInv'
  <2>1. ASSUME NEW d \in CPU, pc'[d] \in Matched PROVE state'[tgt'[d]] \in {"RUNNING"} \cup Sleeping
    <3>1. pc[d] \in Matched /\ tgt'[d] = tgt[d]
      BY <1>1, <2>1
    <3>2. tgt[d] \in Task /\ state[tgt[d]] \in {"RUNNING"} \cup Sleeping
      BY <3>1 DEF LockInv, WakeInv
    <3>3. CASE tgt[d] = t
      BY <1>6, <3>1, <3>2, <3>3
    <3>4. CASE tgt[d] # t
      BY <1>5, <3>1, <3>2, <3>4
    <3> QED
      BY <3>3, <3>4
  <2>2. (\A p \in CPU : pc[p] = "w_waking" => onRq[tgt[p]] = "off")'
    BY <1>1, <1>2, <1>3, <1>4, <1>5, <1>6, <1>7, <1>8, <1>9 DEF WakeInv, Listed
  <2>3. (\A p \in CPU : pc[p] \in Waking =>
          onRq[tgt[p]] = "off" /\ state[tgt[p]] = "WAKING"
            /\ \A d \in CPU : tgt[p] \notin Listed(d))'
    BY <1>1, <1>2, <1>3, <1>4, <1>5, <1>6, <1>7, <1>8, <1>9 DEF WakeInv, Listed, LockInv
  <2>4. (\A p \in CPU : pc[p] = "w_queue" => ~onCpu[tgt[p]])'
    BY <1>1, <1>2, <1>3, <1>4, <1>5, <1>6, <1>7, <1>8, <1>9 DEF WakeInv, Listed
  <2>5. (\A p \in CPU : pc[p] \in {"w_queue", "w_list"} => taskCpu[tgt[p]] = atCpu[p])'
    BY <1>1, <1>2, <1>3, <1>4, <1>5, <1>6, <1>7, <1>8, <1>9 DEF WakeInv, Listed
  <2>6. (\A p \in CPU : \A s \in Listed(p) :
          state[s] = "WAKING" /\ onRq[s] = "off" /\ taskCpu[s] = p)'
    BY <1>1, <1>2, <1>3, <1>4, <1>5, <1>6, <1>7, <1>8, <1>9 DEF WakeInv, Listed
  <2>7. (\A p \in CPU : wakeList[p] \cap batch[p] = {})'
    BY <1>1, <1>2, <1>3, <1>4, <1>5, <1>6, <1>7, <1>8, <1>9 DEF WakeInv, Listed
  <2>8. (\A p \in CPU : batch[p] # {} => pc[p] \in {"i_lock", "i_wake"})'
    BY <1>1, <1>2, <1>3, <1>4, <1>5, <1>6, <1>7, <1>8, <1>9 DEF WakeInv, Listed
  <2>9. (\A p \in CPU : pc[p] = "i_lock" => batch[p] # {})'
    BY <1>1, <1>2, <1>3, <1>4, <1>5, <1>6, <1>7, <1>8, <1>9 DEF WakeInv, Listed
  <2>10. ASSUME NEW d \in CPU, pc'[d] = "i_wake", batch'[d] = {} PROVE queue'[d] # {}
    <3>1. pc[d] = "i_wake" /\ batch[d] = {} /\ queue[d] \subseteq queue'[d]
      BY <2>10, <1>1, <1>2, <1>3, <1>4, <1>5, <1>6, <1>7, <1>8, <1>9 DEF LockInv
    <3>2. queue[d] # {}
      BY <3>1 DEF WakeInv
    <3> QED
      BY <3>1, <3>2
  <2> QED
    BY <2>1, <2>2, <2>3, <2>4, <2>5, <2>6, <2>7, <2>8, <2>9, <2>10 DEF WakeInv, Listed
<1>15. MoveInv'
  BY <1>1, <1>2, <1>3, <1>4, <1>5, <1>6, <1>7, <1>8, <1>9 DEF MoveInv
<1>16. LocInv'
  BY <1>1, <1>2, <1>3, <1>4, <1>5, <1>6, <1>7, <1>8, <1>9 DEF LocInv
<1>17. DropInv'
  BY <1>1, <1>2, <1>3, <1>4, <1>5, <1>6, <1>7, <1>8, <1>9 DEF DropInv
<1>18. HandledInv'
  <2>1. ASSUME NEW u \in Task, cond'[u], state'[u] \in Sleeping, loc'[u] \in {"sched", "back"}
        PROVE  \E d \in CPU : Waker(d, u)'
    <3>1. cond[u] /\ state[u] \in Sleeping /\ loc[u] \in {"sched", "back"}
      BY <2>1, <1>1, <1>2, <1>3, <1>4, <1>5, <1>6, <1>7, <1>8, <1>9
    <3>2. PICK d \in CPU : Waker(d, u)
      BY <3>1 DEF HandledInv
    <3>3. Waker(d, u)'
      BY <2>1, <3>1, <3>2, <1>1, <1>2, <1>3, <1>4, <1>5, <1>6, <1>7, <1>8, <1>9 DEF Waker
    <3> QED
      BY <3>3
  <2> QED
    BY <2>1 DEF HandledInv
<1> QED
  BY <1>10, <1>11, <1>12, <1>13, <1>14, <1>15, <1>16, <1>17, <1>18

(* The waker makes the condition true first: from there it is the one to   *)
(* see it.                                                                 *)
LEMMA StartWakeOtherStep ==
  ASSUME WakingInv, NEW c \in CPU, NEW t \in Task, NEW b \in BOOLEAN, StartWake(c, t, b),
         curr[c] # t
  PROVE  WakingInv'
<1>. USE IdleAssumption, NoCpuAssumption, AllowedAssumption, SleepAssumption
<1>. USE DEF WakingInv, TypeInv, PC, RqHeld, Matched, Waking, PiHeld, States, NotRunning,
         Sleeping, flags, user, counts, locals, Goto
<1>1. pc[c] = "run" /\ state[t] # "NEW" /\ pc' = [pc EXCEPT ![c] = "w_match"] /\ tgt' = [tgt EXCEPT ![c] = t]
       /\ UNCHANGED <<state, onRq, onCpu, taskCpu, flags, loc, drops, piLock, curr, queue,
                      counts, wakeList, pending, rqLock, seen, atCpu, moved, batch>>
  BY DEF StartWake, flags, user, counts, locals, Goto
<1>2. \A u \in Task \ {t} : cond'[u] = cond[u]
  BY DEF StartWake, flags, user, counts, locals, Goto
<1>3. cond' \in [Task -> BOOLEAN] /\ signal' \in [Task -> BOOLEAN]
  <2>1. CASE b
    BY <2>1 DEF StartWake, flags, user, counts, locals, Goto
  <2>2. CASE ~b
    BY <2>2 DEF StartWake, flags, user, counts, locals, Goto
  <2> QED
    BY <2>1, <2>2
<1>4. b => cond' = cond
  BY DEF StartWake, flags, user, counts, locals, Goto
<1>5. mask' = [mask EXCEPT ![c] = IF b THEN {"INTERRUPTIBLE"} ELSE Sleeping]
  BY DEF StartWake, flags, user, counts, locals, Goto
<1>6. TypeInv'
  <2>1. (state \in [Task -> States] /\ onRq \in [Task -> {"off", "queued", "migrating"}])'
    BY <1>1, <1>2, <1>3, <1>4, <1>5 DEF LockInv, PlaceInv, RunsOn, StateInv, Listed, WakeInv,
       MoveInv, LocInv
  <2>2. (onCpu \in [Task -> BOOLEAN] /\ taskCpu \in [Task -> CPU])'
    BY <1>1, <1>2, <1>3, <1>4, <1>5 DEF LockInv, PlaceInv, RunsOn, StateInv, Listed, WakeInv,
       MoveInv, LocInv
  <2>3. (contrib \in [Task -> BOOLEAN] /\ iowait \in [Task -> BOOLEAN] /\ remote \in [Task -> BOOLEAN])'
    BY <1>1, <1>2, <1>3, <1>4, <1>5 DEF LockInv, PlaceInv, RunsOn, StateInv, Listed, WakeInv,
       MoveInv, LocInv
  <2>4. (cond \in [Task -> BOOLEAN] /\ signal \in [Task -> BOOLEAN])'
    BY <1>1, <1>2, <1>3, <1>4, <1>5
  <2>5. (loc \in [Task -> {"work", "check", "sched", "back", "dead", "gone"}])'
    BY <1>1, <1>2, <1>3, <1>4, <1>5 DEF LockInv, PlaceInv, RunsOn, StateInv, Listed, WakeInv,
       MoveInv, LocInv
  <2>6. (drops \in [Task -> {0, 1}] /\ piLock \in [Task -> CPU \cup {NoCpu}])'
    BY <1>1, <1>2, <1>3, <1>4, <1>5 DEF LockInv, PlaceInv, RunsOn, StateInv, Listed, WakeInv,
       MoveInv, LocInv
  <2>7. (curr \in [CPU -> Task \cup {Idle}] /\ queue \in [CPU -> SUBSET Task])'
    BY <1>1, <1>2, <1>3, <1>4, <1>5 DEF LockInv, PlaceInv, RunsOn, StateInv, Listed, WakeInv,
       MoveInv, LocInv
  <2>8. (wakeList \in [CPU -> SUBSET Task] /\ pending \in [CPU -> BOOLEAN])'
    BY <1>1, <1>2, <1>3, <1>4, <1>5 DEF LockInv, PlaceInv, RunsOn, StateInv, Listed, WakeInv,
       MoveInv, LocInv
  <2>9. (rqLock \in [CPU -> CPU \cup {NoCpu}] /\ pc \in [CPU -> PC])'
    BY <1>1, <1>2, <1>3, <1>4, <1>5 DEF LockInv, PlaceInv, RunsOn, StateInv, Listed, WakeInv,
       MoveInv, LocInv
  <2>10. (tgt \in [CPU -> Task \cup {Idle}] /\ seen \in [CPU -> States] /\ atCpu \in [CPU -> CPU])'
    BY <1>1, <1>2, <1>3, <1>4, <1>5 DEF LockInv, PlaceInv, RunsOn, StateInv, Listed, WakeInv,
       MoveInv, LocInv
  <2>11. (mask \in [CPU -> {{}, {"INTERRUPTIBLE"}, Sleeping, NotRunning}])'
    BY <1>1, <1>2, <1>3, <1>4, <1>5
  <2>12. (moved \in [CPU -> BOOLEAN] /\ batch \in [CPU -> SUBSET Task])'
    BY <1>1, <1>2, <1>3, <1>4, <1>5 DEF LockInv, PlaceInv, RunsOn, StateInv, Listed, WakeInv,
       MoveInv, LocInv
  <2> QED
    BY <2>1, <2>2, <2>3, <2>4, <2>5, <2>6, <2>7, <2>8, <2>9, <2>10, <2>11, <2>12
<1>7. LockInv'
  <2>1. (\A p \in CPU : rqLock[p] = IF pc[p] \in RqHeld THEN p ELSE NoCpu)'
    BY <1>1, <1>2, <1>3, <1>4, <1>5 DEF LockInv, PlaceInv, RunsOn, StateInv, Listed, WakeInv,
       MoveInv, LocInv
  <2>2. (\A p \in CPU, s \in Task : piLock[s] = p <=> tgt[p] = s /\ pc[p] \in PiHeld)'
    BY <1>1, <1>2, <1>3, <1>4, <1>5 DEF LockInv, PlaceInv, RunsOn, StateInv, Listed, WakeInv,
       MoveInv, LocInv
  <2>3. (\A p \in CPU : pc[p] \in PiHeld \cup {"w_match", "m_attach"} => tgt[p] \in Task)'
    BY <1>1, <1>2, <1>3, <1>4, <1>5 DEF LockInv
  <2>4. (\A p \in CPU : pc[p] = "w_match" => mask[p] \subseteq Sleeping)'
    BY <1>1, <1>2, <1>3, <1>4, <1>5 DEF LockInv
  <2> QED
    BY <2>1, <2>2, <2>3, <2>4 DEF LockInv
<1>8. PlaceInv'
  <2>1. (\A p \in CPU, s \in Task : RunsOn(p, s) => onCpu[s] /\ taskCpu[s] = p)'
    BY <1>1, <1>2, <1>3, <1>4, <1>5 DEF PlaceInv, RunsOn, LockInv, StateInv, Listed, WakeInv,
       MoveInv, LocInv
  <2>2. (\A s \in Task : onCpu[s] => RunsOn(taskCpu[s], s))'
    BY <1>1, <1>2, <1>3, <1>4, <1>5 DEF PlaceInv, RunsOn, LockInv, StateInv, Listed, WakeInv,
       MoveInv, LocInv
  <2>3. (\A p \in CPU : curr[p] \in Task /\ pc[p] # "s_switch" => onRq[curr[p]] = "queued")'
    BY <1>1, <1>2, <1>3, <1>4, <1>5 DEF PlaceInv, RunsOn, LockInv, StateInv, Listed, WakeInv,
       MoveInv, LocInv
  <2>4. (\A p \in CPU : pc[p] \in {"s_lock", "s_block", "s_switch"} => tgt[p] = curr[p])'
    BY <1>1, <1>2, <1>3, <1>4, <1>5 DEF PlaceInv, RunsOn, LockInv, StateInv, Listed, WakeInv,
       MoveInv, LocInv
  <2>5. (\A p \in CPU : pc[p] \in {"s_finish", "s_clear"} => tgt[p] # curr[p])'
    BY <1>1, <1>2, <1>3, <1>4, <1>5 DEF PlaceInv, RunsOn, LockInv, StateInv, Listed, WakeInv,
       MoveInv, LocInv
  <2>6. (\A p \in CPU : queue[p] = {s \in Task : onRq[s] = "queued" /\ taskCpu[s] = p})'
    BY <1>1, <1>2, <1>3, <1>4, <1>5 DEF PlaceInv, RunsOn, LockInv, StateInv, Listed, WakeInv,
       MoveInv, LocInv
  <2> QED
    BY <2>1, <2>2, <2>3, <2>4, <2>5, <2>6 DEF PlaceInv, RunsOn
<1>9. StateInv'
  <2>1. (\A s \in Task : onRq[s] # "off" => state[s] \in {"RUNNING", "DEAD"} \cup Sleeping)'
    BY <1>1, <1>2, <1>3, <1>4, <1>5 DEF StateInv, Listed, LockInv, PlaceInv, RunsOn, WakeInv,
       MoveInv, LocInv
  <2>2. (\A s \in Task : onRq[s] = "off" /\ state[s] = "RUNNING" =>
                          piLock[s] \in CPU /\ pc[piLock[s]] = "n_queue")'
    BY <1>1, <1>2, <1>3, <1>4, <1>5 DEF StateInv, Listed, LockInv, PlaceInv, RunsOn, WakeInv,
       MoveInv, LocInv
  <2>3. (\A s \in Task : state[s] = "NEW" => ~onCpu[s])'
    BY <1>1, <1>2, <1>3, <1>4, <1>5 DEF StateInv, Listed, LockInv, PlaceInv, RunsOn, WakeInv,
       MoveInv, LocInv
  <2>4. (\A s \in Task : state[s] = "WAKING" => piLock[s] \in CPU \/ s \in Listed(taskCpu[s]))'
    BY <1>1, <1>2, <1>3, <1>4, <1>5 DEF StateInv, Listed, LockInv, PlaceInv, RunsOn, WakeInv,
       MoveInv, LocInv
  <2>5. (\A p \in CPU : pc[p] = "s_block" =>
                         seen[p] = IF tgt[p] = Idle THEN "RUNNING" ELSE state[tgt[p]])'
    BY <1>1, <1>2, <1>3, <1>4, <1>5 DEF StateInv, Listed, LockInv, PlaceInv, RunsOn, WakeInv,
       MoveInv, LocInv
  <2>6. (\A p \in CPU : pc[p] = "n_queue" =>
          state[tgt[p]] = "RUNNING" /\ onRq[tgt[p]] = "off" /\ ~onCpu[tgt[p]]
            /\ taskCpu[tgt[p]] = atCpu[p])'
    BY <1>1, <1>2, <1>3, <1>4, <1>5 DEF StateInv, Listed, LockInv, PlaceInv, RunsOn, WakeInv,
       MoveInv, LocInv
  <2> QED
    BY <2>1, <2>2, <2>3, <2>4, <2>5, <2>6 DEF StateInv, Listed
<1>10. WakeInv'
  <2>1. (\A p \in CPU : pc[p] \in Matched => state[tgt[p]] \in {"RUNNING"} \cup Sleeping)'
    BY <1>1, <1>2, <1>3, <1>4, <1>5 DEF WakeInv, Listed, LockInv, PlaceInv, RunsOn, StateInv,
       MoveInv, LocInv
  <2>2. (\A p \in CPU : pc[p] = "w_waking" => onRq[tgt[p]] = "off")'
    BY <1>1, <1>2, <1>3, <1>4, <1>5 DEF WakeInv, Listed, LockInv, PlaceInv, RunsOn, StateInv,
       MoveInv, LocInv
  <2>3. (\A p \in CPU : pc[p] \in Waking =>
          onRq[tgt[p]] = "off" /\ state[tgt[p]] = "WAKING"
            /\ \A d \in CPU : tgt[p] \notin Listed(d))'
    BY <1>1, <1>2, <1>3, <1>4, <1>5 DEF WakeInv, Listed, LockInv, PlaceInv, RunsOn, StateInv,
       MoveInv, LocInv
  <2>4. (\A p \in CPU : pc[p] = "w_queue" => ~onCpu[tgt[p]])'
    BY <1>1, <1>2, <1>3, <1>4, <1>5 DEF WakeInv, Listed, LockInv, PlaceInv, RunsOn, StateInv,
       MoveInv, LocInv
  <2>5. (\A p \in CPU : pc[p] \in {"w_queue", "w_list"} => taskCpu[tgt[p]] = atCpu[p])'
    BY <1>1, <1>2, <1>3, <1>4, <1>5 DEF WakeInv, Listed, LockInv, PlaceInv, RunsOn, StateInv,
       MoveInv, LocInv
  <2>6. (\A p \in CPU : \A s \in Listed(p) :
          state[s] = "WAKING" /\ onRq[s] = "off" /\ taskCpu[s] = p)'
    BY <1>1, <1>2, <1>3, <1>4, <1>5 DEF WakeInv, Listed, LockInv, PlaceInv, RunsOn, StateInv,
       MoveInv, LocInv
  <2>7. (\A p \in CPU : wakeList[p] \cap batch[p] = {})'
    BY <1>1, <1>2, <1>3, <1>4, <1>5 DEF WakeInv, Listed, LockInv, PlaceInv, RunsOn, StateInv,
       MoveInv, LocInv
  <2>8. (\A p \in CPU : batch[p] # {} => pc[p] \in {"i_lock", "i_wake"})'
    BY <1>1, <1>2, <1>3, <1>4, <1>5 DEF WakeInv, Listed, LockInv, PlaceInv, RunsOn, StateInv,
       MoveInv, LocInv
  <2>9. (\A p \in CPU : pc[p] = "i_lock" => batch[p] # {})'
    BY <1>1, <1>2, <1>3, <1>4, <1>5 DEF WakeInv, Listed, LockInv, PlaceInv, RunsOn, StateInv,
       MoveInv, LocInv
  <2>10. ASSUME NEW d \in CPU, pc'[d] = "i_wake", batch'[d] = {} PROVE queue'[d] # {}
    <3>1. pc[d] = "i_wake" /\ batch[d] = {} /\ queue[d] \subseteq queue'[d]
      BY <2>10, <1>1, <1>2, <1>3, <1>4, <1>5 DEF LockInv
    <3>2. queue[d] # {}
      BY <3>1 DEF WakeInv
    <3> QED
      BY <3>1, <3>2
  <2> QED
    BY <2>1, <2>2, <2>3, <2>4, <2>5, <2>6, <2>7, <2>8, <2>9, <2>10 DEF WakeInv, Listed
<1>11. MoveInv'
  <2>1. (\A p \in CPU : pc[p] = "m_attach" =>
          onRq[tgt[p]] = "migrating" /\ ~onCpu[tgt[p]] /\ taskCpu[tgt[p]] = atCpu[p])'
    BY <1>1, <1>2, <1>3, <1>4, <1>5 DEF MoveInv, LockInv, PlaceInv, RunsOn, StateInv, Listed,
       WakeInv, LocInv
  <2>2. (\A p, d \in CPU : pc[p] = "m_attach" /\ pc[d] = "m_attach" /\ tgt[p] = tgt[d] => p = d)'
    BY <1>1, <1>2, <1>3, <1>4, <1>5 DEF MoveInv
  <2> QED
    BY <2>1, <2>2 DEF MoveInv
<1>12. LocInv'
  <2>1. (\A s \in Task : state[s] = "DEAD" <=> loc[s] \in {"dead", "gone"})'
    BY <1>1, <1>2, <1>3, <1>4, <1>5 DEF LocInv, LockInv, PlaceInv, RunsOn, StateInv, Listed,
       WakeInv, MoveInv
  <2>2. (\A s \in Task : loc[s] = "dead" =>
          LET p == taskCpu[s] IN
            curr[p] = s /\ pc[p] \notin {"s_lock", "s_block", "s_switch", "s_finish", "s_clear", "s_unlock"})'
    BY <1>1, <1>2, <1>3, <1>4, <1>5 DEF LocInv, LockInv, PlaceInv, RunsOn, StateInv, Listed,
       WakeInv, MoveInv
  <2>3. (\A s \in Task : loc[s] = "gone" /\ onRq[s] # "off" =>
          LET p == taskCpu[s] IN
            curr[p] = s /\ pc[p] \in {"s_lock", "s_block"} /\ mask[p] = NotRunning)'
    BY <1>1, <1>2, <1>3, <1>4, <1>5 DEF LocInv, LockInv, PlaceInv, RunsOn, StateInv, Listed,
       WakeInv, MoveInv
  <2>4. (\A s \in Task : onRq[s] = "off" /\ state[s] \in Sleeping \cup {"WAKING"} => loc[s] = "back")'
    BY <1>1, <1>2, <1>3, <1>4, <1>5 DEF LocInv, LockInv, PlaceInv, RunsOn, StateInv, Listed,
       WakeInv, MoveInv
  <2>5. (\A p \in CPU : pc[p] \in {"s_lock", "s_block"} /\ tgt[p] \in Task /\ mask[p] # {} =>
          loc[tgt[p]] \in {"back", "gone"})'
    BY <1>1, <1>2, <1>3, <1>4, <1>5 DEF LocInv, LockInv, PlaceInv, RunsOn, StateInv, Listed,
       WakeInv, MoveInv
  <2> QED
    BY <2>1, <2>2, <2>3, <2>4, <2>5 DEF LocInv
<1>13. DropInv'
  <2>1. (\A s \in Task : drops[s] = 1 => state[s] = "DEAD" /\ onRq[s] = "off" /\ ~onCpu[s])'
    BY <1>1, <1>2, <1>3, <1>4, <1>5 DEF DropInv, LockInv, PlaceInv, RunsOn, StateInv, Listed,
       WakeInv, MoveInv, LocInv
  <2>2. (\A p \in CPU : pc[p] \in {"s_clear", "s_unlock"} /\ seen[p] = "DEAD" =>
          /\ tgt[p] \in Task /\ state[tgt[p]] = "DEAD" /\ onRq[tgt[p]] = "off"
          /\ taskCpu[tgt[p]] = p /\ drops[tgt[p]] = 0
          /\ pc[p] = "s_unlock" => ~onCpu[tgt[p]])'
    BY <1>1, <1>2, <1>3, <1>4, <1>5 DEF DropInv, LockInv, PlaceInv, RunsOn, StateInv, Listed,
       WakeInv, MoveInv, LocInv
  <2> QED
    BY <2>1, <2>2 DEF DropInv
<1>14. HandledInv'
  <2>1. ASSUME NEW u \in Task, cond'[u], state'[u] \in Sleeping, loc'[u] \in {"sched", "back"}
        PROVE  \E d \in CPU : Waker(d, u)'
    <3>1. CASE u # t \/ b
      <4>1. cond[u] /\ state[u] \in Sleeping /\ loc[u] \in {"sched", "back"}
        BY <1>1, <1>2, <1>4, <2>1, <3>1
      <4>2. PICK d \in CPU : Waker(d, u)
        BY <4>1 DEF HandledInv
      <4>3. d # c
        BY <1>1, <4>2 DEF Waker
      <4>4. Waker(d, u)'
        BY <1>1, <1>5, <4>2, <4>3 DEF Waker
      <4> QED
        BY <4>4
    <3>2. CASE u = t /\ ~b
      <4>1. Waker(c, t)'
        BY <1>1, <1>5, <3>2 DEF Waker
      <4> QED
        BY <3>2, <4>1
    <3> QED
      BY <3>1, <3>2
  <2> QED
    BY <2>1 DEF HandledInv
<1> QED
  BY <1>6, <1>7, <1>8, <1>9, <1>10, <1>11, <1>12, <1>13, <1>14

(* ttwu_state_match under pi_lock: the task stays asleep until it is       *)
(* woken.                                                                  *)
LEMMA MatchTakenStep ==
  ASSUME WakingInv, NEW c \in CPU, Match(c), state[tgt[c]] \in mask[c]
  PROVE  WakingInv'
<1>. USE IdleAssumption, NoCpuAssumption, AllowedAssumption, SleepAssumption
<1>. USE DEF WakingInv, TypeInv, PC, RqHeld, Matched, Waking, PiHeld, States, NotRunning,
         Sleeping, flags, user, counts, locals, Goto
<1>1. pc[c] = "w_match" /\ piLock[tgt[c]] = NoCpu
       /\ piLock' = [piLock EXCEPT ![tgt[c]] = c] /\ pc' = [pc EXCEPT ![c] = "w_on_rq"]
       /\ UNCHANGED <<state, onRq, onCpu, taskCpu, flags, user, drops, curr, queue,
                      counts, wakeList, pending, rqLock, locals>>
  BY DEF Match, Free, flags, user, counts, locals, Goto
<1>2. tgt[c] \in Task /\ mask[c] \subseteq Sleeping
  BY <1>1 DEF LockInv
<1>3. \A d \in CPU : tgt[d] = tgt[c] => pc[d] \notin PiHeld
  BY <1>1, <1>2 DEF LockInv
<1>4. TypeInv'
  BY <1>1, <1>2, <1>3
<1>5. LockInv'
  BY <1>1, <1>2, <1>3 DEF LockInv
<1>6. PlaceInv'
  BY <1>1, <1>2, <1>3 DEF PlaceInv, RunsOn
<1>7. StateInv'
  BY <1>1, <1>2, <1>3 DEF StateInv, Listed
<1>8. WakeInv'
  <2>1. (\A p \in CPU : pc[p] \in Matched => state[tgt[p]] \in {"RUNNING"} \cup Sleeping)'
    BY <1>1, <1>2, <1>3 DEF WakeInv, Listed
  <2>2. (\A p \in CPU : pc[p] = "w_waking" => onRq[tgt[p]] = "off")'
    BY <1>1, <1>2, <1>3 DEF WakeInv, Listed
  <2>3. (\A p \in CPU : pc[p] \in Waking =>
          onRq[tgt[p]] = "off" /\ state[tgt[p]] = "WAKING"
            /\ \A d \in CPU : tgt[p] \notin Listed(d))'
    BY <1>1, <1>2, <1>3 DEF WakeInv, Listed
  <2>4. (\A p \in CPU : pc[p] = "w_queue" => ~onCpu[tgt[p]])'
    BY <1>1, <1>2, <1>3 DEF WakeInv, Listed
  <2>5. (\A p \in CPU : pc[p] \in {"w_queue", "w_list"} => taskCpu[tgt[p]] = atCpu[p])'
    BY <1>1, <1>2, <1>3 DEF WakeInv, Listed
  <2>6. (\A p \in CPU : \A t \in Listed(p) :
          state[t] = "WAKING" /\ onRq[t] = "off" /\ taskCpu[t] = p)'
    BY <1>1, <1>2, <1>3 DEF WakeInv, Listed
  <2>7. (\A p \in CPU : wakeList[p] \cap batch[p] = {})'
    BY <1>1, <1>2, <1>3 DEF WakeInv, Listed
  <2>8. (\A p \in CPU : batch[p] # {} => pc[p] \in {"i_lock", "i_wake"})'
    BY <1>1, <1>2, <1>3 DEF WakeInv, Listed
  <2>9. (\A p \in CPU : pc[p] = "i_lock" => batch[p] # {})'
    BY <1>1, <1>2, <1>3 DEF WakeInv, Listed
  <2>10. ASSUME NEW d \in CPU, pc'[d] = "i_wake", batch'[d] = {} PROVE queue'[d] # {}
    <3>1. pc[d] = "i_wake" /\ batch[d] = {} /\ queue[d] \subseteq queue'[d]
      BY <2>10, <1>1, <1>2, <1>3 DEF LockInv
    <3>2. queue[d] # {}
      BY <3>1 DEF WakeInv
    <3> QED
      BY <3>1, <3>2
  <2> QED
    BY <2>1, <2>2, <2>3, <2>4, <2>5, <2>6, <2>7, <2>8, <2>9, <2>10 DEF WakeInv, Listed
<1>9. MoveInv'
  BY <1>1, <1>2, <1>3 DEF MoveInv
<1>10. LocInv'
  BY <1>1, <1>2, <1>3 DEF LocInv
<1>11. DropInv'
  BY <1>1, <1>2, <1>3 DEF DropInv
<1>12. HandledInv'
  <2>1. ASSUME NEW u \in Task, cond'[u], state'[u] \in Sleeping, loc'[u] \in {"sched", "back"}
        PROVE  \E d \in CPU : Waker(d, u)'
    <3>1. cond[u] /\ state[u] \in Sleeping /\ loc[u] \in {"sched", "back"}
      BY <2>1, <1>1, <1>2, <1>3
    <3>2. PICK d \in CPU : Waker(d, u)
      BY <3>1 DEF HandledInv
    <3>3. Waker(d, u)'
      BY <2>1, <3>1, <3>2, <1>1, <1>2, <1>3 DEF Waker
    <3> QED
      BY <3>3
  <2> QED
    BY <2>1 DEF HandledInv
<1> QED
  BY <1>4, <1>5, <1>6, <1>7, <1>8, <1>9, <1>10, <1>11, <1>12

(* A waker that does not match leaves no sleeper whose condition is true.  *)
LEMMA MatchRefusedStep ==
  ASSUME WakingInv, NEW c \in CPU, Match(c), state[tgt[c]] \notin mask[c]
  PROVE  WakingInv'
<1>. USE IdleAssumption, NoCpuAssumption, AllowedAssumption, SleepAssumption
<1>. USE DEF WakingInv, TypeInv, PC, RqHeld, Matched, Waking, PiHeld, States, NotRunning,
         Sleeping, flags, user, counts, locals, Goto
<1>1. pc[c] = "w_match" /\ piLock[tgt[c]] = NoCpu /\ pc' = [pc EXCEPT ![c] = "run"] /\ tgt' = [tgt EXCEPT ![c] = Idle]
       /\ seen' = [seen EXCEPT ![c] = "RUNNING"] /\ atCpu' = [atCpu EXCEPT ![c] = c]
       /\ mask' = [mask EXCEPT ![c] = {}] /\ moved' = [moved EXCEPT ![c] = FALSE] /\ batch' = batch
       /\ UNCHANGED <<state, onRq, onCpu, taskCpu, flags, user, drops, curr, queue,
                      counts, wakeList, pending, rqLock, piLock>>
  BY DEF Match, Free, Return, flags, user, counts, locals, Goto
<1>2. tgt[c] \in Task /\ mask[c] \subseteq Sleeping
  BY <1>1 DEF LockInv
<1>3. \A d \in CPU : tgt[d] = tgt[c] => pc[d] \notin PiHeld
  BY <1>1, <1>2 DEF LockInv
<1>4. TypeInv'
  BY <1>1, <1>2, <1>3
<1>5. LockInv'
  BY <1>1, <1>2, <1>3 DEF LockInv
<1>6. PlaceInv'
  BY <1>1, <1>2, <1>3 DEF PlaceInv, RunsOn
<1>7. StateInv'
  BY <1>1, <1>2, <1>3 DEF StateInv, Listed
<1>8. WakeInv'
  <2>1. (\A p \in CPU : pc[p] \in Matched => state[tgt[p]] \in {"RUNNING"} \cup Sleeping)'
    BY <1>1, <1>2, <1>3 DEF WakeInv, Listed
  <2>2. (\A p \in CPU : pc[p] = "w_waking" => onRq[tgt[p]] = "off")'
    BY <1>1, <1>2, <1>3 DEF WakeInv, Listed
  <2>3. (\A p \in CPU : pc[p] \in Waking =>
          onRq[tgt[p]] = "off" /\ state[tgt[p]] = "WAKING"
            /\ \A d \in CPU : tgt[p] \notin Listed(d))'
    BY <1>1, <1>2, <1>3 DEF WakeInv, Listed
  <2>4. (\A p \in CPU : pc[p] = "w_queue" => ~onCpu[tgt[p]])'
    BY <1>1, <1>2, <1>3 DEF WakeInv, Listed
  <2>5. (\A p \in CPU : pc[p] \in {"w_queue", "w_list"} => taskCpu[tgt[p]] = atCpu[p])'
    BY <1>1, <1>2, <1>3 DEF WakeInv, Listed
  <2>6. (\A p \in CPU : \A t \in Listed(p) :
          state[t] = "WAKING" /\ onRq[t] = "off" /\ taskCpu[t] = p)'
    BY <1>1, <1>2, <1>3 DEF WakeInv, Listed
  <2>7. (\A p \in CPU : wakeList[p] \cap batch[p] = {})'
    BY <1>1, <1>2, <1>3 DEF WakeInv, Listed
  <2>8. (\A p \in CPU : batch[p] # {} => pc[p] \in {"i_lock", "i_wake"})'
    BY <1>1, <1>2, <1>3 DEF WakeInv, Listed
  <2>9. (\A p \in CPU : pc[p] = "i_lock" => batch[p] # {})'
    BY <1>1, <1>2, <1>3 DEF WakeInv, Listed
  <2>10. ASSUME NEW d \in CPU, pc'[d] = "i_wake", batch'[d] = {} PROVE queue'[d] # {}
    <3>1. pc[d] = "i_wake" /\ batch[d] = {} /\ queue[d] \subseteq queue'[d]
      BY <2>10, <1>1, <1>2, <1>3 DEF LockInv
    <3>2. queue[d] # {}
      BY <3>1 DEF WakeInv
    <3> QED
      BY <3>1, <3>2
  <2> QED
    BY <2>1, <2>2, <2>3, <2>4, <2>5, <2>6, <2>7, <2>8, <2>9, <2>10 DEF WakeInv, Listed
<1>9. MoveInv'
  BY <1>1, <1>2, <1>3 DEF MoveInv
<1>10. LocInv'
  BY <1>1, <1>2, <1>3 DEF LocInv
<1>11. DropInv'
  BY <1>1, <1>2, <1>3 DEF DropInv
<1>12. HandledInv'
  <2>1. ASSUME NEW u \in Task, cond'[u], state'[u] \in Sleeping, loc'[u] \in {"sched", "back"}
        PROVE  \E d \in CPU : Waker(d, u)'
    <3>1. cond[u] /\ state[u] \in Sleeping /\ loc[u] \in {"sched", "back"}
      BY <2>1, <1>1, <1>2, <1>3
    <3>2. PICK d \in CPU : Waker(d, u)
      BY <3>1 DEF HandledInv
    <3>3. Waker(d, u)'
      BY <2>1, <3>1, <3>2, <1>1, <1>2, <1>3 DEF Waker
    <3> QED
      BY <3>3
  <2> QED
    BY <2>1 DEF HandledInv
<1> QED
  BY <1>4, <1>5, <1>6, <1>7, <1>8, <1>9, <1>10, <1>11, <1>12

(* A task that is off the runqueues stays off while its pi_lock is held.   *)
LEMMA ReadOnRqStep ==
  ASSUME WakingInv, NEW c \in CPU, ReadOnRq(c)
  PROVE  WakingInv'
<1>. USE IdleAssumption, NoCpuAssumption, AllowedAssumption, SleepAssumption
<1>. USE DEF WakingInv, TypeInv, PC, RqHeld, Matched, Waking, PiHeld, States, NotRunning,
         Sleeping, ReadOnRq, flags, user, counts, locals, Goto
<1>1. tgt[c] \in Task
  BY DEF LockInv
<1>2. TypeInv'
  BY <1>1
<1>3. LockInv'
  BY <1>1 DEF LockInv
<1>4. PlaceInv'
  BY <1>1 DEF PlaceInv, RunsOn
<1>5. StateInv'
  BY <1>1 DEF StateInv, Listed
<1>6. WakeInv'
  <2>1. (\A p \in CPU : pc[p] \in Matched => state[tgt[p]] \in {"RUNNING"} \cup Sleeping)'
    BY <1>1 DEF WakeInv, Listed
  <2>2. (\A p \in CPU : pc[p] = "w_waking" => onRq[tgt[p]] = "off")'
    BY <1>1 DEF WakeInv, Listed
  <2>3. (\A p \in CPU : pc[p] \in Waking =>
          onRq[tgt[p]] = "off" /\ state[tgt[p]] = "WAKING"
            /\ \A d \in CPU : tgt[p] \notin Listed(d))'
    BY <1>1 DEF WakeInv, Listed
  <2>4. (\A p \in CPU : pc[p] = "w_queue" => ~onCpu[tgt[p]])'
    BY <1>1 DEF WakeInv, Listed
  <2>5. (\A p \in CPU : pc[p] \in {"w_queue", "w_list"} => taskCpu[tgt[p]] = atCpu[p])'
    BY <1>1 DEF WakeInv, Listed
  <2>6. (\A p \in CPU : \A t \in Listed(p) :
          state[t] = "WAKING" /\ onRq[t] = "off" /\ taskCpu[t] = p)'
    BY <1>1 DEF WakeInv, Listed
  <2>7. (\A p \in CPU : wakeList[p] \cap batch[p] = {})'
    BY <1>1 DEF WakeInv, Listed
  <2>8. (\A p \in CPU : batch[p] # {} => pc[p] \in {"i_lock", "i_wake"})'
    BY <1>1 DEF WakeInv, Listed
  <2>9. (\A p \in CPU : pc[p] = "i_lock" => batch[p] # {})'
    BY <1>1 DEF WakeInv, Listed
  <2>10. ASSUME NEW d \in CPU, pc'[d] = "i_wake", batch'[d] = {} PROVE queue'[d] # {}
    <3>1. pc[d] = "i_wake" /\ batch[d] = {} /\ queue[d] \subseteq queue'[d]
      BY <2>10, <1>1 DEF LockInv
    <3>2. queue[d] # {}
      BY <3>1 DEF WakeInv
    <3> QED
      BY <3>1, <3>2
  <2> QED
    BY <2>1, <2>2, <2>3, <2>4, <2>5, <2>6, <2>7, <2>8, <2>9, <2>10 DEF WakeInv, Listed
<1>7. MoveInv'
  BY <1>1 DEF MoveInv
<1>8. LocInv'
  BY <1>1 DEF LocInv
<1>9. DropInv'
  BY <1>1 DEF DropInv
<1>10. HandledInv'
  <2>1. ASSUME NEW u \in Task, cond'[u], state'[u] \in Sleeping, loc'[u] \in {"sched", "back"}
        PROVE  \E d \in CPU : Waker(d, u)'
    <3>1. cond[u] /\ state[u] \in Sleeping /\ loc[u] \in {"sched", "back"}
      BY <2>1, <1>1
    <3>2. PICK d \in CPU : Waker(d, u)
      BY <3>1 DEF HandledInv
    <3>3. Waker(d, u)'
      BY <2>1, <3>1, <3>2, <1>1 DEF Waker
    <3> QED
      BY <3>3
  <2> QED
    BY <2>1 DEF HandledInv
<1> QED
  BY <1>2, <1>3, <1>4, <1>5, <1>6, <1>7, <1>8, <1>9, <1>10

(* __task_rq_lock reads a hint that the next step checks.                  *)
LEMMA ReadTaskRqStep ==
  ASSUME WakingInv, NEW c \in CPU, ReadTaskRq(c)
  PROVE  WakingInv'
<1>. USE IdleAssumption, NoCpuAssumption, AllowedAssumption, SleepAssumption
<1>. USE DEF WakingInv, TypeInv, PC, RqHeld, Matched, Waking, PiHeld, States, NotRunning,
         Sleeping, ReadTaskRq, flags, user, counts, locals, Goto
<1>1. tgt[c] \in Task
  BY DEF LockInv
<1>2. TypeInv'
  BY <1>1
<1>3. LockInv'
  BY <1>1 DEF LockInv
<1>4. PlaceInv'
  BY <1>1 DEF PlaceInv, RunsOn
<1>5. StateInv'
  BY <1>1 DEF StateInv, Listed
<1>6. WakeInv'
  <2>1. (\A p \in CPU : pc[p] \in Matched => state[tgt[p]] \in {"RUNNING"} \cup Sleeping)'
    BY <1>1 DEF WakeInv, Listed
  <2>2. (\A p \in CPU : pc[p] = "w_waking" => onRq[tgt[p]] = "off")'
    BY <1>1 DEF WakeInv, Listed
  <2>3. (\A p \in CPU : pc[p] \in Waking =>
          onRq[tgt[p]] = "off" /\ state[tgt[p]] = "WAKING"
            /\ \A d \in CPU : tgt[p] \notin Listed(d))'
    BY <1>1 DEF WakeInv, Listed
  <2>4. (\A p \in CPU : pc[p] = "w_queue" => ~onCpu[tgt[p]])'
    BY <1>1 DEF WakeInv, Listed
  <2>5. (\A p \in CPU : pc[p] \in {"w_queue", "w_list"} => taskCpu[tgt[p]] = atCpu[p])'
    BY <1>1 DEF WakeInv, Listed
  <2>6. (\A p \in CPU : \A t \in Listed(p) :
          state[t] = "WAKING" /\ onRq[t] = "off" /\ taskCpu[t] = p)'
    BY <1>1 DEF WakeInv, Listed
  <2>7. (\A p \in CPU : wakeList[p] \cap batch[p] = {})'
    BY <1>1 DEF WakeInv, Listed
  <2>8. (\A p \in CPU : batch[p] # {} => pc[p] \in {"i_lock", "i_wake"})'
    BY <1>1 DEF WakeInv, Listed
  <2>9. (\A p \in CPU : pc[p] = "i_lock" => batch[p] # {})'
    BY <1>1 DEF WakeInv, Listed
  <2>10. ASSUME NEW d \in CPU, pc'[d] = "i_wake", batch'[d] = {} PROVE queue'[d] # {}
    <3>1. pc[d] = "i_wake" /\ batch[d] = {} /\ queue[d] \subseteq queue'[d]
      BY <2>10, <1>1 DEF LockInv
    <3>2. queue[d] # {}
      BY <3>1 DEF WakeInv
    <3> QED
      BY <3>1, <3>2
  <2> QED
    BY <2>1, <2>2, <2>3, <2>4, <2>5, <2>6, <2>7, <2>8, <2>9, <2>10 DEF WakeInv, Listed
<1>7. MoveInv'
  BY <1>1 DEF MoveInv
<1>8. LocInv'
  BY <1>1 DEF LocInv
<1>9. DropInv'
  BY <1>1 DEF DropInv
<1>10. HandledInv'
  <2>1. ASSUME NEW u \in Task, cond'[u], state'[u] \in Sleeping, loc'[u] \in {"sched", "back"}
        PROVE  \E d \in CPU : Waker(d, u)'
    <3>1. cond[u] /\ state[u] \in Sleeping /\ loc[u] \in {"sched", "back"}
      BY <2>1, <1>1
    <3>2. PICK d \in CPU : Waker(d, u)
      BY <3>1 DEF HandledInv
    <3>3. Waker(d, u)'
      BY <2>1, <3>1, <3>2, <1>1 DEF Waker
    <3> QED
      BY <3>3
  <2> QED
    BY <2>1 DEF HandledInv
<1> QED
  BY <1>2, <1>3, <1>4, <1>5, <1>6, <1>7, <1>8, <1>9, <1>10

(* The task has left the runqueue that was locked: start over.             *)
LEMMA RunnableLeftStep ==
  ASSUME WakingInv, NEW c \in CPU, WakeRunnable(c),
         taskCpu[tgt[c]] # atCpu[c] \/ onRq[tgt[c]] = "migrating"
  PROVE  WakingInv'
<1>. USE IdleAssumption, NoCpuAssumption, AllowedAssumption, SleepAssumption
<1>. USE DEF WakingInv, TypeInv, PC, RqHeld, Matched, Waking, PiHeld, States, NotRunning,
         Sleeping, flags, user, counts, locals, Goto
<1>1. pc[c] = "w_runnable" /\ pc' = [pc EXCEPT ![c] = "w_task_rq"]
       /\ UNCHANGED <<state, onRq, onCpu, taskCpu, flags, user, drops, curr, queue,
                      counts, wakeList, pending, rqLock, piLock, locals>>
  BY DEF WakeRunnable, Free, flags, user, counts, locals, Goto
<1>2. tgt[c] \in Task /\ state[tgt[c]] \in {"RUNNING"} \cup Sleeping
  BY <1>1 DEF LockInv, WakeInv
<1>3. \A d \in CPU \ {c} : tgt[d] = tgt[c] => pc[d] \notin PiHeld
  BY <1>1, <1>2 DEF LockInv
<1>4. TypeInv'
  BY <1>1, <1>2, <1>3
<1>5. LockInv'
  BY <1>1, <1>2, <1>3 DEF LockInv
<1>6. PlaceInv'
  BY <1>1, <1>2, <1>3 DEF PlaceInv, RunsOn
<1>7. StateInv'
  BY <1>1, <1>2, <1>3 DEF StateInv, Listed
<1>8. WakeInv'
  <2>1. (\A p \in CPU : pc[p] \in Matched => state[tgt[p]] \in {"RUNNING"} \cup Sleeping)'
    BY <1>1, <1>2, <1>3 DEF WakeInv, Listed
  <2>2. (\A p \in CPU : pc[p] = "w_waking" => onRq[tgt[p]] = "off")'
    BY <1>1, <1>2, <1>3 DEF WakeInv, Listed
  <2>3. (\A p \in CPU : pc[p] \in Waking =>
          onRq[tgt[p]] = "off" /\ state[tgt[p]] = "WAKING"
            /\ \A d \in CPU : tgt[p] \notin Listed(d))'
    BY <1>1, <1>2, <1>3 DEF WakeInv, Listed
  <2>4. (\A p \in CPU : pc[p] = "w_queue" => ~onCpu[tgt[p]])'
    BY <1>1, <1>2, <1>3 DEF WakeInv, Listed
  <2>5. (\A p \in CPU : pc[p] \in {"w_queue", "w_list"} => taskCpu[tgt[p]] = atCpu[p])'
    BY <1>1, <1>2, <1>3 DEF WakeInv, Listed
  <2>6. (\A p \in CPU : \A t \in Listed(p) :
          state[t] = "WAKING" /\ onRq[t] = "off" /\ taskCpu[t] = p)'
    BY <1>1, <1>2, <1>3 DEF WakeInv, Listed
  <2>7. (\A p \in CPU : wakeList[p] \cap batch[p] = {})'
    BY <1>1, <1>2, <1>3 DEF WakeInv, Listed
  <2>8. (\A p \in CPU : batch[p] # {} => pc[p] \in {"i_lock", "i_wake"})'
    BY <1>1, <1>2, <1>3 DEF WakeInv, Listed
  <2>9. (\A p \in CPU : pc[p] = "i_lock" => batch[p] # {})'
    BY <1>1, <1>2, <1>3 DEF WakeInv, Listed
  <2>10. ASSUME NEW d \in CPU, pc'[d] = "i_wake", batch'[d] = {} PROVE queue'[d] # {}
    <3>1. pc[d] = "i_wake" /\ batch[d] = {} /\ queue[d] \subseteq queue'[d]
      BY <2>10, <1>1, <1>2, <1>3 DEF LockInv
    <3>2. queue[d] # {}
      BY <3>1 DEF WakeInv
    <3> QED
      BY <3>1, <3>2
  <2> QED
    BY <2>1, <2>2, <2>3, <2>4, <2>5, <2>6, <2>7, <2>8, <2>9, <2>10 DEF WakeInv, Listed
<1>9. MoveInv'
  BY <1>1, <1>2, <1>3 DEF MoveInv
<1>10. LocInv'
  BY <1>1, <1>2, <1>3 DEF LocInv
<1>11. DropInv'
  BY <1>1, <1>2, <1>3 DEF DropInv
<1>12. HandledInv'
  <2>1. ASSUME NEW u \in Task, cond'[u], state'[u] \in Sleeping, loc'[u] \in {"sched", "back"}
        PROVE  \E d \in CPU : Waker(d, u)'
    <3>1. cond[u] /\ state[u] \in Sleeping /\ loc[u] \in {"sched", "back"}
      BY <2>1, <1>1, <1>2, <1>3
    <3>2. PICK d \in CPU : Waker(d, u)
      BY <3>1 DEF HandledInv
    <3>3. Waker(d, u)'
      BY <2>1, <3>1, <3>2, <1>1, <1>2, <1>3 DEF Waker
    <3> QED
      BY <3>3
  <2> QED
    BY <2>1 DEF HandledInv
<1> QED
  BY <1>4, <1>5, <1>6, <1>7, <1>8, <1>9, <1>10, <1>11, <1>12

(* ttwu_runnable: the task is queued and its state is put back.            *)
LEMMA RunnableWokenStep ==
  ASSUME WakingInv, NEW c \in CPU, WakeRunnable(c), taskCpu[tgt[c]] = atCpu[c],
         onRq[tgt[c]] = "queued"
  PROVE  WakingInv'
<1>. USE IdleAssumption, NoCpuAssumption, AllowedAssumption, SleepAssumption
<1>. USE DEF WakingInv, TypeInv, PC, RqHeld, Matched, Waking, PiHeld, States, NotRunning,
         Sleeping, flags, user, counts, locals, Goto
<1>1. pc[c] = "w_runnable" /\ rqLock[taskCpu[tgt[c]]] = NoCpu
       /\ state' = [state EXCEPT ![tgt[c]] = "RUNNING"] /\ piLock' = [piLock EXCEPT ![tgt[c]] = NoCpu]
       /\ pc' = [pc EXCEPT ![c] = "run"] /\ tgt' = [tgt EXCEPT ![c] = Idle]
       /\ seen' = [seen EXCEPT ![c] = "RUNNING"] /\ atCpu' = [atCpu EXCEPT ![c] = c]
       /\ mask' = [mask EXCEPT ![c] = {}] /\ moved' = [moved EXCEPT ![c] = FALSE] /\ batch' = batch
       /\ UNCHANGED <<onRq, onCpu, taskCpu, flags, user, drops, curr, queue,
                      counts, wakeList, pending, rqLock>>
  BY DEF WakeRunnable, Free, Return, flags, user, counts, locals, Goto
<1>2. tgt[c] \in Task /\ state[tgt[c]] \in {"RUNNING"} \cup Sleeping
  BY <1>1 DEF LockInv, WakeInv
<1>3. \A d \in CPU \ {c} : tgt[d] = tgt[c] => pc[d] \notin PiHeld
  BY <1>1, <1>2 DEF LockInv
<1>4. TypeInv'
  BY <1>1, <1>2, <1>3
<1>5. LockInv'
  BY <1>1, <1>2, <1>3 DEF LockInv
<1>6. PlaceInv'
  BY <1>1, <1>2, <1>3 DEF PlaceInv, RunsOn
<1>7. StateInv'
  BY <1>1, <1>2, <1>3 DEF StateInv, Listed, LockInv, PlaceInv, RunsOn
<1>8. WakeInv'
  <2>1. (\A p \in CPU : pc[p] \in Matched => state[tgt[p]] \in {"RUNNING"} \cup Sleeping)'
    BY <1>1, <1>2, <1>3 DEF WakeInv, Listed
  <2>2. (\A p \in CPU : pc[p] = "w_waking" => onRq[tgt[p]] = "off")'
    BY <1>1, <1>2, <1>3 DEF WakeInv, Listed
  <2>3. (\A p \in CPU : pc[p] \in Waking =>
          onRq[tgt[p]] = "off" /\ state[tgt[p]] = "WAKING"
            /\ \A d \in CPU : tgt[p] \notin Listed(d))'
    BY <1>1, <1>2, <1>3 DEF WakeInv, Listed
  <2>4. (\A p \in CPU : pc[p] = "w_queue" => ~onCpu[tgt[p]])'
    BY <1>1, <1>2, <1>3 DEF WakeInv, Listed
  <2>5. (\A p \in CPU : pc[p] \in {"w_queue", "w_list"} => taskCpu[tgt[p]] = atCpu[p])'
    BY <1>1, <1>2, <1>3 DEF WakeInv, Listed
  <2>6. (\A p \in CPU : \A t \in Listed(p) :
          state[t] = "WAKING" /\ onRq[t] = "off" /\ taskCpu[t] = p)'
    BY <1>1, <1>2, <1>3 DEF WakeInv, Listed
  <2>7. (\A p \in CPU : wakeList[p] \cap batch[p] = {})'
    BY <1>1, <1>2, <1>3 DEF WakeInv, Listed
  <2>8. (\A p \in CPU : batch[p] # {} => pc[p] \in {"i_lock", "i_wake"})'
    BY <1>1, <1>2, <1>3 DEF WakeInv, Listed
  <2>9. (\A p \in CPU : pc[p] = "i_lock" => batch[p] # {})'
    BY <1>1, <1>2, <1>3 DEF WakeInv, Listed
  <2>10. ASSUME NEW d \in CPU, pc'[d] = "i_wake", batch'[d] = {} PROVE queue'[d] # {}
    <3>1. pc[d] = "i_wake" /\ batch[d] = {} /\ queue[d] \subseteq queue'[d]
      BY <2>10, <1>1, <1>2, <1>3 DEF LockInv
    <3>2. queue[d] # {}
      BY <3>1 DEF WakeInv
    <3> QED
      BY <3>1, <3>2
  <2> QED
    BY <2>1, <2>2, <2>3, <2>4, <2>5, <2>6, <2>7, <2>8, <2>9, <2>10 DEF WakeInv, Listed
<1>9. MoveInv'
  BY <1>1, <1>2, <1>3 DEF MoveInv
<1>10. LocInv'
  BY <1>1, <1>2, <1>3 DEF LocInv
<1>11. DropInv'
  BY <1>1, <1>2, <1>3 DEF DropInv
<1>12. HandledInv'
  <2>1. ASSUME NEW u \in Task, cond'[u], state'[u] \in Sleeping, loc'[u] \in {"sched", "back"}
        PROVE  \E d \in CPU : Waker(d, u)'
    <3>1. cond[u] /\ state[u] \in Sleeping /\ loc[u] \in {"sched", "back"}
      BY <2>1, <1>1, <1>2, <1>3
    <3>2. PICK d \in CPU : Waker(d, u)
      BY <3>1 DEF HandledInv
    <3>3. Waker(d, u)'
      BY <2>1, <3>1, <3>2, <1>1, <1>2, <1>3 DEF Waker
    <3> QED
      BY <3>3
  <2> QED
    BY <2>1 DEF HandledInv
<1> QED
  BY <1>4, <1>5, <1>6, <1>7, <1>8, <1>9, <1>10, <1>11, <1>12

(* The task has blocked meanwhile: a full wakeup follows.                  *)
LEMMA RunnableBlockedStep ==
  ASSUME WakingInv, NEW c \in CPU, WakeRunnable(c), taskCpu[tgt[c]] = atCpu[c],
         onRq[tgt[c]] = "off"
  PROVE  WakingInv'
<1>. USE IdleAssumption, NoCpuAssumption, AllowedAssumption, SleepAssumption
<1>. USE DEF WakingInv, TypeInv, PC, RqHeld, Matched, Waking, PiHeld, States, NotRunning,
         Sleeping, flags, user, counts, locals, Goto
<1>1. pc[c] = "w_runnable" /\ pc' = [pc EXCEPT ![c] = "w_waking"]
       /\ UNCHANGED <<state, onRq, onCpu, taskCpu, flags, user, drops, curr, queue,
                      counts, wakeList, pending, rqLock, piLock, locals>>
  BY DEF WakeRunnable, Free, flags, user, counts, locals, Goto
<1>2. tgt[c] \in Task /\ state[tgt[c]] \in {"RUNNING"} \cup Sleeping
  BY <1>1 DEF LockInv, WakeInv
<1>3. \A d \in CPU \ {c} : tgt[d] = tgt[c] => pc[d] \notin PiHeld
  BY <1>1, <1>2 DEF LockInv
<1>4. TypeInv'
  BY <1>1, <1>2, <1>3
<1>5. LockInv'
  BY <1>1, <1>2, <1>3 DEF LockInv
<1>6. PlaceInv'
  BY <1>1, <1>2, <1>3 DEF PlaceInv, RunsOn
<1>7. StateInv'
  BY <1>1, <1>2, <1>3 DEF StateInv, Listed
<1>8. WakeInv'
  <2>1. (\A p \in CPU : pc[p] \in Matched => state[tgt[p]] \in {"RUNNING"} \cup Sleeping)'
    BY <1>1, <1>2, <1>3 DEF WakeInv, Listed
  <2>2. (\A p \in CPU : pc[p] = "w_waking" => onRq[tgt[p]] = "off")'
    BY <1>1, <1>2, <1>3 DEF WakeInv, Listed
  <2>3. (\A p \in CPU : pc[p] \in Waking =>
          onRq[tgt[p]] = "off" /\ state[tgt[p]] = "WAKING"
            /\ \A d \in CPU : tgt[p] \notin Listed(d))'
    BY <1>1, <1>2, <1>3 DEF WakeInv, Listed
  <2>4. (\A p \in CPU : pc[p] = "w_queue" => ~onCpu[tgt[p]])'
    BY <1>1, <1>2, <1>3 DEF WakeInv, Listed
  <2>5. (\A p \in CPU : pc[p] \in {"w_queue", "w_list"} => taskCpu[tgt[p]] = atCpu[p])'
    BY <1>1, <1>2, <1>3 DEF WakeInv, Listed
  <2>6. (\A p \in CPU : \A t \in Listed(p) :
          state[t] = "WAKING" /\ onRq[t] = "off" /\ taskCpu[t] = p)'
    BY <1>1, <1>2, <1>3 DEF WakeInv, Listed
  <2>7. (\A p \in CPU : wakeList[p] \cap batch[p] = {})'
    BY <1>1, <1>2, <1>3 DEF WakeInv, Listed
  <2>8. (\A p \in CPU : batch[p] # {} => pc[p] \in {"i_lock", "i_wake"})'
    BY <1>1, <1>2, <1>3 DEF WakeInv, Listed
  <2>9. (\A p \in CPU : pc[p] = "i_lock" => batch[p] # {})'
    BY <1>1, <1>2, <1>3 DEF WakeInv, Listed
  <2>10. ASSUME NEW d \in CPU, pc'[d] = "i_wake", batch'[d] = {} PROVE queue'[d] # {}
    <3>1. pc[d] = "i_wake" /\ batch[d] = {} /\ queue[d] \subseteq queue'[d]
      BY <2>10, <1>1, <1>2, <1>3 DEF LockInv
    <3>2. queue[d] # {}
      BY <3>1 DEF WakeInv
    <3> QED
      BY <3>1, <3>2
  <2> QED
    BY <2>1, <2>2, <2>3, <2>4, <2>5, <2>6, <2>7, <2>8, <2>9, <2>10 DEF WakeInv, Listed
<1>9. MoveInv'
  BY <1>1, <1>2, <1>3 DEF MoveInv
<1>10. LocInv'
  BY <1>1, <1>2, <1>3 DEF LocInv
<1>11. DropInv'
  BY <1>1, <1>2, <1>3 DEF DropInv
<1>12. HandledInv'
  <2>1. ASSUME NEW u \in Task, cond'[u], state'[u] \in Sleeping, loc'[u] \in {"sched", "back"}
        PROVE  \E d \in CPU : Waker(d, u)'
    <3>1. cond[u] /\ state[u] \in Sleeping /\ loc[u] \in {"sched", "back"}
      BY <2>1, <1>1, <1>2, <1>3
    <3>2. PICK d \in CPU : Waker(d, u)
      BY <3>1 DEF HandledInv
    <3>3. Waker(d, u)'
      BY <2>1, <3>1, <3>2, <1>1, <1>2, <1>3 DEF Waker
    <3> QED
      BY <3>3
  <2> QED
    BY <2>1 DEF HandledInv
<1> QED
  BY <1>4, <1>5, <1>6, <1>7, <1>8, <1>9, <1>10, <1>11, <1>12

(* TASK_WAKING makes the task this CPU's own.                              *)
LEMMA SetWakingStep ==
  ASSUME WakingInv, NEW c \in CPU, SetWaking(c)
  PROVE  WakingInv'
<1>. USE IdleAssumption, NoCpuAssumption, AllowedAssumption, SleepAssumption
<1>. USE DEF WakingInv, TypeInv, PC, RqHeld, Matched, Waking, PiHeld, States, NotRunning,
         Sleeping, SetWaking, flags, user, counts, locals, Goto
<1>1. tgt[c] \in Task /\ piLock[tgt[c]] = c
  BY DEF LockInv
<1>2. onRq[tgt[c]] = "off" /\ state[tgt[c]] \in Sleeping
  BY <1>1 DEF WakeInv, StateInv, LockInv
<1>3. \A d \in CPU \ {c} : tgt[d] = tgt[c] => pc[d] \notin PiHeld
  BY <1>1 DEF LockInv
<1>4. TypeInv'
  BY <1>1, <1>2, <1>3
<1>5. LockInv'
  BY <1>1, <1>2, <1>3 DEF LockInv
<1>6. PlaceInv'
  BY <1>1, <1>2, <1>3 DEF PlaceInv, RunsOn
<1>7. StateInv'
  <2>1. (\A t \in Task : onRq[t] # "off" => state[t] \in {"RUNNING", "DEAD"} \cup Sleeping)'
    BY <1>1, <1>2, <1>3 DEF StateInv, Listed
  <2>2. (\A t \in Task : onRq[t] = "off" /\ state[t] = "RUNNING" =>
                          piLock[t] \in CPU /\ pc[piLock[t]] = "n_queue")'
    BY <1>1, <1>2, <1>3 DEF StateInv, Listed
  <2>3. (\A t \in Task : state[t] = "NEW" => ~onCpu[t])'
    BY <1>1, <1>2, <1>3 DEF StateInv, Listed
  <2>4. (\A t \in Task : state[t] = "WAKING" => piLock[t] \in CPU \/ t \in Listed(taskCpu[t]))'
    BY <1>1, <1>2, <1>3 DEF StateInv, Listed
  <2>5. (\A p \in CPU : pc[p] = "s_block" =>
                         seen[p] = IF tgt[p] = Idle THEN "RUNNING" ELSE state[tgt[p]])'
    BY <1>1, <1>2, <1>3 DEF StateInv, Listed, LockInv, PlaceInv, RunsOn, WakeInv, MoveInv,
       LocInv
  <2>6. (\A p \in CPU : pc[p] = "n_queue" =>
          state[tgt[p]] = "RUNNING" /\ onRq[tgt[p]] = "off" /\ ~onCpu[tgt[p]]
            /\ taskCpu[tgt[p]] = atCpu[p])'
    BY <1>1, <1>2, <1>3 DEF StateInv, Listed
  <2> QED
    BY <2>1, <2>2, <2>3, <2>4, <2>5, <2>6 DEF StateInv, Listed
<1>8. WakeInv'
  BY <1>1, <1>2, <1>3 DEF WakeInv, Listed, LockInv
<1>9. MoveInv'
  BY <1>1, <1>2, <1>3 DEF MoveInv
<1>10. LocInv'
  BY <1>1, <1>2, <1>3 DEF LocInv
<1>11. DropInv'
  BY <1>1, <1>2, <1>3 DEF DropInv
<1>12. HandledInv'
  <2>1. ASSUME NEW u \in Task, cond'[u], state'[u] \in Sleeping, loc'[u] \in {"sched", "back"}
        PROVE  \E d \in CPU : Waker(d, u)'
    <3>1. cond[u] /\ state[u] \in Sleeping /\ loc[u] \in {"sched", "back"}
      BY <2>1, <1>1, <1>2, <1>3
    <3>2. PICK d \in CPU : Waker(d, u)
      BY <3>1 DEF HandledInv
    <3>3. Waker(d, u)'
      BY <2>1, <3>1, <3>2, <1>1, <1>2, <1>3 DEF Waker
    <3> QED
      BY <3>3
  <2> QED
    BY <2>1 DEF HandledInv
<1> QED
  BY <1>4, <1>5, <1>6, <1>7, <1>8, <1>9, <1>10, <1>11, <1>12

(* Still on a CPU: that CPU is the one its wake list entry goes to.        *)
LEMMA ReadOnCpuListedStep ==
  ASSUME WakingInv, NEW c \in CPU, ReadOnCpu(c), onCpu[tgt[c]],
         UseWakeList(c, tgt[c], taskCpu[tgt[c]])
  PROVE  WakingInv'
<1>. USE IdleAssumption, NoCpuAssumption, AllowedAssumption, SleepAssumption
<1>. USE DEF WakingInv, TypeInv, PC, RqHeld, Matched, Waking, PiHeld, States, NotRunning,
         Sleeping, flags, user, counts, locals, Goto
<1>1. pc[c] = "w_on_cpu" /\ onCpu[tgt[c]]
       /\ remote' = [remote EXCEPT ![tgt[c]] = FALSE] /\ pending' = [pending EXCEPT ![taskCpu[tgt[c]]] = TRUE]
       /\ atCpu' = [atCpu EXCEPT ![c] = taskCpu[tgt[c]]] /\ pc' = [pc EXCEPT ![c] = "w_list"]
       /\ UNCHANGED <<state, onRq, onCpu, taskCpu, contrib, iowait, user, drops, piLock,
                      curr, queue, counts, wakeList, rqLock, tgt, seen, mask, moved, batch>>
  BY DEF ReadOnCpu, PutOnWakeList, flags, user, counts, locals, Goto
<1>2. tgt[c] \in Task /\ piLock[tgt[c]] = c
  BY <1>1 DEF LockInv
<1>3. \A d \in CPU \ {c} : tgt[d] = tgt[c] => pc[d] \notin PiHeld
  BY <1>1, <1>2 DEF LockInv
<1>4. onRq[tgt[c]] = "off" /\ state[tgt[c]] = "WAKING" /\ \A d \in CPU : tgt[c] \notin Listed(d)
  BY <1>1 DEF WakeInv
<1>5. TypeInv'
  BY <1>1, <1>2, <1>3, <1>4
<1>6. LockInv'
  BY <1>1, <1>2, <1>3, <1>4 DEF LockInv
<1>7. PlaceInv'
  BY <1>1, <1>2, <1>3, <1>4 DEF PlaceInv, RunsOn
<1>8. StateInv'
  BY <1>1, <1>2, <1>3, <1>4 DEF StateInv, Listed
<1>9. WakeInv'
  <2>1. (\A p \in CPU : pc[p] \in Matched => state[tgt[p]] \in {"RUNNING"} \cup Sleeping)'
    BY <1>1, <1>2, <1>3, <1>4 DEF WakeInv, Listed
  <2>2. (\A p \in CPU : pc[p] = "w_waking" => onRq[tgt[p]] = "off")'
    BY <1>1, <1>2, <1>3, <1>4 DEF WakeInv, Listed
  <2>3. (\A p \in CPU : pc[p] \in Waking =>
          onRq[tgt[p]] = "off" /\ state[tgt[p]] = "WAKING"
            /\ \A d \in CPU : tgt[p] \notin Listed(d))'
    BY <1>1, <1>2, <1>3, <1>4 DEF WakeInv, Listed
  <2>4. (\A p \in CPU : pc[p] = "w_queue" => ~onCpu[tgt[p]])'
    BY <1>1, <1>2, <1>3, <1>4 DEF WakeInv, Listed
  <2>5. (\A p \in CPU : pc[p] \in {"w_queue", "w_list"} => taskCpu[tgt[p]] = atCpu[p])'
    BY <1>1, <1>2, <1>3, <1>4 DEF WakeInv, Listed
  <2>6. (\A p \in CPU : \A t \in Listed(p) :
          state[t] = "WAKING" /\ onRq[t] = "off" /\ taskCpu[t] = p)'
    BY <1>1, <1>2, <1>3, <1>4 DEF WakeInv, Listed
  <2>7. (\A p \in CPU : wakeList[p] \cap batch[p] = {})'
    BY <1>1, <1>2, <1>3, <1>4 DEF WakeInv, Listed
  <2>8. (\A p \in CPU : batch[p] # {} => pc[p] \in {"i_lock", "i_wake"})'
    BY <1>1, <1>2, <1>3, <1>4 DEF WakeInv, Listed
  <2>9. (\A p \in CPU : pc[p] = "i_lock" => batch[p] # {})'
    BY <1>1, <1>2, <1>3, <1>4 DEF WakeInv, Listed
  <2>10. ASSUME NEW d \in CPU, pc'[d] = "i_wake", batch'[d] = {} PROVE queue'[d] # {}
    <3>1. pc[d] = "i_wake" /\ batch[d] = {} /\ queue[d] \subseteq queue'[d]
      BY <2>10, <1>1, <1>2, <1>3, <1>4 DEF LockInv
    <3>2. queue[d] # {}
      BY <3>1 DEF WakeInv
    <3> QED
      BY <3>1, <3>2
  <2> QED
    BY <2>1, <2>2, <2>3, <2>4, <2>5, <2>6, <2>7, <2>8, <2>9, <2>10 DEF WakeInv, Listed
<1>10. MoveInv'
  BY <1>1, <1>2, <1>3, <1>4 DEF MoveInv
<1>11. LocInv'
  BY <1>1, <1>2, <1>3, <1>4 DEF LocInv
<1>12. DropInv'
  BY <1>1, <1>2, <1>3, <1>4 DEF DropInv
<1>13. HandledInv'
  <2>1. ASSUME NEW u \in Task, cond'[u], state'[u] \in Sleeping, loc'[u] \in {"sched", "back"}
        PROVE  \E d \in CPU : Waker(d, u)'
    <3>1. cond[u] /\ state[u] \in Sleeping /\ loc[u] \in {"sched", "back"}
      BY <2>1, <1>1, <1>2, <1>3, <1>4
    <3>2. PICK d \in CPU : Waker(d, u)
      BY <3>1 DEF HandledInv
    <3>3. Waker(d, u)'
      BY <2>1, <3>1, <3>2, <1>1, <1>2, <1>3, <1>4 DEF Waker
    <3> QED
      BY <3>3
  <2> QED
    BY <2>1 DEF HandledInv
<1> QED
  BY <1>5, <1>6, <1>7, <1>8, <1>9, <1>10, <1>11, <1>12, <1>13

(* Still on a CPU, and no wake list: wait for on_cpu.                      *)
LEMMA ReadOnCpuSelectStep ==
  ASSUME WakingInv, NEW c \in CPU, ReadOnCpu(c),
         ~(onCpu[tgt[c]] /\ UseWakeList(c, tgt[c], taskCpu[tgt[c]]))
  PROVE  WakingInv'
<1>. USE IdleAssumption, NoCpuAssumption, AllowedAssumption, SleepAssumption
<1>. USE DEF WakingInv, TypeInv, PC, RqHeld, Matched, Waking, PiHeld, States, NotRunning,
         Sleeping, flags, user, counts, locals, Goto
<1>1. pc[c] = "w_on_cpu" /\ pc' = [pc EXCEPT ![c] = "w_select"]
       /\ UNCHANGED <<state, onRq, onCpu, taskCpu, flags, user, drops, piLock,
                      curr, queue, counts, wakeList, pending, rqLock, locals>>
  BY DEF ReadOnCpu, flags, user, counts, locals, Goto
<1>2. tgt[c] \in Task /\ piLock[tgt[c]] = c
  BY <1>1 DEF LockInv
<1>3. \A d \in CPU \ {c} : tgt[d] = tgt[c] => pc[d] \notin PiHeld
  BY <1>1, <1>2 DEF LockInv
<1>4. onRq[tgt[c]] = "off" /\ state[tgt[c]] = "WAKING" /\ \A d \in CPU : tgt[c] \notin Listed(d)
  BY <1>1 DEF WakeInv
<1>5. TypeInv'
  BY <1>1, <1>2, <1>3, <1>4
<1>6. LockInv'
  BY <1>1, <1>2, <1>3, <1>4 DEF LockInv
<1>7. PlaceInv'
  BY <1>1, <1>2, <1>3, <1>4 DEF PlaceInv, RunsOn
<1>8. StateInv'
  BY <1>1, <1>2, <1>3, <1>4 DEF StateInv, Listed
<1>9. WakeInv'
  <2>1. (\A p \in CPU : pc[p] \in Matched => state[tgt[p]] \in {"RUNNING"} \cup Sleeping)'
    BY <1>1, <1>2, <1>3, <1>4 DEF WakeInv, Listed
  <2>2. (\A p \in CPU : pc[p] = "w_waking" => onRq[tgt[p]] = "off")'
    BY <1>1, <1>2, <1>3, <1>4 DEF WakeInv, Listed
  <2>3. (\A p \in CPU : pc[p] \in Waking =>
          onRq[tgt[p]] = "off" /\ state[tgt[p]] = "WAKING"
            /\ \A d \in CPU : tgt[p] \notin Listed(d))'
    BY <1>1, <1>2, <1>3, <1>4 DEF WakeInv, Listed
  <2>4. (\A p \in CPU : pc[p] = "w_queue" => ~onCpu[tgt[p]])'
    BY <1>1, <1>2, <1>3, <1>4 DEF WakeInv, Listed
  <2>5. (\A p \in CPU : pc[p] \in {"w_queue", "w_list"} => taskCpu[tgt[p]] = atCpu[p])'
    BY <1>1, <1>2, <1>3, <1>4 DEF WakeInv, Listed
  <2>6. (\A p \in CPU : \A t \in Listed(p) :
          state[t] = "WAKING" /\ onRq[t] = "off" /\ taskCpu[t] = p)'
    BY <1>1, <1>2, <1>3, <1>4 DEF WakeInv, Listed
  <2>7. (\A p \in CPU : wakeList[p] \cap batch[p] = {})'
    BY <1>1, <1>2, <1>3, <1>4 DEF WakeInv, Listed
  <2>8. (\A p \in CPU : batch[p] # {} => pc[p] \in {"i_lock", "i_wake"})'
    BY <1>1, <1>2, <1>3, <1>4 DEF WakeInv, Listed
  <2>9. (\A p \in CPU : pc[p] = "i_lock" => batch[p] # {})'
    BY <1>1, <1>2, <1>3, <1>4 DEF WakeInv, Listed
  <2>10. ASSUME NEW d \in CPU, pc'[d] = "i_wake", batch'[d] = {} PROVE queue'[d] # {}
    <3>1. pc[d] = "i_wake" /\ batch[d] = {} /\ queue[d] \subseteq queue'[d]
      BY <2>10, <1>1, <1>2, <1>3, <1>4 DEF LockInv
    <3>2. queue[d] # {}
      BY <3>1 DEF WakeInv
    <3> QED
      BY <3>1, <3>2
  <2> QED
    BY <2>1, <2>2, <2>3, <2>4, <2>5, <2>6, <2>7, <2>8, <2>9, <2>10 DEF WakeInv, Listed
<1>10. MoveInv'
  BY <1>1, <1>2, <1>3, <1>4 DEF MoveInv
<1>11. LocInv'
  BY <1>1, <1>2, <1>3, <1>4 DEF LocInv
<1>12. DropInv'
  BY <1>1, <1>2, <1>3, <1>4 DEF DropInv
<1>13. HandledInv'
  <2>1. ASSUME NEW u \in Task, cond'[u], state'[u] \in Sleeping, loc'[u] \in {"sched", "back"}
        PROVE  \E d \in CPU : Waker(d, u)'
    <3>1. cond[u] /\ state[u] \in Sleeping /\ loc[u] \in {"sched", "back"}
      BY <2>1, <1>1, <1>2, <1>3, <1>4
    <3>2. PICK d \in CPU : Waker(d, u)
      BY <3>1 DEF HandledInv
    <3>3. Waker(d, u)'
      BY <2>1, <3>1, <3>2, <1>1, <1>2, <1>3, <1>4 DEF Waker
    <3> QED
      BY <3>3
  <2> QED
    BY <2>1 DEF HandledInv
<1> QED
  BY <1>5, <1>6, <1>7, <1>8, <1>9, <1>10, <1>11, <1>12, <1>13

(* set_task_cpu of a task that runs nowhere and is on no list.             *)
LEMMA SelectCpuStep ==
  ASSUME WakingInv, NEW c \in CPU, SelectCpu(c)
  PROVE  WakingInv'
<1>. USE IdleAssumption, NoCpuAssumption, AllowedAssumption, SleepAssumption
<1>. USE DEF WakingInv, TypeInv, PC, RqHeld, Matched, Waking, PiHeld, States, NotRunning,
         Sleeping, flags, user, counts, locals, Goto
<1>1. tgt[c] \in Task
  BY DEF SelectCpu, OffCpu, set_task_cpu, flags, user, counts, locals, Goto, LockInv
<1>2. pc[c] = "w_select" /\ ~onCpu[tgt[c]] /\ pc' = [pc EXCEPT ![c] = "w_queue"]
       /\ UNCHANGED <<state, onRq, onCpu, flags, user, drops, piLock, curr, queue,
                      nrRunning, nrUnint, wakeList, pending, rqLock, tgt, seen, mask, batch>>
  BY DEF SelectCpu, OffCpu, set_task_cpu, flags, user, counts, locals, Goto
<1>3. PICK r \in Allowed[tgt[c]] :
       /\ taskCpu' = [taskCpu EXCEPT ![tgt[c]] = r] /\ atCpu' = [atCpu EXCEPT ![c] = r]
       /\ moved' = [moved EXCEPT ![c] = r # taskCpu[tgt[c]]]
  BY <1>1 DEF SelectCpu, OffCpu, set_task_cpu, flags, user, counts, locals, Goto
<1>4. r \in CPU
  BY <1>1
<1>5. tgt[c] \in Task /\ piLock[tgt[c]] = c
  BY <1>1, <1>2 DEF LockInv
<1>6. \A d \in CPU \ {c} : tgt[d] = tgt[c] => pc[d] \notin PiHeld
  BY <1>1, <1>2, <1>5 DEF LockInv
<1>7. onRq[tgt[c]] = "off" /\ state[tgt[c]] = "WAKING" /\ \A d \in CPU : tgt[c] \notin Listed(d)
  BY <1>1, <1>2 DEF WakeInv
<1>8. TypeInv'
  BY <1>1, <1>2, <1>3, <1>4, <1>5, <1>6, <1>7
<1>9. LockInv'
  BY <1>1, <1>2, <1>3, <1>4, <1>5, <1>6, <1>7 DEF LockInv
<1>10. PlaceInv'
  BY <1>1, <1>2, <1>3, <1>4, <1>5, <1>6, <1>7 DEF PlaceInv, RunsOn
<1>11. StateInv'
  BY <1>1, <1>2, <1>3, <1>4, <1>5, <1>6, <1>7 DEF StateInv, Listed
<1>12. WakeInv'
  <2>1. (\A p \in CPU : pc[p] \in Matched => state[tgt[p]] \in {"RUNNING"} \cup Sleeping)'
    BY <1>1, <1>2, <1>3, <1>4, <1>5, <1>6, <1>7 DEF WakeInv, Listed
  <2>2. (\A p \in CPU : pc[p] = "w_waking" => onRq[tgt[p]] = "off")'
    BY <1>1, <1>2, <1>3, <1>4, <1>5, <1>6, <1>7 DEF WakeInv, Listed
  <2>3. (\A p \in CPU : pc[p] \in Waking =>
          onRq[tgt[p]] = "off" /\ state[tgt[p]] = "WAKING"
            /\ \A d \in CPU : tgt[p] \notin Listed(d))'
    BY <1>1, <1>2, <1>3, <1>4, <1>5, <1>6, <1>7 DEF WakeInv, Listed
  <2>4. (\A p \in CPU : pc[p] = "w_queue" => ~onCpu[tgt[p]])'
    BY <1>1, <1>2, <1>3, <1>4, <1>5, <1>6, <1>7 DEF WakeInv, Listed
  <2>5. (\A p \in CPU : pc[p] \in {"w_queue", "w_list"} => taskCpu[tgt[p]] = atCpu[p])'
    BY <1>1, <1>2, <1>3, <1>4, <1>5, <1>6, <1>7 DEF WakeInv, Listed
  <2>6. (\A p \in CPU : \A t \in Listed(p) :
          state[t] = "WAKING" /\ onRq[t] = "off" /\ taskCpu[t] = p)'
    BY <1>1, <1>2, <1>3, <1>4, <1>5, <1>6, <1>7 DEF WakeInv, Listed
  <2>7. (\A p \in CPU : wakeList[p] \cap batch[p] = {})'
    BY <1>1, <1>2, <1>3, <1>4, <1>5, <1>6, <1>7 DEF WakeInv, Listed
  <2>8. (\A p \in CPU : batch[p] # {} => pc[p] \in {"i_lock", "i_wake"})'
    BY <1>1, <1>2, <1>3, <1>4, <1>5, <1>6, <1>7 DEF WakeInv, Listed
  <2>9. (\A p \in CPU : pc[p] = "i_lock" => batch[p] # {})'
    BY <1>1, <1>2, <1>3, <1>4, <1>5, <1>6, <1>7 DEF WakeInv, Listed
  <2>10. ASSUME NEW d \in CPU, pc'[d] = "i_wake", batch'[d] = {} PROVE queue'[d] # {}
    <3>1. pc[d] = "i_wake" /\ batch[d] = {} /\ queue[d] \subseteq queue'[d]
      BY <2>10, <1>1, <1>2, <1>3, <1>4, <1>5, <1>6, <1>7 DEF LockInv
    <3>2. queue[d] # {}
      BY <3>1 DEF WakeInv
    <3> QED
      BY <3>1, <3>2
  <2> QED
    BY <2>1, <2>2, <2>3, <2>4, <2>5, <2>6, <2>7, <2>8, <2>9, <2>10 DEF WakeInv, Listed
<1>13. MoveInv'
  BY <1>1, <1>2, <1>3, <1>4, <1>5, <1>6, <1>7 DEF MoveInv
<1>14. LocInv'
  BY <1>1, <1>2, <1>3, <1>4, <1>5, <1>6, <1>7 DEF LocInv
<1>15. DropInv'
  BY <1>1, <1>2, <1>3, <1>4, <1>5, <1>6, <1>7 DEF DropInv
<1>16. HandledInv'
  <2>1. ASSUME NEW u \in Task, cond'[u], state'[u] \in Sleeping, loc'[u] \in {"sched", "back"}
        PROVE  \E d \in CPU : Waker(d, u)'
    <3>1. cond[u] /\ state[u] \in Sleeping /\ loc[u] \in {"sched", "back"}
      BY <2>1, <1>1, <1>2, <1>3, <1>4, <1>5, <1>6, <1>7
    <3>2. PICK d \in CPU : Waker(d, u)
      BY <3>1 DEF HandledInv
    <3>3. Waker(d, u)'
      BY <2>1, <3>1, <3>2, <1>1, <1>2, <1>3, <1>4, <1>5, <1>6, <1>7 DEF Waker
    <3> QED
      BY <3>3
  <2> QED
    BY <2>1 DEF HandledInv
<1> QED
  BY <1>8, <1>9, <1>10, <1>11, <1>12, <1>13, <1>14, <1>15, <1>16

(* ttwu_queue leaves the activation to the CPU it has selected.            *)
LEMMA QueueWokenListedStep ==
  ASSUME WakingInv, NEW c \in CPU, QueueWoken(c), UseWakeList(c, tgt[c], atCpu[c])
  PROVE  WakingInv'
<1>. USE IdleAssumption, NoCpuAssumption, AllowedAssumption, SleepAssumption
<1>. USE DEF WakingInv, TypeInv, PC, RqHeld, Matched, Waking, PiHeld, States, NotRunning,
         Sleeping, flags, user, counts, locals, Goto
<1>1. pc[c] = "w_queue"
       /\ remote' = [remote EXCEPT ![tgt[c]] = moved[c]] /\ pending' = [pending EXCEPT ![atCpu[c]] = TRUE]
       /\ atCpu' = [atCpu EXCEPT ![c] = atCpu[c]] /\ pc' = [pc EXCEPT ![c] = "w_list"]
       /\ UNCHANGED <<state, onRq, onCpu, taskCpu, contrib, iowait, user, drops, piLock,
                      curr, queue, counts, wakeList, rqLock, tgt, seen, mask, moved, batch>>
  BY DEF QueueWoken, PutOnWakeList, flags, user, counts, locals, Goto
<1>2. tgt[c] \in Task /\ piLock[tgt[c]] = c
  BY <1>1 DEF LockInv
<1>3. \A d \in CPU \ {c} : tgt[d] = tgt[c] => pc[d] \notin PiHeld
  BY <1>1, <1>2 DEF LockInv
<1>4. onRq[tgt[c]] = "off" /\ state[tgt[c]] = "WAKING" /\ \A d \in CPU : tgt[c] \notin Listed(d)
  BY <1>1 DEF WakeInv
<1>5. ~onCpu[tgt[c]] /\ taskCpu[tgt[c]] = atCpu[c]
  BY <1>1 DEF WakeInv
<1>6. TypeInv'
  BY <1>1, <1>2, <1>3, <1>4, <1>5
<1>7. LockInv'
  BY <1>1, <1>2, <1>3, <1>4, <1>5 DEF LockInv
<1>8. PlaceInv'
  BY <1>1, <1>2, <1>3, <1>4, <1>5 DEF PlaceInv, RunsOn
<1>9. StateInv'
  BY <1>1, <1>2, <1>3, <1>4, <1>5 DEF StateInv, Listed
<1>10. WakeInv'
  <2>1. (\A p \in CPU : pc[p] \in Matched => state[tgt[p]] \in {"RUNNING"} \cup Sleeping)'
    BY <1>1, <1>2, <1>3, <1>4, <1>5 DEF WakeInv, Listed
  <2>2. (\A p \in CPU : pc[p] = "w_waking" => onRq[tgt[p]] = "off")'
    BY <1>1, <1>2, <1>3, <1>4, <1>5 DEF WakeInv, Listed
  <2>3. (\A p \in CPU : pc[p] \in Waking =>
          onRq[tgt[p]] = "off" /\ state[tgt[p]] = "WAKING"
            /\ \A d \in CPU : tgt[p] \notin Listed(d))'
    BY <1>1, <1>2, <1>3, <1>4, <1>5 DEF WakeInv, Listed
  <2>4. (\A p \in CPU : pc[p] = "w_queue" => ~onCpu[tgt[p]])'
    BY <1>1, <1>2, <1>3, <1>4, <1>5 DEF WakeInv, Listed
  <2>5. (\A p \in CPU : pc[p] \in {"w_queue", "w_list"} => taskCpu[tgt[p]] = atCpu[p])'
    BY <1>1, <1>2, <1>3, <1>4, <1>5 DEF WakeInv, Listed
  <2>6. (\A p \in CPU : \A t \in Listed(p) :
          state[t] = "WAKING" /\ onRq[t] = "off" /\ taskCpu[t] = p)'
    BY <1>1, <1>2, <1>3, <1>4, <1>5 DEF WakeInv, Listed
  <2>7. (\A p \in CPU : wakeList[p] \cap batch[p] = {})'
    BY <1>1, <1>2, <1>3, <1>4, <1>5 DEF WakeInv, Listed
  <2>8. (\A p \in CPU : batch[p] # {} => pc[p] \in {"i_lock", "i_wake"})'
    BY <1>1, <1>2, <1>3, <1>4, <1>5 DEF WakeInv, Listed
  <2>9. (\A p \in CPU : pc[p] = "i_lock" => batch[p] # {})'
    BY <1>1, <1>2, <1>3, <1>4, <1>5 DEF WakeInv, Listed
  <2>10. ASSUME NEW d \in CPU, pc'[d] = "i_wake", batch'[d] = {} PROVE queue'[d] # {}
    <3>1. pc[d] = "i_wake" /\ batch[d] = {} /\ queue[d] \subseteq queue'[d]
      BY <2>10, <1>1, <1>2, <1>3, <1>4, <1>5 DEF LockInv
    <3>2. queue[d] # {}
      BY <3>1 DEF WakeInv
    <3> QED
      BY <3>1, <3>2
  <2> QED
    BY <2>1, <2>2, <2>3, <2>4, <2>5, <2>6, <2>7, <2>8, <2>9, <2>10 DEF WakeInv, Listed
<1>11. MoveInv'
  BY <1>1, <1>2, <1>3, <1>4, <1>5 DEF MoveInv
<1>12. LocInv'
  BY <1>1, <1>2, <1>3, <1>4, <1>5 DEF LocInv
<1>13. DropInv'
  BY <1>1, <1>2, <1>3, <1>4, <1>5 DEF DropInv
<1>14. HandledInv'
  <2>1. ASSUME NEW u \in Task, cond'[u], state'[u] \in Sleeping, loc'[u] \in {"sched", "back"}
        PROVE  \E d \in CPU : Waker(d, u)'
    <3>1. cond[u] /\ state[u] \in Sleeping /\ loc[u] \in {"sched", "back"}
      BY <2>1, <1>1, <1>2, <1>3, <1>4, <1>5
    <3>2. PICK d \in CPU : Waker(d, u)
      BY <3>1 DEF HandledInv
    <3>3. Waker(d, u)'
      BY <2>1, <3>1, <3>2, <1>1, <1>2, <1>3, <1>4, <1>5 DEF Waker
    <3> QED
      BY <3>3
  <2> QED
    BY <2>1 DEF HandledInv
<1> QED
  BY <1>6, <1>7, <1>8, <1>9, <1>10, <1>11, <1>12, <1>13, <1>14

(* ttwu_do_activate on the locked runqueue.                                *)
LEMMA QueueWokenQueuedStep ==
  ASSUME WakingInv, NEW c \in CPU, QueueWoken(c), ~UseWakeList(c, tgt[c], atCpu[c])
  PROVE  WakingInv'
<1>. USE IdleAssumption, NoCpuAssumption, AllowedAssumption, SleepAssumption
<1>. USE DEF WakingInv, TypeInv, PC, RqHeld, Matched, Waking, PiHeld, States, NotRunning,
         Sleeping, flags, user, counts, locals, Goto
<1>1. pc[c] = "w_queue" /\ rqLock[atCpu[c]] = NoCpu
       /\ queue' = [queue EXCEPT ![atCpu[c]] = @ \cup {tgt[c]}] /\ onRq' = [onRq EXCEPT ![tgt[c]] = "queued"]
       /\ state' = [state EXCEPT ![tgt[c]] = "RUNNING"] /\ piLock' = [piLock EXCEPT ![tgt[c]] = NoCpu]
       /\ pc' = [pc EXCEPT ![c] = "run"] /\ tgt' = [tgt EXCEPT ![c] = Idle]
       /\ seen' = [seen EXCEPT ![c] = "RUNNING"] /\ atCpu' = [atCpu EXCEPT ![c] = c]
       /\ mask' = [mask EXCEPT ![c] = {}] /\ moved' = [moved EXCEPT ![c] = FALSE] /\ batch' = batch
       /\ UNCHANGED <<onCpu, taskCpu, flags, user, drops, curr, wakeList, rqLock, pending>>
  BY DEF QueueWoken, WakeOn, Enqueue, Free, Return, flags, user, counts, locals, Goto
<1>2. tgt[c] \in Task /\ piLock[tgt[c]] = c
  BY <1>1 DEF LockInv
<1>3. \A d \in CPU \ {c} : tgt[d] = tgt[c] => pc[d] \notin PiHeld
  BY <1>1, <1>2 DEF LockInv
<1>4. onRq[tgt[c]] = "off" /\ state[tgt[c]] = "WAKING" /\ \A d \in CPU : tgt[c] \notin Listed(d)
  BY <1>1 DEF WakeInv
<1>5. ~onCpu[tgt[c]] /\ taskCpu[tgt[c]] = atCpu[c]
  BY <1>1 DEF WakeInv
<1>6. TypeInv'
  BY <1>1, <1>2, <1>3, <1>4, <1>5
<1>7. LockInv'
  BY <1>1, <1>2, <1>3, <1>4, <1>5 DEF LockInv
<1>8. PlaceInv'
  BY <1>1, <1>2, <1>3, <1>4, <1>5 DEF PlaceInv, RunsOn
<1>9. StateInv'
  BY <1>1, <1>2, <1>3, <1>4, <1>5 DEF StateInv, Listed, LockInv, PlaceInv, RunsOn
<1>10. WakeInv'
  <2>1. (\A p \in CPU : pc[p] \in Matched => state[tgt[p]] \in {"RUNNING"} \cup Sleeping)'
    BY <1>1, <1>2, <1>3, <1>4, <1>5 DEF WakeInv, Listed
  <2>2. (\A p \in CPU : pc[p] = "w_waking" => onRq[tgt[p]] = "off")'
    BY <1>1, <1>2, <1>3, <1>4, <1>5 DEF WakeInv, Listed
  <2>3. (\A p \in CPU : pc[p] \in Waking =>
          onRq[tgt[p]] = "off" /\ state[tgt[p]] = "WAKING"
            /\ \A d \in CPU : tgt[p] \notin Listed(d))'
    BY <1>1, <1>2, <1>3, <1>4, <1>5 DEF WakeInv, Listed
  <2>4. (\A p \in CPU : pc[p] = "w_queue" => ~onCpu[tgt[p]])'
    BY <1>1, <1>2, <1>3, <1>4, <1>5 DEF WakeInv, Listed
  <2>5. (\A p \in CPU : pc[p] \in {"w_queue", "w_list"} => taskCpu[tgt[p]] = atCpu[p])'
    BY <1>1, <1>2, <1>3, <1>4, <1>5 DEF WakeInv, Listed
  <2>6. (\A p \in CPU : \A t \in Listed(p) :
          state[t] = "WAKING" /\ onRq[t] = "off" /\ taskCpu[t] = p)'
    BY <1>1, <1>2, <1>3, <1>4, <1>5 DEF WakeInv, Listed
  <2>7. (\A p \in CPU : wakeList[p] \cap batch[p] = {})'
    BY <1>1, <1>2, <1>3, <1>4, <1>5 DEF WakeInv, Listed
  <2>8. (\A p \in CPU : batch[p] # {} => pc[p] \in {"i_lock", "i_wake"})'
    BY <1>1, <1>2, <1>3, <1>4, <1>5 DEF WakeInv, Listed
  <2>9. (\A p \in CPU : pc[p] = "i_lock" => batch[p] # {})'
    BY <1>1, <1>2, <1>3, <1>4, <1>5 DEF WakeInv, Listed
  <2>10. ASSUME NEW d \in CPU, pc'[d] = "i_wake", batch'[d] = {} PROVE queue'[d] # {}
    <3>1. pc[d] = "i_wake" /\ batch[d] = {} /\ queue[d] \subseteq queue'[d]
      BY <2>10, <1>1, <1>2, <1>3, <1>4, <1>5 DEF LockInv
    <3>2. queue[d] # {}
      BY <3>1 DEF WakeInv
    <3> QED
      BY <3>1, <3>2
  <2> QED
    BY <2>1, <2>2, <2>3, <2>4, <2>5, <2>6, <2>7, <2>8, <2>9, <2>10 DEF WakeInv, Listed
<1>11. MoveInv'
  BY <1>1, <1>2, <1>3, <1>4, <1>5 DEF MoveInv
<1>12. LocInv'
  BY <1>1, <1>2, <1>3, <1>4, <1>5 DEF LocInv
<1>13. DropInv'
  BY <1>1, <1>2, <1>3, <1>4, <1>5 DEF DropInv
<1>14. HandledInv'
  <2>1. ASSUME NEW u \in Task, cond'[u], state'[u] \in Sleeping, loc'[u] \in {"sched", "back"}
        PROVE  \E d \in CPU : Waker(d, u)'
    <3>1. cond[u] /\ state[u] \in Sleeping /\ loc[u] \in {"sched", "back"}
      BY <2>1, <1>1, <1>2, <1>3, <1>4, <1>5
    <3>2. PICK d \in CPU : Waker(d, u)
      BY <3>1 DEF HandledInv
    <3>3. Waker(d, u)'
      BY <2>1, <3>1, <3>2, <1>1, <1>2, <1>3, <1>4, <1>5 DEF Waker
    <3> QED
      BY <3>3
  <2> QED
    BY <2>1 DEF HandledInv
<1> QED
  BY <1>6, <1>7, <1>8, <1>9, <1>10, <1>11, <1>12, <1>13, <1>14

(* The entry passes from the waker to the CPU of its wake list.            *)
LEMMA AddToWakeListStep ==
  ASSUME WakingInv, NEW c \in CPU, AddToWakeList(c)
  PROVE  WakingInv'
<1>. USE IdleAssumption, NoCpuAssumption, AllowedAssumption, SleepAssumption
<1>. USE DEF WakingInv, TypeInv, PC, RqHeld, Matched, Waking, PiHeld, States, NotRunning,
         Sleeping, AddToWakeList, Return, flags, user, counts, locals, Goto
<1>1. tgt[c] \in Task /\ piLock[tgt[c]] = c
  BY DEF LockInv
<1>2. \A d \in CPU \ {c} : tgt[d] = tgt[c] => pc[d] \notin PiHeld
  BY <1>1 DEF LockInv
<1>3. onRq[tgt[c]] = "off" /\ state[tgt[c]] = "WAKING" /\ \A d \in CPU : tgt[c] \notin Listed(d)
  BY DEF WakeInv
<1>4. taskCpu[tgt[c]] = atCpu[c]
  BY DEF WakeInv
<1>5. TypeInv'
  BY <1>1, <1>2, <1>3, <1>4
<1>6. LockInv'
  BY <1>1, <1>2, <1>3, <1>4 DEF LockInv
<1>7. PlaceInv'
  BY <1>1, <1>2, <1>3, <1>4 DEF PlaceInv, RunsOn
<1>8. StateInv'
  BY <1>1, <1>2, <1>3, <1>4 DEF StateInv, Listed
<1>9. WakeInv'
  <2>1. (\A p \in CPU : pc[p] \in Matched => state[tgt[p]] \in {"RUNNING"} \cup Sleeping)'
    BY <1>1, <1>2, <1>3, <1>4 DEF WakeInv, Listed
  <2>2. (\A p \in CPU : pc[p] = "w_waking" => onRq[tgt[p]] = "off")'
    BY <1>1, <1>2, <1>3, <1>4 DEF WakeInv, Listed
  <2>3. (\A p \in CPU : pc[p] \in Waking =>
          onRq[tgt[p]] = "off" /\ state[tgt[p]] = "WAKING"
            /\ \A d \in CPU : tgt[p] \notin Listed(d))'
    BY <1>1, <1>2, <1>3, <1>4 DEF WakeInv, Listed
  <2>4. (\A p \in CPU : pc[p] = "w_queue" => ~onCpu[tgt[p]])'
    BY <1>1, <1>2, <1>3, <1>4 DEF WakeInv, Listed
  <2>5. (\A p \in CPU : pc[p] \in {"w_queue", "w_list"} => taskCpu[tgt[p]] = atCpu[p])'
    BY <1>1, <1>2, <1>3, <1>4 DEF WakeInv, Listed
  <2>6. (\A p \in CPU : \A t \in Listed(p) :
          state[t] = "WAKING" /\ onRq[t] = "off" /\ taskCpu[t] = p)'
    BY <1>1, <1>2, <1>3, <1>4 DEF WakeInv, Listed
  <2>7. (\A p \in CPU : wakeList[p] \cap batch[p] = {})'
    BY <1>1, <1>2, <1>3, <1>4 DEF WakeInv, Listed
  <2>8. (\A p \in CPU : batch[p] # {} => pc[p] \in {"i_lock", "i_wake"})'
    BY <1>1, <1>2, <1>3, <1>4 DEF WakeInv, Listed
  <2>9. (\A p \in CPU : pc[p] = "i_lock" => batch[p] # {})'
    BY <1>1, <1>2, <1>3, <1>4 DEF WakeInv, Listed
  <2>10. ASSUME NEW d \in CPU, pc'[d] = "i_wake", batch'[d] = {} PROVE queue'[d] # {}
    <3>1. pc[d] = "i_wake" /\ batch[d] = {} /\ queue[d] \subseteq queue'[d]
      BY <2>10, <1>1, <1>2, <1>3, <1>4 DEF LockInv
    <3>2. queue[d] # {}
      BY <3>1 DEF WakeInv
    <3> QED
      BY <3>1, <3>2
  <2> QED
    BY <2>1, <2>2, <2>3, <2>4, <2>5, <2>6, <2>7, <2>8, <2>9, <2>10 DEF WakeInv, Listed
<1>10. MoveInv'
  BY <1>1, <1>2, <1>3, <1>4 DEF MoveInv
<1>11. LocInv'
  BY <1>1, <1>2, <1>3, <1>4 DEF LocInv
<1>12. DropInv'
  BY <1>1, <1>2, <1>3, <1>4 DEF DropInv
<1>13. HandledInv'
  <2>1. ASSUME NEW u \in Task, cond'[u], state'[u] \in Sleeping, loc'[u] \in {"sched", "back"}
        PROVE  \E d \in CPU : Waker(d, u)'
    <3>1. cond[u] /\ state[u] \in Sleeping /\ loc[u] \in {"sched", "back"}
      BY <2>1, <1>1, <1>2, <1>3, <1>4
    <3>2. PICK d \in CPU : Waker(d, u)
      BY <3>1 DEF HandledInv
    <3>3. Waker(d, u)'
      BY <2>1, <3>1, <3>2, <1>1, <1>2, <1>3, <1>4 DEF Waker
    <3> QED
      BY <3>3
  <2> QED
    BY <2>1 DEF HandledInv
<1> QED
  BY <1>5, <1>6, <1>7, <1>8, <1>9, <1>10, <1>11, <1>12, <1>13

(* The IPI takes the whole list.                                           *)
LEMMA TakeIpiStep ==
  ASSUME WakingInv, NEW c \in CPU, TakeIpi(c)
  PROVE  WakingInv'
<1>. USE IdleAssumption, NoCpuAssumption, AllowedAssumption, SleepAssumption
<1>. USE DEF WakingInv, TypeInv, PC, RqHeld, Matched, Waking, PiHeld, States, NotRunning,
         Sleeping, TakeIpi, flags, user, counts, locals, Goto
<1>1. batch[c] = {}
  BY DEF WakeInv
<1>2. TypeInv'
  BY <1>1
<1>3. LockInv'
  BY <1>1 DEF LockInv
<1>4. PlaceInv'
  BY <1>1 DEF PlaceInv, RunsOn
<1>5. StateInv'
  BY <1>1 DEF StateInv, Listed
<1>6. WakeInv'
  <2>1. (\A p \in CPU : pc[p] \in Matched => state[tgt[p]] \in {"RUNNING"} \cup Sleeping)'
    BY <1>1 DEF WakeInv, Listed
  <2>2. (\A p \in CPU : pc[p] = "w_waking" => onRq[tgt[p]] = "off")'
    BY <1>1 DEF WakeInv, Listed
  <2>3. (\A p \in CPU : pc[p] \in Waking =>
          onRq[tgt[p]] = "off" /\ state[tgt[p]] = "WAKING"
            /\ \A d \in CPU : tgt[p] \notin Listed(d))'
    BY <1>1 DEF WakeInv, Listed
  <2>4. (\A p \in CPU : pc[p] = "w_queue" => ~onCpu[tgt[p]])'
    BY <1>1 DEF WakeInv, Listed
  <2>5. (\A p \in CPU : pc[p] \in {"w_queue", "w_list"} => taskCpu[tgt[p]] = atCpu[p])'
    BY <1>1 DEF WakeInv, Listed
  <2>6. (\A p \in CPU : \A t \in Listed(p) :
          state[t] = "WAKING" /\ onRq[t] = "off" /\ taskCpu[t] = p)'
    BY <1>1 DEF WakeInv, Listed
  <2>7. (\A p \in CPU : wakeList[p] \cap batch[p] = {})'
    BY <1>1 DEF WakeInv, Listed
  <2>8. (\A p \in CPU : batch[p] # {} => pc[p] \in {"i_lock", "i_wake"})'
    BY <1>1 DEF WakeInv, Listed
  <2>9. (\A p \in CPU : pc[p] = "i_lock" => batch[p] # {})'
    BY <1>1 DEF WakeInv, Listed
  <2>10. (\A p \in CPU : pc[p] = "i_wake" /\ batch[p] = {} => queue[p] # {})'
    BY <1>1 DEF WakeInv, Listed
  <2> QED
    BY <2>1, <2>2, <2>3, <2>4, <2>5, <2>6, <2>7, <2>8, <2>9, <2>10 DEF WakeInv, Listed
<1>7. MoveInv'
  BY <1>1 DEF MoveInv
<1>8. LocInv'
  BY <1>1 DEF LocInv
<1>9. DropInv'
  BY <1>1 DEF DropInv
<1>10. HandledInv'
  <2>1. ASSUME NEW u \in Task, cond'[u], state'[u] \in Sleeping, loc'[u] \in {"sched", "back"}
        PROVE  \E d \in CPU : Waker(d, u)'
    <3>1. cond[u] /\ state[u] \in Sleeping /\ loc[u] \in {"sched", "back"}
      BY <2>1, <1>1
    <3>2. PICK d \in CPU : Waker(d, u)
      BY <3>1 DEF HandledInv
    <3>3. Waker(d, u)'
      BY <2>1, <3>1, <3>2, <1>1 DEF Waker
    <3> QED
      BY <3>3
  <2> QED
    BY <2>1 DEF HandledInv
<1> QED
  BY <1>2, <1>3, <1>4, <1>5, <1>6, <1>7, <1>8, <1>9, <1>10

(* sched_ttwu_pending locks its own runqueue with entries to wake.         *)
LEMMA LockPendingStep ==
  ASSUME WakingInv, NEW c \in CPU, LockPending(c)
  PROVE  WakingInv'
<1>. USE IdleAssumption, NoCpuAssumption, AllowedAssumption, SleepAssumption
<1>. USE DEF WakingInv, TypeInv, PC, RqHeld, Matched, Waking, PiHeld, States, NotRunning,
         Sleeping, LockPending, Free, flags, user, counts, locals, Goto
<1>1. batch[c] # {}
  BY DEF WakeInv
<1>2. TypeInv'
  BY <1>1
<1>3. LockInv'
  BY <1>1 DEF LockInv
<1>4. PlaceInv'
  BY <1>1 DEF PlaceInv, RunsOn
<1>5. StateInv'
  BY <1>1 DEF StateInv, Listed
<1>6. WakeInv'
  <2>1. (\A p \in CPU : pc[p] \in Matched => state[tgt[p]] \in {"RUNNING"} \cup Sleeping)'
    BY <1>1 DEF WakeInv, Listed
  <2>2. (\A p \in CPU : pc[p] = "w_waking" => onRq[tgt[p]] = "off")'
    BY <1>1 DEF WakeInv, Listed
  <2>3. (\A p \in CPU : pc[p] \in Waking =>
          onRq[tgt[p]] = "off" /\ state[tgt[p]] = "WAKING"
            /\ \A d \in CPU : tgt[p] \notin Listed(d))'
    BY <1>1 DEF WakeInv, Listed
  <2>4. (\A p \in CPU : pc[p] = "w_queue" => ~onCpu[tgt[p]])'
    BY <1>1 DEF WakeInv, Listed
  <2>5. (\A p \in CPU : pc[p] \in {"w_queue", "w_list"} => taskCpu[tgt[p]] = atCpu[p])'
    BY <1>1 DEF WakeInv, Listed
  <2>6. (\A p \in CPU : \A t \in Listed(p) :
          state[t] = "WAKING" /\ onRq[t] = "off" /\ taskCpu[t] = p)'
    BY <1>1 DEF WakeInv, Listed
  <2>7. (\A p \in CPU : wakeList[p] \cap batch[p] = {})'
    BY <1>1 DEF WakeInv, Listed
  <2>8. (\A p \in CPU : batch[p] # {} => pc[p] \in {"i_lock", "i_wake"})'
    BY <1>1 DEF WakeInv, Listed
  <2>9. (\A p \in CPU : pc[p] = "i_lock" => batch[p] # {})'
    BY <1>1 DEF WakeInv, Listed
  <2>10. ASSUME NEW d \in CPU, pc'[d] = "i_wake", batch'[d] = {} PROVE queue'[d] # {}
    <3>1. pc[d] = "i_wake" /\ batch[d] = {} /\ queue[d] \subseteq queue'[d]
      BY <2>10, <1>1 DEF LockInv
    <3>2. queue[d] # {}
      BY <3>1 DEF WakeInv
    <3> QED
      BY <3>1, <3>2
  <2> QED
    BY <2>1, <2>2, <2>3, <2>4, <2>5, <2>6, <2>7, <2>8, <2>9, <2>10 DEF WakeInv, Listed
<1>7. MoveInv'
  BY <1>1 DEF MoveInv
<1>8. LocInv'
  BY <1>1 DEF LocInv
<1>9. DropInv'
  BY <1>1 DEF DropInv
<1>10. HandledInv'
  <2>1. ASSUME NEW u \in Task, cond'[u], state'[u] \in Sleeping, loc'[u] \in {"sched", "back"}
        PROVE  \E d \in CPU : Waker(d, u)'
    <3>1. cond[u] /\ state[u] \in Sleeping /\ loc[u] \in {"sched", "back"}
      BY <2>1, <1>1
    <3>2. PICK d \in CPU : Waker(d, u)
      BY <3>1 DEF HandledInv
    <3>3. Waker(d, u)'
      BY <2>1, <3>1, <3>2, <1>1 DEF Waker
    <3> QED
      BY <3>3
  <2> QED
    BY <2>1 DEF HandledInv
<1> QED
  BY <1>2, <1>3, <1>4, <1>5, <1>6, <1>7, <1>8, <1>9, <1>10

(* Each entry is this CPU's own and gets on its queue.                     *)
LEMMA WakePendingStep ==
  ASSUME WakingInv, NEW c \in CPU, WakePending(c)
  PROVE  WakingInv'
<1>. USE IdleAssumption, NoCpuAssumption, AllowedAssumption, SleepAssumption
<1>. USE DEF WakingInv, TypeInv, PC, RqHeld, Matched, Waking, PiHeld, States, NotRunning,
         Sleeping, flags, user, counts, locals, Goto
<1>1. PICK t \in batch[c] :
       /\ pc[c] = "i_wake" /\ ~onCpu[t]
       /\ taskCpu' = [taskCpu EXCEPT ![t] = c] /\ state' = [state EXCEPT ![t] = "RUNNING"]
       /\ queue' = [queue EXCEPT ![c] = @ \cup {t}] /\ onRq' = [onRq EXCEPT ![t] = "queued"]
       /\ batch' = [batch EXCEPT ![c] = @ \ {t}]
       /\ UNCHANGED <<onCpu, flags, user, drops, piLock, curr, wakeList, pending,
                      rqLock, pc, tgt, seen, atCpu, mask, moved>>
  BY DEF WakePending, WakeOn, Enqueue, set_task_cpu, flags, user, counts, locals, Goto
<1>2. t \in Task /\ state[t] = "WAKING" /\ onRq[t] = "off" /\ taskCpu[t] = c
  BY <1>1 DEF WakeInv, Listed
<1>3. \A d \in CPU : tgt[d] = t => pc[d] \notin Waking \cup {"n_queue", "m_attach"}
  BY <1>1, <1>2 DEF WakeInv, StateInv, MoveInv, Listed
<1>4. t \in queue'[c]
  BY <1>1, <1>2
<1>5. ASSUME NEW d \in CPU, tgt[d] = t PROVE pc[d] \notin Matched
  <2>1. pc[d] \in Matched => state[t] \in {"RUNNING"} \cup Sleeping
    BY <1>5 DEF WakeInv
  <2> QED
    BY <1>2, <2>1
<1>6. TypeInv'
  <2>1. (state \in [Task -> States] /\ onRq \in [Task -> {"off", "queued", "migrating"}])'
    BY <1>1, <1>2, <1>3, <1>4, <1>5
  <2>2. (onCpu \in [Task -> BOOLEAN] /\ taskCpu \in [Task -> CPU])'
    BY <1>1, <1>2, <1>3, <1>4, <1>5
  <2>3. (contrib \in [Task -> BOOLEAN] /\ iowait \in [Task -> BOOLEAN] /\ remote \in [Task -> BOOLEAN])'
    BY <1>1, <1>2, <1>3, <1>4, <1>5
  <2>4. (cond \in [Task -> BOOLEAN] /\ signal \in [Task -> BOOLEAN])'
    BY <1>1, <1>2, <1>3, <1>4, <1>5
  <2>5. (loc \in [Task -> {"work", "check", "sched", "back", "dead", "gone"}])'
    BY <1>1, <1>2, <1>3, <1>4, <1>5
  <2>6. (drops \in [Task -> {0, 1}] /\ piLock \in [Task -> CPU \cup {NoCpu}])'
    BY <1>1, <1>2, <1>3, <1>4, <1>5
  <2>7. (curr \in [CPU -> Task \cup {Idle}] /\ queue \in [CPU -> SUBSET Task])'
    BY <1>1, <1>2, <1>3, <1>4, <1>5
  <2>8. (wakeList \in [CPU -> SUBSET Task] /\ pending \in [CPU -> BOOLEAN])'
    BY <1>1, <1>2, <1>3, <1>4, <1>5
  <2>9. (rqLock \in [CPU -> CPU \cup {NoCpu}] /\ pc \in [CPU -> PC])'
    BY <1>1, <1>2, <1>3, <1>4, <1>5
  <2>10. (tgt \in [CPU -> Task \cup {Idle}] /\ seen \in [CPU -> States] /\ atCpu \in [CPU -> CPU])'
    BY <1>1, <1>2, <1>3, <1>4, <1>5
  <2>11. (mask \in [CPU -> {{}, {"INTERRUPTIBLE"}, Sleeping, NotRunning}])'
    BY <1>1, <1>2, <1>3, <1>4, <1>5
  <2>12. (moved \in [CPU -> BOOLEAN] /\ batch \in [CPU -> SUBSET Task])'
    BY <1>1, <1>2, <1>3, <1>4, <1>5
  <2> QED
    BY <2>1, <2>2, <2>3, <2>4, <2>5, <2>6, <2>7, <2>8, <2>9, <2>10, <2>11, <2>12
<1>7. LockInv'
  BY <1>1, <1>2, <1>3, <1>4, <1>5 DEF LockInv
<1>8. PlaceInv'
  <2>1. (\A p \in CPU, s \in Task : RunsOn(p, s) => onCpu[s] /\ taskCpu[s] = p)'
    BY <1>1, <1>2, <1>3, <1>4, <1>5 DEF PlaceInv, RunsOn
  <2>2. (\A s \in Task : onCpu[s] => RunsOn(taskCpu[s], s))'
    BY <1>1, <1>2, <1>3, <1>4, <1>5 DEF PlaceInv, RunsOn
  <2>3. (\A p \in CPU : curr[p] \in Task /\ pc[p] # "s_switch" => onRq[curr[p]] = "queued")'
    BY <1>1, <1>2, <1>3, <1>4, <1>5 DEF PlaceInv, RunsOn
  <2>4. (\A p \in CPU : pc[p] \in {"s_lock", "s_block", "s_switch"} => tgt[p] = curr[p])'
    BY <1>1, <1>2, <1>3, <1>4, <1>5 DEF PlaceInv, RunsOn
  <2>5. (\A p \in CPU : pc[p] \in {"s_finish", "s_clear"} => tgt[p] # curr[p])'
    BY <1>1, <1>2, <1>3, <1>4, <1>5 DEF PlaceInv, RunsOn
  <2>6. (\A p \in CPU : queue[p] = {s \in Task : onRq[s] = "queued" /\ taskCpu[s] = p})'
    BY <1>1, <1>2, <1>3, <1>4, <1>5 DEF PlaceInv, RunsOn, LockInv, StateInv, Listed, WakeInv
  <2> QED
    BY <2>1, <2>2, <2>3, <2>4, <2>5, <2>6 DEF PlaceInv, RunsOn
<1>9. StateInv'
  <2>1. (\A s \in Task : onRq[s] # "off" => state[s] \in {"RUNNING", "DEAD"} \cup Sleeping)'
    BY <1>1, <1>2, <1>3, <1>4, <1>5 DEF StateInv, Listed
  <2>2. (\A s \in Task : onRq[s] = "off" /\ state[s] = "RUNNING" =>
                          piLock[s] \in CPU /\ pc[piLock[s]] = "n_queue")'
    BY <1>1, <1>2, <1>3, <1>4, <1>5 DEF StateInv, Listed
  <2>3. (\A s \in Task : state[s] = "NEW" => ~onCpu[s])'
    BY <1>1, <1>2, <1>3, <1>4, <1>5 DEF StateInv, Listed
  <2>4. (\A s \in Task : state[s] = "WAKING" => piLock[s] \in CPU \/ s \in Listed(taskCpu[s]))'
    BY <1>1, <1>2, <1>3, <1>4, <1>5 DEF StateInv, Listed
  <2>5. (\A p \in CPU : pc[p] = "s_block" =>
                         seen[p] = IF tgt[p] = Idle THEN "RUNNING" ELSE state[tgt[p]])'
    BY <1>1, <1>2, <1>3, <1>4, <1>5 DEF StateInv, Listed, LockInv, PlaceInv, RunsOn
  <2>6. (\A p \in CPU : pc[p] = "n_queue" =>
          state[tgt[p]] = "RUNNING" /\ onRq[tgt[p]] = "off" /\ ~onCpu[tgt[p]]
            /\ taskCpu[tgt[p]] = atCpu[p])'
    BY <1>1, <1>2, <1>3, <1>4, <1>5 DEF StateInv, Listed, LockInv, PlaceInv, RunsOn, WakeInv
  <2> QED
    BY <2>1, <2>2, <2>3, <2>4, <2>5, <2>6 DEF StateInv, Listed
<1>10. WakeInv'
  <2>1. (\A p \in CPU : pc[p] \in Matched => state[tgt[p]] \in {"RUNNING"} \cup Sleeping)'
    BY <1>1, <1>2, <1>3, <1>4, <1>5 DEF WakeInv, Listed
  <2>2. (\A p \in CPU : pc[p] = "w_waking" => onRq[tgt[p]] = "off")'
    BY <1>1, <1>2, <1>3, <1>4, <1>5 DEF WakeInv, Listed, LockInv, PlaceInv, RunsOn, StateInv,
       MoveInv, LocInv
  <2>3. (\A p \in CPU : pc[p] \in Waking =>
          onRq[tgt[p]] = "off" /\ state[tgt[p]] = "WAKING"
            /\ \A d \in CPU : tgt[p] \notin Listed(d))'
    BY <1>1, <1>2, <1>3, <1>4, <1>5 DEF WakeInv, Listed
  <2>4. (\A p \in CPU : pc[p] = "w_queue" => ~onCpu[tgt[p]])'
    BY <1>1, <1>2, <1>3, <1>4, <1>5 DEF WakeInv, Listed
  <2>5. (\A p \in CPU : pc[p] \in {"w_queue", "w_list"} => taskCpu[tgt[p]] = atCpu[p])'
    BY <1>1, <1>2, <1>3, <1>4, <1>5 DEF WakeInv, Listed
  <2>6. (\A p \in CPU : \A s \in Listed(p) :
          state[s] = "WAKING" /\ onRq[s] = "off" /\ taskCpu[s] = p)'
    BY <1>1, <1>2, <1>3, <1>4, <1>5 DEF WakeInv, Listed
  <2>7. (\A p \in CPU : wakeList[p] \cap batch[p] = {})'
    BY <1>1, <1>2, <1>3, <1>4, <1>5 DEF WakeInv, Listed
  <2>8. (\A p \in CPU : batch[p] # {} => pc[p] \in {"i_lock", "i_wake"})'
    BY <1>1, <1>2, <1>3, <1>4, <1>5 DEF WakeInv, Listed
  <2>9. (\A p \in CPU : pc[p] = "i_lock" => batch[p] # {})'
    BY <1>1, <1>2, <1>3, <1>4, <1>5 DEF WakeInv, Listed
  <2>10. ASSUME NEW d \in CPU, pc'[d] = "i_wake", batch'[d] = {} PROVE queue'[d] # {}
    <3>1. CASE d = c
      BY <1>4, <3>1
    <3>2. CASE d # c
      <4>1. pc[d] = "i_wake" /\ batch[d] = {} /\ queue'[d] = queue[d]
        BY <1>1, <2>10, <3>2
      <4>2. pc[d] = "i_wake" /\ batch[d] = {} => queue[d] # {}
        BY DEF WakeInv
      <4> QED
        BY <4>1, <4>2, Zenon
    <3> QED
      BY <3>1, <3>2
  <2> QED
    BY <2>1, <2>2, <2>3, <2>4, <2>5, <2>6, <2>7, <2>8, <2>9, <2>10 DEF WakeInv, Listed
<1>11. MoveInv'
  <2>1. (\A p \in CPU : pc[p] = "m_attach" =>
          onRq[tgt[p]] = "migrating" /\ ~onCpu[tgt[p]] /\ taskCpu[tgt[p]] = atCpu[p])'
    BY <1>1, <1>2, <1>3, <1>4, <1>5 DEF MoveInv, LockInv, PlaceInv, RunsOn, StateInv, Listed,
       WakeInv
  <2>2. (\A p, d \in CPU : pc[p] = "m_attach" /\ pc[d] = "m_attach" /\ tgt[p] = tgt[d] => p = d)'
    BY <1>1, <1>2, <1>3, <1>4, <1>5 DEF MoveInv
  <2> QED
    BY <2>1, <2>2 DEF MoveInv
<1>12. LocInv'
  <2>1. (\A s \in Task : state[s] = "DEAD" <=> loc[s] \in {"dead", "gone"})'
    BY <1>1, <1>2, <1>3, <1>4, <1>5 DEF LocInv, LockInv, PlaceInv, RunsOn, StateInv, Listed,
       WakeInv
  <2>2. (\A s \in Task : loc[s] = "dead" =>
          LET p == taskCpu[s] IN
            curr[p] = s /\ pc[p] \notin {"s_lock", "s_block", "s_switch", "s_finish", "s_clear", "s_unlock"})'
    BY <1>1, <1>2, <1>3, <1>4, <1>5 DEF LocInv, LockInv, PlaceInv, RunsOn
  <2>3. (\A s \in Task : loc[s] = "gone" /\ onRq[s] # "off" =>
          LET p == taskCpu[s] IN
            curr[p] = s /\ pc[p] \in {"s_lock", "s_block"} /\ mask[p] = NotRunning)'
    BY <1>1, <1>2, <1>3, <1>4, <1>5 DEF LocInv, LockInv, PlaceInv, RunsOn, StateInv, Listed,
       WakeInv
  <2>4. (\A s \in Task : onRq[s] = "off" /\ state[s] \in Sleeping \cup {"WAKING"} => loc[s] = "back")'
    BY <1>1, <1>2, <1>3, <1>4, <1>5 DEF LocInv
  <2>5. (\A p \in CPU : pc[p] \in {"s_lock", "s_block"} /\ tgt[p] \in Task /\ mask[p] # {} =>
          loc[tgt[p]] \in {"back", "gone"})'
    BY <1>1, <1>2, <1>3, <1>4, <1>5 DEF LocInv
  <2> QED
    BY <2>1, <2>2, <2>3, <2>4, <2>5 DEF LocInv
<1>13. DropInv'
  <2>1. (\A s \in Task : drops[s] = 1 => state[s] = "DEAD" /\ onRq[s] = "off" /\ ~onCpu[s])'
    BY <1>1, <1>2, <1>3, <1>4, <1>5 DEF DropInv, LockInv, PlaceInv, RunsOn, StateInv, Listed,
       WakeInv
  <2>2. (\A p \in CPU : pc[p] \in {"s_clear", "s_unlock"} /\ seen[p] = "DEAD" =>
          /\ tgt[p] \in Task /\ state[tgt[p]] = "DEAD" /\ onRq[tgt[p]] = "off"
          /\ taskCpu[tgt[p]] = p /\ drops[tgt[p]] = 0
          /\ pc[p] = "s_unlock" => ~onCpu[tgt[p]])'
    BY <1>1, <1>2, <1>3, <1>4, <1>5 DEF DropInv, LockInv, PlaceInv, RunsOn, StateInv, Listed,
       WakeInv
  <2> QED
    BY <2>1, <2>2 DEF DropInv
<1>14. HandledInv'
  <2>1. ASSUME NEW u \in Task, cond'[u], state'[u] \in Sleeping, loc'[u] \in {"sched", "back"}
        PROVE  \E d \in CPU : Waker(d, u)'
    <3>1. cond[u] /\ state[u] \in Sleeping /\ loc[u] \in {"sched", "back"}
      BY <2>1, <1>1, <1>2, <1>3, <1>4, <1>5
    <3>2. PICK d \in CPU : Waker(d, u)
      BY <3>1 DEF HandledInv
    <3>3. Waker(d, u)'
      BY <2>1, <3>1, <3>2, <1>1, <1>2, <1>3, <1>4, <1>5 DEF Waker
    <3> QED
      BY <3>3
  <2> QED
    BY <2>1 DEF HandledInv
<1> QED
  BY <1>6, <1>7, <1>8, <1>9, <1>10, <1>11, <1>12, <1>13, <1>14

(* The list is empty and the lock is given back.                           *)
LEMMA FinishPendingStep ==
  ASSUME WakingInv, NEW c \in CPU, FinishPending(c)
  PROVE  WakingInv'
<1>. USE IdleAssumption, NoCpuAssumption, AllowedAssumption, SleepAssumption
<1>. USE DEF WakingInv, TypeInv, PC, RqHeld, Matched, Waking, PiHeld, States, NotRunning,
         Sleeping, FinishPending, Return, flags, user, counts, locals, Goto
<1>1. TypeInv'
  OBVIOUS
<1>2. LockInv'
  BY DEF LockInv
<1>3. PlaceInv'
  BY DEF PlaceInv, RunsOn
<1>4. StateInv'
  BY DEF StateInv, Listed
<1>5. WakeInv'
  <2>1. (\A p \in CPU : pc[p] \in Matched => state[tgt[p]] \in {"RUNNING"} \cup Sleeping)'
    BY DEF WakeInv, Listed
  <2>2. (\A p \in CPU : pc[p] = "w_waking" => onRq[tgt[p]] = "off")'
    BY DEF WakeInv, Listed
  <2>3. (\A p \in CPU : pc[p] \in Waking =>
          onRq[tgt[p]] = "off" /\ state[tgt[p]] = "WAKING"
            /\ \A d \in CPU : tgt[p] \notin Listed(d))'
    BY DEF WakeInv, Listed
  <2>4. (\A p \in CPU : pc[p] = "w_queue" => ~onCpu[tgt[p]])'
    BY DEF WakeInv, Listed
  <2>5. (\A p \in CPU : pc[p] \in {"w_queue", "w_list"} => taskCpu[tgt[p]] = atCpu[p])'
    BY DEF WakeInv, Listed
  <2>6. (\A p \in CPU : \A t \in Listed(p) :
          state[t] = "WAKING" /\ onRq[t] = "off" /\ taskCpu[t] = p)'
    BY DEF WakeInv, Listed
  <2>7. (\A p \in CPU : wakeList[p] \cap batch[p] = {})'
    BY DEF WakeInv, Listed
  <2>8. (\A p \in CPU : batch[p] # {} => pc[p] \in {"i_lock", "i_wake"})'
    BY DEF WakeInv, Listed
  <2>9. (\A p \in CPU : pc[p] = "i_lock" => batch[p] # {})'
    BY DEF WakeInv, Listed
  <2>10. (\A p \in CPU : pc[p] = "i_wake" /\ batch[p] = {} => queue[p] # {})'
    BY SMTT(20) DEF WakeInv, Listed
  <2> QED
    BY <2>1, <2>2, <2>3, <2>4, <2>5, <2>6, <2>7, <2>8, <2>9, <2>10 DEF WakeInv, Listed
<1>6. MoveInv'
  BY DEF MoveInv
<1>7. LocInv'
  BY DEF LocInv
<1>8. DropInv'
  BY DEF DropInv
<1>9. HandledInv'
  <2>1. ASSUME NEW u \in Task, cond'[u], state'[u] \in Sleeping, loc'[u] \in {"sched", "back"}
        PROVE  \E d \in CPU : Waker(d, u)'
    <3>1. cond[u] /\ state[u] \in Sleeping /\ loc[u] \in {"sched", "back"}
      BY <2>1
    <3>2. PICK d \in CPU : Waker(d, u)
      BY <3>1 DEF HandledInv
    <3>3. Waker(d, u)'
      BY <2>1, <3>1, <3>2 DEF Waker
    <3> QED
      BY <3>3
  <2> QED
    BY <2>1 DEF HandledInv
<1> QED
  BY <1>1, <1>2, <1>3, <1>4, <1>5, <1>6, <1>7, <1>8, <1>9

(* wake_up_new_task: nobody knows the new task yet.                        *)
LEMMA StartNewStep ==
  ASSUME WakingInv, NEW c \in CPU, NEW t \in Task, StartNew(c, t)
  PROVE  WakingInv'
<1>. USE IdleAssumption, NoCpuAssumption, AllowedAssumption, SleepAssumption
<1>. USE DEF WakingInv, TypeInv, PC, RqHeld, Matched, Waking, PiHeld, States, NotRunning,
         Sleeping, flags, user, counts, locals, Goto
<1>1. PICK r \in CPU :
       /\ pc[c] = "run" /\ state[t] = "NEW" /\ piLock[t] = NoCpu
       /\ taskCpu' = [taskCpu EXCEPT ![t] = r] /\ atCpu' = [atCpu EXCEPT ![c] = r]
       /\ tgt' = [tgt EXCEPT ![c] = t] /\ pc' = [pc EXCEPT ![c] = "n_queue"]
       /\ state' = [state EXCEPT ![t] = "RUNNING"] /\ piLock' = [piLock EXCEPT ![t] = c]
       /\ UNCHANGED <<onRq, onCpu, flags, user, drops, curr, queue, counts, wakeList,
                      pending, rqLock, seen, mask, moved, batch>>
  BY DEF StartNew, set_task_cpu, Free, flags, user, counts, locals, Goto
<1>2. onRq[t] = "off" /\ ~onCpu[t] /\ \A d \in CPU : t \notin Listed(d)
  BY <1>1 DEF StateInv, WakeInv
<1>3. \A d \in CPU : tgt[d] = t => pc[d] \notin PiHeld
  BY <1>1 DEF LockInv
<1>4. TypeInv'
  BY <1>1, <1>2, <1>3
<1>5. LockInv'
  BY <1>1, <1>2, <1>3 DEF LockInv
<1>6. PlaceInv'
  BY <1>1, <1>2, <1>3 DEF PlaceInv, RunsOn
<1>7. StateInv'
  BY <1>1, <1>2, <1>3 DEF StateInv, Listed, LockInv, PlaceInv, RunsOn
<1>8. WakeInv'
  <2>1. (\A p \in CPU : pc[p] \in Matched => state[tgt[p]] \in {"RUNNING"} \cup Sleeping)'
    BY <1>1, <1>2, <1>3 DEF WakeInv, Listed
  <2>2. (\A p \in CPU : pc[p] = "w_waking" => onRq[tgt[p]] = "off")'
    BY <1>1, <1>2, <1>3 DEF WakeInv, Listed
  <2>3. (\A p \in CPU : pc[p] \in Waking =>
          onRq[tgt[p]] = "off" /\ state[tgt[p]] = "WAKING"
            /\ \A d \in CPU : tgt[p] \notin Listed(d))'
    BY <1>1, <1>2, <1>3 DEF WakeInv, Listed
  <2>4. (\A p \in CPU : pc[p] = "w_queue" => ~onCpu[tgt[p]])'
    BY <1>1, <1>2, <1>3 DEF WakeInv, Listed
  <2>5. (\A p \in CPU : pc[p] \in {"w_queue", "w_list"} => taskCpu[tgt[p]] = atCpu[p])'
    BY <1>1, <1>2, <1>3 DEF WakeInv, Listed
  <2>6. (\A p \in CPU : \A s \in Listed(p) :
          state[s] = "WAKING" /\ onRq[s] = "off" /\ taskCpu[s] = p)'
    BY <1>1, <1>2, <1>3 DEF WakeInv, Listed
  <2>7. (\A p \in CPU : wakeList[p] \cap batch[p] = {})'
    BY <1>1, <1>2, <1>3 DEF WakeInv, Listed
  <2>8. (\A p \in CPU : batch[p] # {} => pc[p] \in {"i_lock", "i_wake"})'
    BY <1>1, <1>2, <1>3 DEF WakeInv, Listed
  <2>9. (\A p \in CPU : pc[p] = "i_lock" => batch[p] # {})'
    BY <1>1, <1>2, <1>3 DEF WakeInv, Listed
  <2>10. ASSUME NEW d \in CPU, pc'[d] = "i_wake", batch'[d] = {} PROVE queue'[d] # {}
    <3>1. pc[d] = "i_wake" /\ batch[d] = {} /\ queue[d] \subseteq queue'[d]
      BY <2>10, <1>1, <1>2, <1>3 DEF LockInv
    <3>2. queue[d] # {}
      BY <3>1 DEF WakeInv
    <3> QED
      BY <3>1, <3>2
  <2> QED
    BY <2>1, <2>2, <2>3, <2>4, <2>5, <2>6, <2>7, <2>8, <2>9, <2>10 DEF WakeInv, Listed
<1>9. MoveInv'
  BY <1>1, <1>2, <1>3 DEF MoveInv
<1>10. LocInv'
  BY <1>1, <1>2, <1>3 DEF LocInv
<1>11. DropInv'
  BY <1>1, <1>2, <1>3 DEF DropInv
<1>12. HandledInv'
  <2>1. ASSUME NEW u \in Task, cond'[u], state'[u] \in Sleeping, loc'[u] \in {"sched", "back"}
        PROVE  \E d \in CPU : Waker(d, u)'
    <3>1. cond[u] /\ state[u] \in Sleeping /\ loc[u] \in {"sched", "back"}
      BY <2>1, <1>1, <1>2, <1>3
    <3>2. PICK d \in CPU : Waker(d, u)
      BY <3>1 DEF HandledInv
    <3>3. Waker(d, u)'
      BY <2>1, <3>1, <3>2, <1>1, <1>2, <1>3 DEF Waker
    <3> QED
      BY <3>3
  <2> QED
    BY <2>1 DEF HandledInv
<1> QED
  BY <1>4, <1>5, <1>6, <1>7, <1>8, <1>9, <1>10, <1>11, <1>12

(* The new task gets on the runqueue its task_cpu names.                   *)
LEMMA QueueNewStep ==
  ASSUME WakingInv, NEW c \in CPU, QueueNew(c)
  PROVE  WakingInv'
<1>. USE IdleAssumption, NoCpuAssumption, AllowedAssumption, SleepAssumption
<1>. USE DEF WakingInv, TypeInv, PC, RqHeld, Matched, Waking, PiHeld, States, NotRunning,
         Sleeping, QueueNew, Enqueue, Return, Free, flags, user, counts, locals, Goto
<1>1. tgt[c] \in Task /\ piLock[tgt[c]] = c
  BY DEF LockInv
<1>2. \A d \in CPU \ {c} : tgt[d] = tgt[c] => pc[d] \notin PiHeld
  BY <1>1 DEF LockInv
<1>3. onRq[tgt[c]] = "off" /\ state[tgt[c]] = "RUNNING" /\ taskCpu[tgt[c]] = atCpu[c] /\ ~onCpu[tgt[c]]
  BY DEF StateInv
<1>4. TypeInv'
  BY <1>1, <1>2, <1>3
<1>5. LockInv'
  BY <1>1, <1>2, <1>3 DEF LockInv
<1>6. PlaceInv'
  BY <1>1, <1>2, <1>3 DEF PlaceInv, RunsOn
<1>7. StateInv'
  BY <1>1, <1>2, <1>3 DEF StateInv, Listed, LockInv
<1>8. WakeInv'
  <2>1. (\A p \in CPU : pc[p] \in Matched => state[tgt[p]] \in {"RUNNING"} \cup Sleeping)'
    BY <1>1, <1>2, <1>3 DEF WakeInv, Listed
  <2>2. (\A p \in CPU : pc[p] = "w_waking" => onRq[tgt[p]] = "off")'
    BY <1>1, <1>2, <1>3 DEF WakeInv, Listed
  <2>3. (\A p \in CPU : pc[p] \in Waking =>
          onRq[tgt[p]] = "off" /\ state[tgt[p]] = "WAKING"
            /\ \A d \in CPU : tgt[p] \notin Listed(d))'
    BY <1>1, <1>2, <1>3 DEF WakeInv, Listed
  <2>4. (\A p \in CPU : pc[p] = "w_queue" => ~onCpu[tgt[p]])'
    BY <1>1, <1>2, <1>3 DEF WakeInv, Listed
  <2>5. (\A p \in CPU : pc[p] \in {"w_queue", "w_list"} => taskCpu[tgt[p]] = atCpu[p])'
    BY <1>1, <1>2, <1>3 DEF WakeInv, Listed
  <2>6. (\A p \in CPU : \A t \in Listed(p) :
          state[t] = "WAKING" /\ onRq[t] = "off" /\ taskCpu[t] = p)'
    BY <1>1, <1>2, <1>3 DEF WakeInv, Listed
  <2>7. (\A p \in CPU : wakeList[p] \cap batch[p] = {})'
    BY <1>1, <1>2, <1>3 DEF WakeInv, Listed
  <2>8. (\A p \in CPU : batch[p] # {} => pc[p] \in {"i_lock", "i_wake"})'
    BY <1>1, <1>2, <1>3 DEF WakeInv, Listed
  <2>9. (\A p \in CPU : pc[p] = "i_lock" => batch[p] # {})'
    BY <1>1, <1>2, <1>3 DEF WakeInv, Listed
  <2>10. ASSUME NEW d \in CPU, pc'[d] = "i_wake", batch'[d] = {} PROVE queue'[d] # {}
    <3>1. pc[d] = "i_wake" /\ batch[d] = {} /\ queue[d] \subseteq queue'[d]
      BY <2>10, <1>1, <1>2, <1>3 DEF LockInv
    <3>2. queue[d] # {}
      BY <3>1 DEF WakeInv
    <3> QED
      BY <3>1, <3>2
  <2> QED
    BY <2>1, <2>2, <2>3, <2>4, <2>5, <2>6, <2>7, <2>8, <2>9, <2>10 DEF WakeInv, Listed
<1>9. MoveInv'
  BY <1>1, <1>2, <1>3 DEF MoveInv
<1>10. LocInv'
  BY <1>1, <1>2, <1>3 DEF LocInv
<1>11. DropInv'
  BY <1>1, <1>2, <1>3 DEF DropInv
<1>12. HandledInv'
  <2>1. ASSUME NEW u \in Task, cond'[u], state'[u] \in Sleeping, loc'[u] \in {"sched", "back"}
        PROVE  \E d \in CPU : Waker(d, u)'
    <3>1. cond[u] /\ state[u] \in Sleeping /\ loc[u] \in {"sched", "back"}
      BY <2>1, <1>1, <1>2, <1>3
    <3>2. PICK d \in CPU : Waker(d, u)
      BY <3>1 DEF HandledInv
    <3>3. Waker(d, u)'
      BY <2>1, <3>1, <3>2, <1>1, <1>2, <1>3 DEF Waker
    <3> QED
      BY <3>3
  <2> QED
    BY <2>1 DEF HandledInv
<1> QED
  BY <1>4, <1>5, <1>6, <1>7, <1>8, <1>9, <1>10, <1>11, <1>12

(* move_queued_task: a queued task that is not running changes its CPU.    *)
LEMMA DetachQueuedStep ==
  ASSUME WakingInv, NEW c \in CPU, NEW t \in Task, NEW d \in CPU, DetachQueued(c, t, d)
  PROVE  WakingInv'
<1>. USE IdleAssumption, NoCpuAssumption, AllowedAssumption, SleepAssumption
<1>. USE DEF WakingInv, TypeInv, PC, RqHeld, Matched, Waking, PiHeld, States, NotRunning,
         Sleeping, DetachQueued, Dequeue, set_task_cpu, Free, flags, user, counts, locals,
         Goto
<1>1. taskCpu[t] # d /\ onRq[t] = "queued" /\ t \in queue[taskCpu[t]]
  BY DEF PlaceInv
<1>2. curr[taskCpu[t]] # t
  BY DEF PlaceInv, RunsOn
<1>3. state[t] \in {"RUNNING"} \cup Sleeping
  BY <1>1, <1>2 DEF StateInv, LocInv
<1>4. pc[taskCpu[t]] \notin RqHeld
  BY DEF LockInv
<1>5. TypeInv'
  BY <1>1, <1>2, <1>3, <1>4
<1>6. LockInv'
  BY <1>1, <1>2, <1>3, <1>4 DEF LockInv
<1>7. PlaceInv'
  BY <1>1, <1>2, <1>3, <1>4 DEF PlaceInv, RunsOn
<1>8. StateInv'
  BY <1>1, <1>2, <1>3, <1>4 DEF StateInv, Listed
<1>9. WakeInv'
  <2>1. (\A p \in CPU : pc[p] \in Matched => state[tgt[p]] \in {"RUNNING"} \cup Sleeping)'
    BY <1>1, <1>2, <1>3, <1>4 DEF WakeInv, Listed
  <2>2. (\A p \in CPU : pc[p] = "w_waking" => onRq[tgt[p]] = "off")'
    BY <1>1, <1>2, <1>3, <1>4 DEF WakeInv, Listed
  <2>3. (\A p \in CPU : pc[p] \in Waking =>
          onRq[tgt[p]] = "off" /\ state[tgt[p]] = "WAKING"
            /\ \A q \in CPU : tgt[p] \notin Listed(q))'
    BY <1>1, <1>2, <1>3, <1>4 DEF WakeInv, Listed
  <2>4. (\A p \in CPU : pc[p] = "w_queue" => ~onCpu[tgt[p]])'
    BY <1>1, <1>2, <1>3, <1>4 DEF WakeInv, Listed
  <2>5. (\A p \in CPU : pc[p] \in {"w_queue", "w_list"} => taskCpu[tgt[p]] = atCpu[p])'
    BY <1>1, <1>2, <1>3, <1>4 DEF WakeInv, Listed
  <2>6. (\A p \in CPU : \A s \in Listed(p) :
          state[s] = "WAKING" /\ onRq[s] = "off" /\ taskCpu[s] = p)'
    BY <1>1, <1>2, <1>3, <1>4 DEF WakeInv, Listed
  <2>7. (\A p \in CPU : wakeList[p] \cap batch[p] = {})'
    BY <1>1, <1>2, <1>3, <1>4 DEF WakeInv, Listed
  <2>8. (\A p \in CPU : batch[p] # {} => pc[p] \in {"i_lock", "i_wake"})'
    BY <1>1, <1>2, <1>3, <1>4 DEF WakeInv, Listed
  <2>9. (\A p \in CPU : pc[p] = "i_lock" => batch[p] # {})'
    BY <1>1, <1>2, <1>3, <1>4 DEF WakeInv, Listed
  <2>10. ASSUME NEW q \in CPU, pc'[q] = "i_wake", batch'[q] = {} PROVE queue'[q] # {}
    <3>1. pc[q] = "i_wake" /\ batch[q] = {} /\ queue[q] \subseteq queue'[q]
      BY <2>10, <1>1, <1>2, <1>3, <1>4 DEF LockInv
    <3>2. queue[q] # {}
      BY <3>1 DEF WakeInv
    <3> QED
      BY <3>1, <3>2
  <2> QED
    BY <2>1, <2>2, <2>3, <2>4, <2>5, <2>6, <2>7, <2>8, <2>9, <2>10 DEF WakeInv, Listed
<1>10. MoveInv'
  BY <1>1, <1>2, <1>3, <1>4 DEF MoveInv
<1>11. LocInv'
  BY <1>1, <1>2, <1>3, <1>4 DEF LocInv
<1>12. DropInv'
  BY <1>1, <1>2, <1>3, <1>4 DEF DropInv
<1>13. HandledInv'
  <2>1. ASSUME NEW u \in Task, cond'[u], state'[u] \in Sleeping, loc'[u] \in {"sched", "back"}
        PROVE  \E q \in CPU : Waker(q, u)'
    <3>1. cond[u] /\ state[u] \in Sleeping /\ loc[u] \in {"sched", "back"}
      BY <2>1, <1>1, <1>2, <1>3, <1>4
    <3>2. PICK q \in CPU : Waker(q, u)
      BY <3>1 DEF HandledInv
    <3>3. Waker(q, u)'
      BY <2>1, <3>1, <3>2, <1>1, <1>2, <1>3, <1>4 DEF Waker
    <3> QED
      BY <3>3
  <2> QED
    BY <2>1 DEF HandledInv
<1> QED
  BY <1>5, <1>6, <1>7, <1>8, <1>9, <1>10, <1>11, <1>12, <1>13

(* A migrating task gets on the runqueue its task_cpu names.               *)
LEMMA AttachQueuedStep ==
  ASSUME WakingInv, NEW c \in CPU, AttachQueued(c)
  PROVE  WakingInv'
<1>. USE IdleAssumption, NoCpuAssumption, AllowedAssumption, SleepAssumption
<1>. USE DEF WakingInv, TypeInv, PC, RqHeld, Matched, Waking, PiHeld, States, NotRunning,
         Sleeping, AttachQueued, Enqueue, Return, Free, flags, user, counts, locals, Goto
<1>1. tgt[c] \in Task /\ onRq[tgt[c]] = "migrating" /\ ~onCpu[tgt[c]] /\ taskCpu[tgt[c]] = atCpu[c]
  BY DEF LockInv, MoveInv
<1>2. TypeInv'
  BY <1>1
<1>3. LockInv'
  BY <1>1 DEF LockInv
<1>4. PlaceInv'
  BY <1>1 DEF PlaceInv, RunsOn
<1>5. StateInv'
  BY <1>1 DEF StateInv, Listed
<1>6. WakeInv'
  <2>1. (\A p \in CPU : pc[p] \in Matched => state[tgt[p]] \in {"RUNNING"} \cup Sleeping)'
    BY <1>1 DEF WakeInv, Listed
  <2>2. (\A p \in CPU : pc[p] = "w_waking" => onRq[tgt[p]] = "off")'
    BY <1>1 DEF WakeInv, Listed
  <2>3. (\A p \in CPU : pc[p] \in Waking =>
          onRq[tgt[p]] = "off" /\ state[tgt[p]] = "WAKING"
            /\ \A d \in CPU : tgt[p] \notin Listed(d))'
    BY <1>1 DEF WakeInv, Listed
  <2>4. (\A p \in CPU : pc[p] = "w_queue" => ~onCpu[tgt[p]])'
    BY <1>1 DEF WakeInv, Listed
  <2>5. (\A p \in CPU : pc[p] \in {"w_queue", "w_list"} => taskCpu[tgt[p]] = atCpu[p])'
    BY <1>1 DEF WakeInv, Listed
  <2>6. (\A p \in CPU : \A t \in Listed(p) :
          state[t] = "WAKING" /\ onRq[t] = "off" /\ taskCpu[t] = p)'
    BY <1>1 DEF WakeInv, Listed
  <2>7. (\A p \in CPU : wakeList[p] \cap batch[p] = {})'
    BY <1>1 DEF WakeInv, Listed
  <2>8. (\A p \in CPU : batch[p] # {} => pc[p] \in {"i_lock", "i_wake"})'
    BY <1>1 DEF WakeInv, Listed
  <2>9. (\A p \in CPU : pc[p] = "i_lock" => batch[p] # {})'
    BY <1>1 DEF WakeInv, Listed
  <2>10. ASSUME NEW d \in CPU, pc'[d] = "i_wake", batch'[d] = {} PROVE queue'[d] # {}
    <3>1. pc[d] = "i_wake" /\ batch[d] = {} /\ queue[d] \subseteq queue'[d]
      BY <2>10, <1>1 DEF LockInv
    <3>2. queue[d] # {}
      BY <3>1 DEF WakeInv
    <3> QED
      BY <3>1, <3>2
  <2> QED
    BY <2>1, <2>2, <2>3, <2>4, <2>5, <2>6, <2>7, <2>8, <2>9, <2>10 DEF WakeInv, Listed
<1>7. MoveInv'
  BY <1>1 DEF MoveInv
<1>8. LocInv'
  BY <1>1 DEF LocInv
<1>9. DropInv'
  BY <1>1 DEF DropInv
<1>10. HandledInv'
  <2>1. ASSUME NEW u \in Task, cond'[u], state'[u] \in Sleeping, loc'[u] \in {"sched", "back"}
        PROVE  \E d \in CPU : Waker(d, u)'
    <3>1. cond[u] /\ state[u] \in Sleeping /\ loc[u] \in {"sched", "back"}
      BY <2>1, <1>1
    <3>2. PICK d \in CPU : Waker(d, u)
      BY <3>1 DEF HandledInv
    <3>3. Waker(d, u)'
      BY <2>1, <3>1, <3>2, <1>1 DEF Waker
    <3> QED
      BY <3>3
  <2> QED
    BY <2>1 DEF HandledInv
<1> QED
  BY <1>2, <1>3, <1>4, <1>5, <1>6, <1>7, <1>8, <1>9, <1>10

(* A wakeup step keeps the invariant whichever way it goes.                *)
LEMMA BranchSteps ==
  ASSUME WakingInv, NEW c \in CPU,
         Match(c) \/ WakeRunnable(c) \/ ReadOnCpu(c) \/ QueueWoken(c) \/ Block(c)
  PROVE  WakingInv'
<1>1. CASE Match(c)
  BY <1>1, MatchTakenStep, MatchRefusedStep
<1>2. CASE WakeRunnable(c)
  <2>1. onRq[tgt[c]] \in {"off", "queued", "migrating"}
    BY <1>2 DEF WakeRunnable, WakingInv, TypeInv, LockInv, PiHeld, Matched
  <2> QED
    BY <1>2, <2>1, RunnableLeftStep, RunnableWokenStep, RunnableBlockedStep
<1>3. CASE ReadOnCpu(c)
  BY <1>3, ReadOnCpuListedStep, ReadOnCpuSelectStep
<1>4. CASE QueueWoken(c)
  BY <1>4, QueueWokenListedStep, QueueWokenQueuedStep
<1>5. CASE Block(c)
  BY <1>5, BlockNotStep, BlockSignalStep, BlockOffStep
<1> QED
  BY <1>1, <1>2, <1>3, <1>4, <1>5

(* Every step of the system keeps the invariant.                           *)
LEMMA WakingStep ==
  ASSUME WakingInv, [Next]_vars
  PROVE  WakingInv'
<1>1. CASE UNCHANGED vars
  <2>. USE <1>1 DEF vars, flags, user, counts, locals, WakingInv
  <2>1. TypeInv'
    BY DEF TypeInv
  <2>2. LockInv' /\ MoveInv'
    BY DEF LockInv, MoveInv
  <2>3. PlaceInv'
    BY DEF PlaceInv, RunsOn
  <2>4. StateInv'
    BY DEF StateInv, Listed
  <2>5. WakeInv'
    BY DEF WakeInv, Listed
  <2>6. LocInv' /\ DropInv'
    BY DEF LocInv, DropInv
  <2>7. HandledInv'
    BY DEF HandledInv, Waker
  <2> QED
    BY <2>1, <2>2, <2>3, <2>4, <2>5, <2>6, <2>7
<1>2. ASSUME NEW c \in CPU, Schedule(c) PROVE WakingInv'
  BY <1>2, LockScheduleStep, BranchSteps, SwitchStep, ReadPrevStateStep, FinishTaskStep,
     UnlockScheduleStep DEF Schedule
<1>3. ASSUME NEW c \in CPU, Wake(c) PROVE WakingInv'
  BY <1>3, BranchSteps, ReadOnRqStep, ReadTaskRqStep, SetWakingStep, SelectCpuStep,
     AddToWakeListStep DEF Wake
<1>4. ASSUME NEW c \in CPU, Pending(c) \/ TakeIpi(c) \/ QueueNew(c) \/ AttachQueued(c)
      PROVE  WakingInv'
  BY <1>4, LockPendingStep, WakePendingStep, FinishPendingStep, TakeIpiStep, QueueNewStep,
     AttachQueuedStep DEF Pending
<1>5. ASSUME NEW c \in CPU, NEW v \in BOOLEAN, EnterSchedule(c, v) PROVE WakingInv'
  BY <1>5, EnterScheduleStep
<1>6. ASSUME NEW c \in CPU, NEW t \in Task,
             SetState(c, t) \/ CheckCondition(c, t) \/ Exit(c, t) \/ StartNew(c, t)
      PROVE  WakingInv'
  BY <1>6, SetStateStep, ConditionMetStep, ConditionUnmetStep, ExitStep, StartNewStep
<1>7. ASSUME NEW c \in CPU, NEW t \in Task, NEW b \in BOOLEAN, StartWake(c, t, b)
      PROVE  WakingInv'
  BY <1>7, StartWakeSelfStep, StartWakeOtherStep
<1>8. ASSUME NEW c \in CPU, NEW t \in Task, NEW d \in CPU, DetachQueued(c, t, d)
      PROVE  WakingInv'
  BY <1>8, DetachQueuedStep
<1> QED
  BY <1>1, <1>2, <1>3, <1>4, <1>5, <1>6, <1>7, <1>8 DEF Next, Progress

-----------------------------------------------------------------------------
(* At the start nothing runs and every task that exists is asleep.         *)
LEMMA InitWaking ==
  ASSUME Init
  PROVE  WakingInv
<1>. USE IdleAssumption, NoCpuAssumption, AllowedAssumption, SleepAssumption
<1>. USE DEF Init, PC, RqHeld, Matched, Waking, PiHeld, States, NotRunning, Sleeping
<1>1. TypeInv
  BY DEF TypeInv
<1>2. LockInv
  BY DEF LockInv
<1>3. PlaceInv
  BY DEF PlaceInv, RunsOn
<1>4. StateInv
  BY DEF StateInv
<1>5. WakeInv
  BY DEF WakeInv, Listed
<1>6. MoveInv
  BY DEF MoveInv
<1>7. LocInv
  BY DEF LocInv
<1>8. DropInv
  BY DEF DropInv
<1>9. HandledInv
  BY DEF HandledInv
<1> QED
  BY <1>1, <1>2, <1>3, <1>4, <1>5, <1>6, <1>7, <1>8, <1>9 DEF WakingInv

-----------------------------------------------------------------------------
(* The counters.  A task that blocked for I/O counts until the wakeup has  *)
(* given its nr_iowait back.                                               *)
Given(t) ==
  \E c \in CPU : \/ tgt[c] = t /\ pc[c] = "w_queue" /\ moved[c]
                 \/ remote[t] /\ (t \in Listed(c) \/ (tgt[c] = t /\ pc[c] = "w_list"))
Waits(c) == {t \in Task : onRq[t] = "off" /\ iowait[t] /\ ~Given(t) /\ taskCpu[t] = c}
Uninterruptible == {t \in Task : onRq[t] = "off" /\ contrib[t]}

FlagInv ==
  /\ \A t \in Task : contrib[t] /\ onRq[t] = "off" => state[t] \in Sleeping \cup {"WAKING"}
  /\ \A t \in Task : state[t] = "NEW" => ~contrib[t] /\ ~iowait[t]
  /\ \A c \in CPU : pc[c] = "n_queue" => ~contrib[tgt[c]] /\ ~iowait[tgt[c]]

RunningInv == nrRunning = [c \in CPU |-> Cardinality(queue[c])]
IowaitInv == nrIowait = [c \in CPU |-> Cardinality(Waits(c))]
UnintInv ==
  /\ nrUnint \in [CPU -> 0 .. UnintMod - 1]
  /\ \E k \in Int : Sum(nrUnint, CPU) = Cardinality(Uninterruptible) + k * UnintMod
CountInv == FlagInv /\ RunningInv /\ IowaitInv /\ UnintInv

(* What is counted is finite.                                              *)
LEMMA Counted ==
  ASSUME TypeInv
  PROVE  /\ \A c \in CPU : IsFiniteSet(queue[c]) /\ Cardinality(queue[c]) \in Nat
         /\ \A c \in CPU : IsFiniteSet(Waits(c)) /\ Cardinality(Waits(c)) \in Nat
         /\ IsFiniteSet(Uninterruptible) /\ Cardinality(Uninterruptible) \in Nat
<1>. USE FiniteAssumption
<1>1. \A c \in CPU : queue[c] \subseteq Task /\ Waits(c) \subseteq Task
  BY DEF TypeInv, Waits
<1>2. Uninterruptible \subseteq Task
  BY DEF Uninterruptible
<1> QED
  BY <1>1, <1>2, FS_Subset, FS_CardinalityType

(* nr_running is right while the queues stay.                              *)
LEMMA RunningSame ==
  ASSUME RunningInv, UNCHANGED <<queue, nrRunning>> PROVE RunningInv'
  BY DEF RunningInv

(* enqueue_task: one more queued, one more counted.                        *)
LEMMA RunningMore ==
  ASSUME TypeInv, RunningInv, NEW r \in CPU, NEW t \in Task, t \notin queue[r],
         queue' = [queue EXCEPT ![r] = @ \cup {t}],
         nrRunning' = [nrRunning EXCEPT ![r] = @ + 1]
  PROVE  RunningInv'
<1>1. Cardinality(queue[r] \cup {t}) = Cardinality(queue[r]) + 1
  BY Counted, FS_AddElement
<1>2. queue'[r] = queue[r] \cup {t} /\ \A c \in CPU \ {r} : queue'[c] = queue[c]
  BY DEF TypeInv
<1>3. \A c \in CPU : nrRunning'[c] = Cardinality(queue'[c])
  BY <1>1, <1>2 DEF RunningInv
<1> QED
  BY <1>3 DEF RunningInv

(* dequeue_task: one queued less, one counted less.                        *)
LEMMA RunningLess ==
  ASSUME TypeInv, RunningInv, NEW r \in CPU, NEW t \in queue[r],
         queue' = [queue EXCEPT ![r] = @ \ {t}],
         nrRunning' = [nrRunning EXCEPT ![r] = @ - 1]
  PROVE  RunningInv'
<1>1. Cardinality(queue[r] \ {t}) = Cardinality(queue[r]) - 1
  BY Counted, FS_RemoveElement
<1>2. queue'[r] = queue[r] \ {t} /\ \A c \in CPU \ {r} : queue'[c] = queue[c]
  BY DEF TypeInv
<1>3. \A c \in CPU : nrRunning'[c] = Cardinality(queue'[c])
  BY <1>1, <1>2 DEF RunningInv
<1> QED
  BY <1>3 DEF RunningInv

(* nr_iowait is right while the same tasks wait.                           *)
LEMMA IowaitSame ==
  ASSUME IowaitInv, UNCHANGED nrIowait, \A c \in CPU : Waits(c)' = Waits(c) PROVE IowaitInv'
  BY DEF IowaitInv

(* A task stops waiting for I/O.                                           *)
LEMMA IowaitLess ==
  ASSUME TypeInv, IowaitInv, NEW r \in CPU, NEW t \in Waits(r),
         Waits(r)' = Waits(r) \ {t}, \A c \in CPU \ {r} : Waits(c)' = Waits(c),
         nrIowait' = [nrIowait EXCEPT ![r] = @ - 1]
  PROVE  IowaitInv'
<1>1. Cardinality(Waits(r) \ {t}) = Cardinality(Waits(r)) - 1
  BY Counted, FS_RemoveElement
<1>2. \A c \in CPU : nrIowait'[c] = Cardinality(Waits(c)')
  BY <1>1 DEF IowaitInv
<1> QED
  BY <1>2 DEF IowaitInv

(* A task starts waiting for I/O.                                          *)
LEMMA IowaitMore ==
  ASSUME TypeInv, IowaitInv, NEW r \in CPU, NEW t \in Task, t \notin Waits(r),
         Waits(r)' = Waits(r) \cup {t}, \A c \in CPU \ {r} : Waits(c)' = Waits(c),
         nrIowait' = [nrIowait EXCEPT ![r] = @ + 1]
  PROVE  IowaitInv'
<1>1. Cardinality(Waits(r) \cup {t}) = Cardinality(Waits(r)) + 1
  BY Counted, FS_AddElement
<1>2. \A c \in CPU : nrIowait'[c] = Cardinality(Waits(c)')
  BY <1>1 DEF IowaitInv
<1> QED
  BY <1>2 DEF IowaitInv

(* nr_uninterruptible is right while the same tasks are blocked.           *)
LEMMA UnintSame ==
  ASSUME UnintInv, UNCHANGED nrUnint, Uninterruptible' = Uninterruptible PROVE UnintInv'
<1>1. Sum(nrUnint, CPU)' = Sum(nrUnint, CPU)
  BY DEF Sum, MapThenSumSet, MapThenFoldSet
<1> QED
  BY <1>1 DEF UnintInv

(* One counter goes up or down, modulo UnintMod, with the number of tasks. *)
LEMMA UnintChange ==
  ASSUME TypeInv, UnintInv, NEW r \in CPU, NEW d \in {-1, 1},
         nrUnint' = [nrUnint EXCEPT ![r] = (@ + d) % UnintMod],
         Cardinality(Uninterruptible)' = Cardinality(Uninterruptible) + d
  PROVE  UnintInv'
<1>. USE UnintModAssumption
<1>. DEFINE v == nrUnint[r] + d
<1>1. nrUnint \in [CPU -> Int] /\ v \in Int
  BY DEF UnintInv
<1>. HIDE DEF v
<1>2. PICK q \in Int : v = q * UnintMod + (v % UnintMod)
  <2>1. v = UnintMod * (v \div UnintMod) + (v % UnintMod) /\ v \div UnintMod \in Int
    BY <1>1
  <2>2. v = (v \div UnintMod) * UnintMod + (v % UnintMod)
    BY <2>1
  <2> QED
    BY <2>1, <2>2
<1>3. (v % UnintMod) \in 0 .. UnintMod - 1
  BY <1>1
<1>4. nrUnint'[r] = (v % UnintMod) /\ \A c \in CPU \ {r} : nrUnint'[c] = nrUnint[c]
  BY DEF v, UnintInv
<1>5. nrUnint' \in [CPU -> 0 .. UnintMod - 1]
  BY <1>3 DEF v, UnintInv
<1>6. Sum(nrUnint', CPU) = Sum(nrUnint, CPU) + nrUnint'[r] - nrUnint[r]
  <2>1. nrUnint' \in [CPU -> Int]
    BY <1>5
  <2>2. \A h \in [CPU -> Int] : (\A y \in CPU \ {r} : h[y] = nrUnint[y])
          => Sum(h, CPU) = Sum(nrUnint, CPU) + h[r] - nrUnint[r]
    BY <1>1, FiniteAssumption, SumChange
  <2> QED
    BY <1>4, <2>1, <2>2
<1>7. PICK k \in Int : Sum(nrUnint, CPU) = Cardinality(Uninterruptible) + k * UnintMod
  BY DEF UnintInv
<1>8. Sum(nrUnint, CPU)' = Sum(nrUnint', CPU)
  BY DEF Sum, MapThenSumSet, MapThenFoldSet
<1>9. Sum(nrUnint', CPU) = Cardinality(Uninterruptible)' + (k - q) * UnintMod
  <2>1. (k - q) * UnintMod = k * UnintMod - q * UnintMod
    OBVIOUS
  <2>2. nrUnint[r] \in Int /\ Cardinality(Uninterruptible) \in Int
    BY <1>1, Counted
  <2>3. v = nrUnint[r] + d /\ (v % UnintMod) \in Int /\ k * UnintMod \in Int /\ q * UnintMod \in Int
    BY <1>3 DEF v
  <2>4. Sum(nrUnint', CPU) = Cardinality(Uninterruptible) + k * UnintMod + nrUnint'[r] - nrUnint[r]
    BY <1>6, <1>7
  <2>5. nrUnint'[r] = nrUnint[r] + d - q * UnintMod
    BY <1>2, <1>4, <2>2, <2>3
  <2>6. Cardinality(Uninterruptible)' = Cardinality(Uninterruptible) + d
    OBVIOUS
  <2>. HIDE DEF v
  <2> QED
    BY <2>1, <2>2, <2>3, <2>4, <2>5, <2>6
<1>10. k - q \in Int
  OBVIOUS
<1> QED
  BY <1>5, <1>8, <1>9, <1>10 DEF UnintInv

(* A step of CPU c outside the queueing half of a wakeup gives nothing     *)
(* back.                                                                   *)
LEMMA GivenSame ==
  ASSUME NEW c \in CPU, pc[c] \notin {"w_queue", "w_list"}, pc'[c] \notin {"w_queue", "w_list"},
         \A d \in CPU \ {c} : pc'[d] = pc[d] /\ tgt'[d] = tgt[d] /\ moved'[d] = moved[d],
         \A d \in CPU : Listed(d)' = Listed(d), UNCHANGED remote
  PROVE  \A t \in Task : Given(t)' <=> Given(t)
  BY DEF Given

(* A step that queues nothing, blocks nothing and gives nothing back       *)
(* leaves the counters right.                                              *)
LEMMA QuietCount ==
  ASSUME WakingInv, CountInv, NEW c \in CPU,
         pc[c] \notin {"w_queue", "w_list"}, pc'[c] \notin {"w_queue", "w_list", "n_queue"},
         \A d \in CPU \ {c} : pc'[d] = pc[d] /\ tgt'[d] = tgt[d] /\ moved'[d] = moved[d],
         UNCHANGED <<onRq, taskCpu, contrib, remote, queue, counts, wakeList, batch>>,
         \A u \in Task : /\ onRq[u] = "off" => iowait'[u] = iowait[u]
                         /\ onRq[u] = "off" => state'[u] \in {state[u], "WAKING"}
                         /\ state'[u] = "NEW" => state[u] = "NEW" /\ iowait'[u] = iowait[u]
  PROVE  CountInv'
<1>1. \A d \in CPU : Listed(d)' = Listed(d)
  BY DEF Listed
<1>2. \A t \in Task : Given(t)' <=> Given(t)
  BY <1>1, GivenSame
<1>3. \A d \in CPU : Waits(d)' = Waits(d)
  BY <1>2 DEF Waits
<1>4. Uninterruptible' = Uninterruptible
  BY DEF Uninterruptible
<1>5. FlagInv'
  <2>1. \A d \in CPU : pc'[d] = "n_queue" => pc[d] = "n_queue" /\ tgt'[d] = tgt[d] /\ tgt[d] \in Task
    BY DEF WakingInv, LockInv, PiHeld
  <2>2. \A d \in CPU : pc'[d] = "n_queue" => iowait'[tgt[d]] = iowait[tgt[d]]
    BY <2>1 DEF WakingInv, StateInv
  <2> QED
    BY <2>1, <2>2 DEF FlagInv, CountInv
<1> QED
  BY <1>3, <1>4, <1>5, RunningSame, IowaitSame, UnintSame DEF CountInv, counts

(* The steps that no counter sees.                                         *)
Quiet(c) ==
  \/ LockSchedule(c) \/ Switch(c) \/ ReadPrevState(c) \/ FinishTask(c) \/ UnlockSchedule(c)
  \/ Match(c) \/ ReadOnRq(c) \/ ReadTaskRq(c) \/ WakeRunnable(c) \/ SetWaking(c)
  \/ LockPending(c) \/ FinishPending(c)
  \/ \E v \in BOOLEAN : EnterSchedule(c, v)
  \/ \E t \in Task : SetState(c, t) \/ CheckCondition(c, t) \/ Exit(c, t)
  \/ \E t \in Task, bySignal \in BOOLEAN : StartWake(c, t, bySignal)

(* Every quiet step is one of these.                                       *)
LEMMA QuietSteps ==
  ASSUME WakingInv, CountInv, NEW c \in CPU, Quiet(c)
  PROVE  CountInv'
<1>. USE DEF Goto, Return, Free, flags, user, locals
<1>1. /\ state \in [Task -> States] /\ iowait \in [Task -> BOOLEAN] /\ pc \in [CPU -> PC]
      /\ tgt \in [CPU -> Task \cup {Idle}] /\ moved \in [CPU -> BOOLEAN]
  BY DEF WakingInv, TypeInv
<1>2. \A d \in CPU : pc[d] \in PiHeld \cup {"w_match"} => tgt[d] \in Task
  BY DEF WakingInv, LockInv
<1>3. CASE LockSchedule(c)
  BY <1>1, <1>3, QuietCount DEF LockSchedule
<1>4. CASE Switch(c)
  BY <1>1, <1>4, QuietCount DEF Switch
<1>5. CASE ReadPrevState(c)
  BY <1>1, <1>5, QuietCount DEF ReadPrevState
<1>6. CASE FinishTask(c)
  BY <1>1, <1>6, QuietCount DEF FinishTask
<1>7. CASE UnlockSchedule(c)
  BY <1>1, <1>7, QuietCount DEF UnlockSchedule
<1>8. CASE Match(c)
  <2>1. CASE state[tgt[c]] \in mask[c]
    BY <1>1, <1>8, <2>1, QuietCount DEF Match
  <2>2. CASE state[tgt[c]] \notin mask[c]
    BY <1>1, <1>8, <2>2, QuietCount DEF Match
  <2> QED
    BY <2>1, <2>2
<1>9. CASE ReadOnRq(c)
  BY <1>1, <1>9, QuietCount DEF ReadOnRq
<1>10. CASE ReadTaskRq(c)
  BY <1>1, <1>10, QuietCount DEF ReadTaskRq
<1>11. CASE WakeRunnable(c)
  <2>1. CASE taskCpu[tgt[c]] # atCpu[c] \/ onRq[tgt[c]] = "migrating"
    BY <1>1, <1>11, <2>1, QuietCount DEF WakeRunnable
  <2>2. CASE ~(taskCpu[tgt[c]] # atCpu[c] \/ onRq[tgt[c]] = "migrating") /\ onRq[tgt[c]] = "queued"
    <3>1. /\ pc[c] = "w_runnable" /\ pc' = [pc EXCEPT ![c] = "run"]
          /\ state' = [state EXCEPT ![tgt[c]] = "RUNNING"]
          /\ tgt' = [tgt EXCEPT ![c] = Idle] /\ moved' = [moved EXCEPT ![c] = FALSE]
          /\ UNCHANGED <<onRq, taskCpu, flags, queue, counts, wakeList, batch>>
      BY <1>11, <2>2 DEF WakeRunnable
    <3> QED
      BY <1>1, <2>2, <3>1, QuietCount
  <2>3. CASE ~(taskCpu[tgt[c]] # atCpu[c] \/ onRq[tgt[c]] = "migrating") /\ onRq[tgt[c]] # "queued"
    BY <1>1, <1>11, <2>3, QuietCount DEF WakeRunnable
  <2> QED
    BY <2>1, <2>2, <2>3
<1>12. CASE SetWaking(c)
  BY <1>1, <1>12, QuietCount DEF SetWaking
<1>13. CASE LockPending(c)
  BY <1>1, <1>13, QuietCount DEF LockPending
<1>14. CASE FinishPending(c)
  BY <1>1, <1>14, QuietCount DEF FinishPending
<1>15. ASSUME NEW v \in BOOLEAN, EnterSchedule(c, v) PROVE CountInv'
  BY <1>1, <1>15, QuietCount DEF EnterSchedule
<1>16. ASSUME NEW t \in Task, curr[c] = t, pc[c] = "run"
       PROVE  onRq[t] = "queued"
  BY <1>16 DEF WakingInv, PlaceInv
<1>17. \A t \in Task : Sleep[t] # "NEW"
  BY SleepAssumption DEF Sleeping
<1>18. ASSUME NEW t \in Task, SetState(c, t) PROVE CountInv'
  <2>1. onRq[t] = "queued"
    BY <1>16, <1>18 DEF SetState, Running
  <2> QED
    BY <1>1, <1>17, <1>18, <2>1, QuietCount DEF SetState, Running
<1>19. ASSUME NEW t \in Task, CheckCondition(c, t) PROVE CountInv'
  <2>1. onRq[t] = "queued" /\ state[t] # "NEW" /\ pc[c] = "run"
    BY <1>16, <1>19 DEF CheckCondition, Running, WakingInv, StateInv, Sleeping
  <2>2. CASE cond[t] \/ Interrupted(t)
    BY <1>1, <1>19, <2>1, <2>2, QuietCount DEF CheckCondition
  <2>3. CASE ~(cond[t] \/ Interrupted(t))
    BY <1>1, <1>19, <2>1, <2>3, QuietCount DEF CheckCondition
  <2> QED
    BY <2>2, <2>3
<1>20. ASSUME NEW t \in Task, Exit(c, t) PROVE CountInv'
  <2>1. onRq[t] = "queued"
    BY <1>16, <1>20 DEF Exit, Running
  <2> QED
    BY <1>1, <1>20, <2>1, QuietCount DEF Exit, Running
<1>21. ASSUME NEW t \in Task, NEW bySignal \in BOOLEAN, StartWake(c, t, bySignal) PROVE CountInv'
  <2>1. CASE curr[c] = t
    <3>1. onRq[t] = "queued"
      BY <1>16, <1>21, <2>1 DEF StartWake
    <3>2. /\ pc[c] = "run" /\ UNCHANGED <<pc, tgt, moved>>
          /\ UNCHANGED <<onRq, taskCpu, flags, queue, counts, wakeList, batch>>
      BY <1>21, <2>1 DEF StartWake
    <3>3. \A u \in Task : state'[u] # state[u] => u = t /\ state'[u] = "RUNNING"
      BY <1>1, <1>21, <2>1 DEF StartWake
    <3> QED
      BY <1>1, <3>1, <3>2, <3>3, QuietCount
  <2>2. CASE curr[c] # t
    <3>1. /\ pc[c] = "run" /\ pc' = [pc EXCEPT ![c] = "w_match"] /\ tgt' = [tgt EXCEPT ![c] = t]
          /\ UNCHANGED <<state, onRq, taskCpu, flags, queue, counts, wakeList, batch, moved>>
      BY <1>21, <2>2 DEF StartWake
    <3> QED
      BY <1>1, <3>1, QuietCount
  <2> QED
    BY <2>1, <2>2
<1> QED
  BY <1>3, <1>4, <1>5, <1>6, <1>7, <1>8, <1>9, <1>10, <1>11, <1>12, <1>13, <1>14, <1>15,
     <1>18, <1>19, <1>20, <1>21 DEF Quiet


(* The holder of a pi_lock is the only one past the state test.            *)
LEMMA HoldsAlone ==
  ASSUME WakingInv, NEW c \in CPU, pc[c] \in PiHeld
  PROVE  /\ tgt[c] \in Task
         /\ \A d \in CPU \ {c} : tgt[d] = tgt[c] => pc[d] \notin PiHeld
  BY DEF WakingInv, LockInv

(* A task on a runqueue has given nothing back yet.                        *)
LEMMA OutsideWakeup ==
  ASSUME WakingInv, NEW t \in Task, onRq[t] # "off"
  PROVE  ~Given(t)
  BY DEF WakingInv, WakeInv, Given, Waking

(* A step that only hands a wakeup on leaves the counters right.           *)
LEMMA CountMoved ==
  ASSUME WakingInv, WakingInv', CountInv, NEW c \in CPU, NEW t \in Task,
         UNCHANGED <<state, onRq, contrib, iowait, queue, counts>>,
         \A u \in Task \ {t} : taskCpu'[u] = taskCpu[u] /\ (Given(u)' <=> Given(u)),
         Given(t)' <=> Given(t), taskCpu'[t] = taskCpu[t],
         \A d \in CPU : pc'[d] = "n_queue" => pc[d] = "n_queue" /\ tgt'[d] = tgt[d]
  PROVE  CountInv'
<1>1. \A d \in CPU : Waits(d)' = Waits(d)
  BY DEF Waits
<1>2. Uninterruptible' = Uninterruptible
  BY DEF Uninterruptible
<1>3. FlagInv'
  BY DEF FlagInv, CountInv
<1> QED
  BY <1>1, <1>2, <1>3, RunningSame, IowaitSame, UnintSame DEF CountInv, counts

(* Leaving the activation to a wake list gives nothing back.               *)
LEMMA ReadOnCpuCount ==
  ASSUME WakingInv, WakingInv', CountInv, NEW c \in CPU, ReadOnCpu(c)
  PROVE  CountInv'
<1>. USE DEF Goto, flags, user, locals
<1>1. /\ pc \in [CPU -> PC] /\ tgt \in [CPU -> Task \cup {Idle}] /\ remote \in [Task -> BOOLEAN]
      /\ pc[c] = "w_on_cpu" /\ pc[c] \in PiHeld
  BY DEF WakingInv, TypeInv, ReadOnCpu, PiHeld, Waking
<1>2. /\ tgt[c] \in Task
      /\ \A d \in CPU \ {c} : tgt[d] = tgt[c] => pc[d] \notin {"w_queue", "w_list"}
      /\ \A d \in CPU : tgt[c] \notin Listed(d)
  BY <1>1, HoldsAlone DEF WakingInv, WakeInv, PiHeld, Waking
<1>3. \A d \in CPU : Listed(d)' = Listed(d)
  BY DEF ReadOnCpu, Listed
<1>4. CASE onCpu[tgt[c]] /\ UseWakeList(c, tgt[c], taskCpu[tgt[c]])
  <2>1. /\ remote' = [remote EXCEPT ![tgt[c]] = FALSE] /\ pc' = [pc EXCEPT ![c] = "w_list"]
        /\ UNCHANGED <<state, onRq, taskCpu, contrib, iowait, queue, counts, wakeList, tgt, moved, batch>>
    BY <1>4 DEF ReadOnCpu, PutOnWakeList
  <2>2. ~Given(tgt[c])
    BY <1>1, <1>2 DEF Given
  <2>3. ~Given(tgt[c])'
    BY <1>1, <1>2, <2>1 DEF Given
  <2>4. \A u \in Task \ {tgt[c]} : Given(u)' <=> Given(u)
    BY <1>1, <1>2, <1>3, <2>1 DEF Given
  <2>5. \A d \in CPU : pc'[d] = "n_queue" => pc[d] = "n_queue" /\ tgt'[d] = tgt[d]
    BY <1>1, <2>1
  <2> QED
    BY <1>2, <2>1, <2>2, <2>3, <2>4, <2>5, CountMoved DEF counts
<1>5. CASE ~(onCpu[tgt[c]] /\ UseWakeList(c, tgt[c], taskCpu[tgt[c]]))
  BY <1>1, <1>5, QuietCount DEF ReadOnCpu, counts
<1> QED
  BY <1>4, <1>5

(* Adding the entry to the wake list gives nothing back.                   *)
LEMMA AddCount ==
  ASSUME WakingInv, WakingInv', CountInv, NEW c \in CPU, AddToWakeList(c)
  PROVE  CountInv'
<1>. USE DEF Goto, Return, flags, user, locals
<1>1. /\ pc \in [CPU -> PC] /\ tgt \in [CPU -> Task \cup {Idle}] /\ atCpu \in [CPU -> CPU]
      /\ wakeList \in [CPU -> SUBSET Task] /\ moved \in [CPU -> BOOLEAN]
      /\ pc[c] = "w_list" /\ pc[c] \in PiHeld
  BY DEF WakingInv, TypeInv, AddToWakeList, PiHeld, Waking
<1>2. PICK t \in Task :
        /\ t = tgt[c]
        /\ \A d \in CPU \ {c} : tgt[d] = t => pc[d] \notin {"w_queue", "w_list"}
        /\ \A d \in CPU : t \notin Listed(d)
  BY <1>1, HoldsAlone DEF WakingInv, WakeInv, PiHeld, Waking
<1>3. PICK r \in CPU :
        /\ wakeList' = [wakeList EXCEPT ![r] = @ \cup {t}]
        /\ pc' = [pc EXCEPT ![c] = "run"] /\ tgt' = [tgt EXCEPT ![c] = Idle]
        /\ moved' = [moved EXCEPT ![c] = FALSE]
        /\ UNCHANGED <<state, onRq, taskCpu, contrib, iowait, remote, queue, counts, batch>>
  BY <1>1, <1>2 DEF AddToWakeList
<1>4. \A u \in Task \ {t}, d \in CPU : u \in Listed(d)' <=> u \in Listed(d)
  BY <1>1, <1>3 DEF Listed
<1>5. t \in Listed(r)'
  BY <1>1, <1>3 DEF Listed
<1>6. Given(t) <=> remote[t]
  BY <1>1, <1>2 DEF Given
<1>7. Given(t)' <=> remote[t]
  BY <1>1, <1>2, <1>3, <1>5 DEF Given
<1>8. \A u \in Task \ {t} : Given(u)' <=> Given(u)
  BY <1>1, <1>2, <1>3, <1>4 DEF Given
<1>9. \A d \in CPU : pc'[d] = "n_queue" => pc[d] = "n_queue" /\ tgt'[d] = tgt[d]
  BY <1>1, <1>3
<1> QED
  BY <1>3, <1>6, <1>7, <1>8, <1>9, CountMoved DEF counts

(* Taking the wake list into a batch gives nothing back.                   *)
LEMMA TakeIpiCount ==
  ASSUME WakingInv, CountInv, NEW c \in CPU, TakeIpi(c)
  PROVE  CountInv'
<1>. USE DEF Goto, flags, user, locals, counts
<1>1. /\ pc \in [CPU -> PC] /\ wakeList \in [CPU -> SUBSET Task] /\ batch \in [CPU -> SUBSET Task]
      /\ pc[c] = "run" /\ batch[c] = {}
  BY DEF WakingInv, TypeInv, WakeInv, TakeIpi
<1>2. /\ batch' = [batch EXCEPT ![c] = wakeList[c]] /\ wakeList' = [wakeList EXCEPT ![c] = {}]
      /\ pc' = [pc EXCEPT ![c] = "i_lock"]
      /\ UNCHANGED <<state, onRq, taskCpu, contrib, iowait, remote, queue, counts, tgt, moved>>
  BY DEF TakeIpi
<1>3. \A d \in CPU : Listed(d)' = Listed(d)
  BY <1>1, <1>2 DEF Listed
<1>4. \A t \in Task : Given(t)' <=> Given(t)
  BY <1>1, <1>2, <1>3, GivenSame
<1>5. \A d \in CPU : Waits(d)' = Waits(d)
  BY <1>2, <1>4 DEF Waits
<1>6. Uninterruptible' = Uninterruptible
  BY <1>2 DEF Uninterruptible
<1>7. FlagInv'
  BY <1>1, <1>2 DEF FlagInv, CountInv
<1> QED
  BY <1>2, <1>5, <1>6, <1>7, RunningSame, IowaitSame, UnintSame DEF CountInv

(* A wakeup that migrates the task takes it out of the old runqueue's      *)
(* nr_iowait.                                                              *)
LEMMA SelectCount ==
  ASSUME WakingInv, WakingInv', CountInv, NEW c \in CPU, SelectCpu(c)
  PROVE  CountInv'
<1>. USE DEF Goto, flags, user, locals, counts
<1>1. /\ pc \in [CPU -> PC] /\ tgt \in [CPU -> Task \cup {Idle}] /\ moved \in [CPU -> BOOLEAN]
      /\ taskCpu \in [Task -> CPU] /\ iowait \in [Task -> BOOLEAN]
      /\ pc[c] = "w_select" /\ pc[c] \in PiHeld
  BY DEF WakingInv, TypeInv, SelectCpu, PiHeld, Waking
<1>2. PICK t \in Task, old \in CPU :
        /\ t = tgt[c] /\ old = taskCpu[t] /\ onRq[t] = "off"
        /\ \A d \in CPU \ {c} : tgt[d] = t => pc[d] \notin {"w_queue", "w_list"}
        /\ \A d \in CPU : t \notin Listed(d)
  BY <1>1, HoldsAlone DEF WakingInv, WakeInv, PiHeld, Waking
<1>3. PICK r \in CPU :
        /\ taskCpu' = [taskCpu EXCEPT ![t] = r]
        /\ moved' = [moved EXCEPT ![c] = r # old]
        /\ nrIowait' = IF r # old /\ iowait[t] THEN [nrIowait EXCEPT ![old] = @ - 1] ELSE nrIowait
  BY <1>2, AllowedAssumption DEF SelectCpu, set_task_cpu
<1>4. /\ pc' = [pc EXCEPT ![c] = "w_queue"]
      /\ UNCHANGED <<state, onRq, contrib, iowait, remote, queue, nrRunning, nrUnint, wakeList, tgt, batch>>
  BY DEF SelectCpu
<1>5. \A d \in CPU : Listed(d)' = Listed(d)
  BY <1>4 DEF Listed
<1>6. \A u \in Task \ {t} : Given(u)' <=> Given(u)
  BY <1>1, <1>2, <1>3, <1>4, <1>5 DEF Given
<1>7. ~Given(t) /\ (Given(t)' <=> r # old)
  BY <1>1, <1>2, <1>3, <1>4, <1>5 DEF Given
<1>8. \A u \in Task \ {t} : taskCpu'[u] = taskCpu[u]
  BY <1>1, <1>3
<1>9. \A d \in CPU : Waits(d)' = IF r # old THEN Waits(d) \ {t} ELSE Waits(d)
  <2>1. r = old => taskCpu'[t] = old
    BY <1>1, <1>3
  <2>2. \A u \in Task, d \in CPU : u \in Waits(d)' <=> u \in IF r # old THEN Waits(d) \ {t} ELSE Waits(d)
    BY <1>2, <1>4, <1>6, <1>7, <1>8, <2>1 DEF Waits
  <2>3. \A d \in CPU : Waits(d) \subseteq Task /\ Waits(d)' \subseteq Task
    BY DEF Waits
  <2> QED
    BY <2>2, <2>3
<1>10. \A d \in CPU : t \in Waits(d) <=> (iowait[t] /\ d = old)
  BY <1>1, <1>2, <1>7 DEF Waits
<1>11. IowaitInv'
  <2>1. CASE r # old /\ iowait[t]
    <3>1. t \in Waits(old) /\ Waits(old)' = Waits(old) \ {t}
      BY <1>2, <1>9, <1>10, <2>1
    <3>2. ASSUME NEW d \in CPU \ {old} PROVE Waits(d)' = Waits(d)
      <4>1. t \notin Waits(d)
        BY <1>10
      <4> QED
        BY <1>9, <4>1
    <3>3. nrIowait' = [nrIowait EXCEPT ![old] = @ - 1]
      BY <1>3, <2>1
    <3> QED
      BY <1>2, <3>1, <3>2, <3>3, IowaitLess DEF WakingInv, CountInv
  <2>2. CASE ~(r # old /\ iowait[t])
    <3>1. \A d \in CPU : Waits(d)' = Waits(d)
      BY <1>9, <1>10, <2>2
    <3> QED
      BY <1>3, <2>2, <3>1, IowaitSame DEF CountInv
  <2> QED
    BY <2>1, <2>2
<1>12. Uninterruptible' = Uninterruptible
  BY <1>4 DEF Uninterruptible
<1>13. FlagInv'
  BY <1>1, <1>4 DEF FlagInv, CountInv
<1> QED
  BY <1>4, <1>11, <1>12, <1>13, RunningSame, UnintSame DEF CountInv


(* A task gets on the runqueue it waits for: what it counted for on the    *)
(* way is given back, unless the wakeup has done so.                       *)
LEMMA WokenCount ==
  ASSUME WakingInv, WakingInv', CountInv, NEW r \in CPU, NEW t \in Task, NEW migrated \in BOOLEAN,
         onRq[t] = "off", taskCpu[t] = r, t \notin queue[r],
         iowait[t] => (Given(t) <=> migrated),
         onRq' = [onRq EXCEPT ![t] = "queued"], queue' = [queue EXCEPT ![r] = @ \cup {t}],
         nrRunning' = [nrRunning EXCEPT ![r] = @ + 1],
         nrUnint' = [nrUnint EXCEPT ![r] = IF contrib[t] THEN (@ - 1) % UnintMod ELSE @],
         nrIowait' = [nrIowait EXCEPT ![r] = IF ~migrated /\ iowait[t] THEN @ - 1 ELSE @],
         \A u \in Task \ {t} : taskCpu'[u] = taskCpu[u] /\ (Given(u)' <=> Given(u)),
         UNCHANGED <<contrib, iowait>>, FlagInv'
  PROVE  CountInv'
<1>. USE DEF WakingInv, TypeInv
<1>1. \A d \in CPU : Waits(d)' = Waits(d) \ {t}
  BY DEF Waits
<1>2. \A d \in CPU : t \in Waits(d) <=> (d = r /\ iowait[t] /\ ~migrated)
  BY DEF Waits
<1>3. IowaitInv'
  <2>1. CASE iowait[t] /\ ~migrated
    <3>1. nrIowait' = [nrIowait EXCEPT ![r] = @ - 1]
      BY <2>1
    <3>2. \A d \in CPU \ {r} : t \notin Waits(d)
      BY <1>2
    <3>3. ASSUME NEW d \in CPU \ {r} PROVE Waits(d)' = Waits(d)
      <4>1. t \notin Waits(d)
        BY <3>2
      <4>2. Waits(d) \ {t} = Waits(d)
        BY <4>1
      <4> QED
        BY <1>1, <4>2
    <3>4. t \in Waits(r) /\ Waits(r)' = Waits(r) \ {t}
      BY <1>1, <1>2, <2>1
    <3> QED
      BY <3>1, <3>3, <3>4, IowaitLess DEF CountInv
  <2>2. CASE ~(iowait[t] /\ ~migrated)
    <3>1. nrIowait' = nrIowait
      BY <2>2 DEF CountInv, IowaitInv
    <3>2. \A d \in CPU : t \notin Waits(d)
      BY <1>2, <2>2
    <3>3. ASSUME NEW d \in CPU PROVE Waits(d)' = Waits(d)
      <4>1. t \notin Waits(d)
        BY <3>2
      <4>2. Waits(d) \ {t} = Waits(d)
        BY <4>1
      <4> QED
        BY <1>1, <4>2
    <3> QED
      BY <3>1, <3>3, IowaitSame DEF CountInv
  <2> QED
    BY <2>1, <2>2
<1>4. Uninterruptible' = Uninterruptible \ {t}
  BY DEF Uninterruptible
<1>5. t \in Uninterruptible <=> contrib[t]
  BY DEF Uninterruptible
<1>6. UnintInv'
  <2>1. CASE contrib[t]
    <3>1. Cardinality(Uninterruptible \ {t}) = Cardinality(Uninterruptible) - 1
      BY <1>5, <2>1, Counted, FS_RemoveElement
    <3>2. nrUnint' = [nrUnint EXCEPT ![r] = (@ + (-1)) % UnintMod]
      BY <2>1 DEF CountInv, UnintInv
    <3>3. Cardinality(Uninterruptible)' = Cardinality(Uninterruptible) + (-1)
      BY <1>4, <3>1, Counted
    <3> QED
      BY <3>2, <3>3, UnintChange DEF CountInv
  <2>2. CASE ~contrib[t]
    <3>1. nrUnint' = nrUnint
      BY <2>2 DEF CountInv, UnintInv
    <3>2. Uninterruptible' = Uninterruptible
      BY <1>4, <1>5, <2>2
    <3> QED
      BY <3>1, <3>2, UnintSame DEF CountInv
  <2> QED
    BY <2>1, <2>2
<1>7. RunningInv'
  BY RunningMore DEF CountInv
<1> QED
  BY <1>3, <1>6, <1>7 DEF CountInv

(* ttwu_queue counts a task in exactly once, or leaves that to the wake    *)
(* list.                                                                   *)
LEMMA QueueWokenCount ==
  ASSUME WakingInv, WakingInv', CountInv, NEW c \in CPU, QueueWoken(c)
  PROVE  CountInv'
<1>. USE DEF Goto, Return, flags, user, locals
<1>1. /\ pc \in [CPU -> PC] /\ tgt \in [CPU -> Task \cup {Idle}] /\ atCpu \in [CPU -> CPU]
      /\ moved \in [CPU -> BOOLEAN] /\ remote \in [Task -> BOOLEAN] /\ state \in [Task -> States]
      /\ pc[c] = "w_queue" /\ pc[c] \in PiHeld
  BY DEF WakingInv, TypeInv, QueueWoken, PiHeld, Waking
<1>2. PICK t \in Task, r \in CPU :
        /\ t = tgt[c] /\ r = atCpu[c] /\ onRq[t] = "off" /\ taskCpu[t] = r
        /\ \A d \in CPU \ {c} : tgt[d] = t => pc[d] \notin {"w_queue", "w_list", "n_queue"}
        /\ \A d \in CPU : t \notin Listed(d)
  BY <1>1, HoldsAlone DEF WakingInv, WakeInv, PiHeld, Waking
<1>3. Given(t) <=> moved[c]
  BY <1>1, <1>2 DEF Given
<1>4. CASE UseWakeList(c, t, r)
  <2>1. /\ remote' = [remote EXCEPT ![t] = moved[c]] /\ pc' = [pc EXCEPT ![c] = "w_list"]
        /\ UNCHANGED <<state, onRq, taskCpu, contrib, iowait, queue, counts, wakeList, tgt, moved, batch>>
    BY <1>2, <1>4 DEF QueueWoken, PutOnWakeList
  <2>2. \A d \in CPU : Listed(d)' = Listed(d)
    BY <2>1 DEF Listed
  <2>3. Given(t)' <=> moved[c]
    BY <1>1, <1>2, <2>1, <2>2 DEF Given
  <2>4. \A u \in Task \ {t} : Given(u)' <=> Given(u)
    BY <1>1, <1>2, <2>1, <2>2 DEF Given
  <2>5. \A d \in CPU : pc'[d] = "n_queue" => pc[d] = "n_queue" /\ tgt'[d] = tgt[d]
    BY <1>1, <2>1
  <2> QED
    BY <1>3, <2>1, <2>3, <2>4, <2>5, CountMoved DEF counts
<1>5. CASE ~UseWakeList(c, t, r)
  <2>1. /\ pc' = [pc EXCEPT ![c] = "run"] /\ tgt' = [tgt EXCEPT ![c] = Idle]
        /\ moved' = [moved EXCEPT ![c] = FALSE] /\ state' = [state EXCEPT ![t] = "RUNNING"]
        /\ UNCHANGED <<taskCpu, contrib, iowait, remote, wakeList, batch>>
    BY <1>2, <1>5 DEF QueueWoken, WakeOn
  <2>2. /\ onRq' = [onRq EXCEPT ![t] = "queued"] /\ queue' = [queue EXCEPT ![r] = @ \cup {t}]
        /\ nrRunning' = [nrRunning EXCEPT ![r] = @ + 1]
        /\ nrUnint' = [nrUnint EXCEPT ![r] = IF contrib[t] THEN (@ - 1) % UnintMod ELSE @]
        /\ nrIowait' = [nrIowait EXCEPT ![r] = IF ~moved[c] /\ iowait[t] THEN @ - 1 ELSE @]
    BY <1>2, <1>5 DEF QueueWoken, WakeOn, Enqueue
  <2>3. t \notin queue[r]
    BY <1>2 DEF WakingInv, PlaceInv
  <2>4. \A d \in CPU : Listed(d)' = Listed(d)
    BY <2>1 DEF Listed
  <2>5. \A u \in Task \ {t} : Given(u)' <=> Given(u)
    BY <1>1, <1>2, <2>1, <2>4 DEF Given
  <2>6. FlagInv'
    <3>1. \A d \in CPU : pc'[d] = "n_queue" => pc[d] = "n_queue" /\ tgt'[d] = tgt[d]
      BY <1>1, <2>1
    <3>2. \A u \in Task \ {t} : onRq'[u] = onRq[u] /\ state'[u] = state[u]
      BY <1>1, <2>1, <2>2 DEF WakingInv, TypeInv
    <3>3. onRq'[t] = "queued" /\ state'[t] = "RUNNING"
      BY <1>1, <2>1, <2>2 DEF WakingInv, TypeInv
    <3> QED
      BY <2>1, <3>1, <3>2, <3>3 DEF FlagInv, CountInv
  <2> QED
    BY <1>1, <1>2, <1>3, <2>1, <2>2, <2>3, <2>5, <2>6, WokenCount
<1> QED
  BY <1>4, <1>5

(* sched_ttwu_pending takes the entry's counts back, nr_iowait only if the *)
(* waker has not.                                                          *)
LEMMA WakePendingCount ==
  ASSUME WakingInv, WakingInv', CountInv, NEW c \in CPU, WakePending(c)
  PROVE  CountInv'
<1>. USE DEF flags, user, locals
<1>1. /\ pc \in [CPU -> PC] /\ tgt \in [CPU -> Task \cup {Idle}] /\ batch \in [CPU -> SUBSET Task]
      /\ taskCpu \in [Task -> CPU] /\ remote \in [Task -> BOOLEAN] /\ state \in [Task -> States]
      /\ pc[c] = "i_wake"
  BY DEF WakingInv, TypeInv, WakePending
<1>2. PICK t \in batch[c] :
        /\ taskCpu' = [taskCpu EXCEPT ![t] = c] /\ state' = [state EXCEPT ![t] = "RUNNING"]
        /\ batch' = [batch EXCEPT ![c] = @ \ {t}]
        /\ onRq' = [onRq EXCEPT ![t] = "queued"] /\ queue' = [queue EXCEPT ![c] = @ \cup {t}]
        /\ nrRunning' = [nrRunning EXCEPT ![c] = @ + 1]
        /\ nrUnint' = [nrUnint EXCEPT ![c] = IF contrib[t] THEN (@ - 1) % UnintMod ELSE @]
        /\ nrIowait' = [nrIowait EXCEPT ![c] = IF ~remote[t] /\ iowait[t] THEN @ - 1 ELSE @]
  BY DEF WakePending, WakeOn, Enqueue, set_task_cpu
<1>3. UNCHANGED <<contrib, iowait, remote, wakeList, pc, tgt, moved>>
  BY DEF WakePending
<1>4. t \in Task /\ onRq[t] = "off" /\ taskCpu[t] = c /\ t \in Listed(c) /\ state[t] = "WAKING"
  BY <1>1 DEF WakingInv, WakeInv, Listed
<1>5. \A d \in CPU : tgt[d] = t => pc[d] \notin {"w_queue", "w_list", "n_queue"}
  BY <1>4 DEF WakingInv, WakeInv, StateInv, Waking
<1>6. Given(t) <=> remote[t]
  BY <1>4, <1>5 DEF Given
<1>7. \A u \in Task \ {t}, d \in CPU : u \in Listed(d)' <=> u \in Listed(d)
  BY <1>1, <1>2, <1>3 DEF Listed
<1>8. \A u \in Task \ {t} : Given(u)' <=> Given(u)
  BY <1>3, <1>7 DEF Given
<1>9. t \notin queue[c]
  BY <1>4 DEF WakingInv, PlaceInv
<1>10. FlagInv'
  <2>1. \A u \in Task \ {t} : onRq'[u] = onRq[u] /\ state'[u] = state[u]
    BY <1>1, <1>2 DEF WakingInv, TypeInv
  <2>2. onRq'[t] = "queued" /\ state'[t] = "RUNNING"
    BY <1>1, <1>2, <1>4 DEF WakingInv, TypeInv
  <2> QED
    BY <1>3, <2>1, <2>2 DEF FlagInv, CountInv
<1>11. \A u \in Task \ {t} : taskCpu'[u] = taskCpu[u]
  BY <1>1, <1>2
<1>12. remote[t] \in BOOLEAN
  BY <1>1, <1>4
<1> QED
  BY <1>2, <1>3, <1>4, <1>6, <1>8, <1>9, <1>10, <1>11, <1>12, WokenCount


(* A task that blocks is counted in, once, on the runqueue it leaves.      *)
LEMMA BlockCount ==
  ASSUME WakingInv, WakingInv', CountInv, NEW c \in CPU, Block(c)
  PROVE  CountInv'
<1>. USE DEF Goto, flags, user, locals
<1>1. /\ pc \in [CPU -> PC] /\ tgt \in [CPU -> Task \cup {Idle}] /\ state \in [Task -> States]
      /\ onRq \in [Task -> {"off", "queued", "migrating"}] /\ queue \in [CPU -> SUBSET Task]
      /\ contrib \in [Task -> BOOLEAN] /\ iowait \in [Task -> BOOLEAN]
      /\ mask[c] \in {{}, {"INTERRUPTIBLE"}, Sleeping, NotRunning}
      /\ pc[c] = "s_block"
  BY DEF WakingInv, TypeInv, Block
<1>2. pc' = [pc EXCEPT ![c] = "s_switch"] /\ UNCHANGED <<taskCpu, iowait, remote, wakeList, locals>>
  BY <1>1 DEF Block
<1>3. \A d \in CPU : Listed(d)' = Listed(d)
  BY <1>2 DEF Listed
<1>4. \A u \in Task : Given(u)' <=> Given(u)
  BY <1>1, <1>2, <1>3, GivenSame
<1>5. CASE seen[c] \notin mask[c]
  BY <1>1, <1>5, QuietCount DEF Block, counts
<1>6. CASE seen[c] \in mask[c] /\ seen[c] = "INTERRUPTIBLE" /\ signal[tgt[c]]
  <2>1. tgt[c] \in Task => onRq[tgt[c]] = "queued"
    BY <1>1 DEF WakingInv, PlaceInv
  <2>2. /\ state' = [state EXCEPT ![tgt[c]] = "RUNNING"] /\ pc' = [pc EXCEPT ![c] = "s_switch"]
        /\ UNCHANGED <<onRq, taskCpu, contrib, iowait, remote, queue, counts, wakeList, tgt, moved, batch>>
    BY <1>6 DEF Block
  <2>3. \A u \in Task : state'[u] # state[u] => u = tgt[c] /\ state'[u] = "RUNNING"
    BY <1>1, <2>2
  <2> QED
    BY <1>1, <2>1, <2>2, <2>3, QuietCount DEF counts
<1>7. CASE seen[c] \in mask[c] /\ ~(seen[c] = "INTERRUPTIBLE" /\ signal[tgt[c]])
  <2>1. seen[c] # "RUNNING"
    BY <1>1, <1>7 DEF Sleeping, NotRunning
  <2>2. PICK t \in Task : t = tgt[c] /\ seen[c] = state[t] /\ t = curr[c]
    BY <1>1, <2>1 DEF WakingInv, StateInv, PlaceInv, TypeInv
  <2>3. onRq[t] = "queued" /\ taskCpu[t] = c /\ t \in queue[c]
    BY <1>1, <2>2 DEF WakingInv, PlaceInv, RunsOn
  <2>4. /\ contrib' = [contrib EXCEPT ![t] = seen[c] = "UNINTERRUPTIBLE"]
        /\ nrUnint' = [nrUnint EXCEPT ![c] =
                         IF seen[c] = "UNINTERRUPTIBLE" THEN (@ + 1) % UnintMod ELSE @]
        /\ nrIowait' = [nrIowait EXCEPT ![c] = IF iowait[t] THEN @ + 1 ELSE @]
        /\ queue' = [queue EXCEPT ![c] = @ \ {t}] /\ onRq' = [onRq EXCEPT ![t] = "off"]
        /\ nrRunning' = [nrRunning EXCEPT ![c] = @ - 1] /\ UNCHANGED state
    BY <1>7, <2>2 DEF Block, Dequeue
  <2>5. ~Given(t)
    BY <2>3, OutsideWakeup
  <2>6. \A d \in CPU : Waits(d)' = IF d = c /\ iowait[t] THEN Waits(d) \cup {t} ELSE Waits(d)
    <3>1. \A u \in Task, d \in CPU :
            u \in Waits(d)' <=> (u \in Waits(d) \/ (u = t /\ d = c /\ iowait[t]))
      BY <1>1, <1>2, <1>4, <2>3, <2>4, <2>5 DEF Waits
    <3>2. \A d \in CPU : Waits(d) \subseteq Task /\ Waits(d)' \subseteq Task
      BY DEF Waits
    <3> QED
      BY <3>1, <3>2
  <2>7. IowaitInv'
    <3>1. CASE iowait[t]
      <4>1. t \notin Waits(c)
        BY <2>3 DEF Waits
      <4>2. nrIowait' = [nrIowait EXCEPT ![c] = @ + 1]
        BY <2>4, <3>1
      <4> QED
        BY <2>6, <3>1, <4>1, <4>2, IowaitMore DEF WakingInv, CountInv
    <3>2. CASE ~iowait[t]
      <4>1. nrIowait' = nrIowait
        BY <2>4, <3>2 DEF CountInv, IowaitInv
      <4> QED
        BY <2>6, <3>2, <4>1, IowaitSame DEF CountInv
    <3> QED
      BY <3>1, <3>2
  <2>8. t \notin Uninterruptible
    BY <2>3 DEF Uninterruptible
  <2>9. UnintInv'
    <3>1. \A u \in Task : u \in Uninterruptible'
            <=> (u \in Uninterruptible \/ (u = t /\ seen[c] = "UNINTERRUPTIBLE"))
      BY <1>1, <2>4, <2>3 DEF Uninterruptible
    <3>2. Uninterruptible \subseteq Task /\ Uninterruptible' \subseteq Task
      BY DEF Uninterruptible
    <3>3. CASE seen[c] = "UNINTERRUPTIBLE"
      <4>1. Uninterruptible' = Uninterruptible \cup {t}
        BY <3>1, <3>2, <3>3
      <4>2. Cardinality(Uninterruptible \cup {t}) = Cardinality(Uninterruptible) + 1
        BY <2>8, Counted, FS_AddElement DEF WakingInv
      <4>3. nrUnint' = [nrUnint EXCEPT ![c] = (@ + 1) % UnintMod]
        BY <2>4, <3>3
      <4> QED
        BY <4>1, <4>2, <4>3, UnintChange DEF WakingInv, CountInv
    <3>4. CASE seen[c] # "UNINTERRUPTIBLE"
      <4>1. Uninterruptible' = Uninterruptible
        BY <3>1, <3>2, <3>4
      <4>2. nrUnint' = nrUnint
        BY <2>4, <3>4 DEF CountInv, UnintInv
      <4> QED
        BY <4>1, <4>2, UnintSame DEF CountInv
    <3> QED
      BY <3>3, <3>4
  <2>10. RunningInv'
    BY <2>3, <2>4, RunningLess DEF WakingInv, CountInv
  <2>11. FlagInv'
    <3>1. \A d \in CPU : pc'[d] = "n_queue" => pc[d] = "n_queue" /\ tgt'[d] = tgt[d] /\ tgt[d] # t
      BY <1>1, <1>2, <2>3 DEF WakingInv, StateInv, locals
    <3>2. \A u \in Task \ {t} : onRq'[u] = onRq[u] /\ contrib'[u] = contrib[u]
      BY <1>1, <2>4
    <3>3. contrib'[t] => state[t] = "UNINTERRUPTIBLE"
      BY <1>1, <2>2, <2>4
    <3>4. state[t] # "NEW"
      BY <2>3 DEF WakingInv, StateInv, Sleeping
    <3>5. \A d \in CPU : pc[d] = "n_queue" => tgt[d] \in Task
      BY DEF WakingInv, LockInv, PiHeld
    <3> QED
      BY <1>2, <2>4, <3>1, <3>2, <3>3, <3>4, <3>5 DEF FlagInv, CountInv, Sleeping
  <2> QED
    BY <2>7, <2>9, <2>10, <2>11 DEF CountInv
<1> QED
  BY <1>5, <1>6, <1>7

(* A new task, and one that is moved, counts for nothing but nr_running.   *)
LEMMA StartNewCount ==
  ASSUME WakingInv, CountInv, NEW c \in CPU, NEW t \in Task, StartNew(c, t)
  PROVE  CountInv'
<1>. USE DEF Goto, flags, user, locals
<1>1. /\ pc \in [CPU -> PC] /\ tgt \in [CPU -> Task \cup {Idle}] /\ state \in [Task -> States]
      /\ taskCpu \in [Task -> CPU] /\ pc[c] = "run" /\ state[t] = "NEW"
  BY DEF WakingInv, TypeInv, StartNew
<1>2. ~contrib[t] /\ ~iowait[t] /\ onRq[t] = "off"
  <2>1. onRq[t] = "off"
    BY <1>1 DEF WakingInv, StateInv, Sleeping
  <2> QED
    BY <1>1, <2>1 DEF CountInv, FlagInv
<1>3. /\ pc' = [pc EXCEPT ![c] = "n_queue"] /\ tgt' = [tgt EXCEPT ![c] = t]
      /\ state' = [state EXCEPT ![t] = "RUNNING"]
      /\ UNCHANGED <<onRq, contrib, iowait, remote, queue, counts, wakeList, moved, batch>>
  BY DEF StartNew
<1>4. \A u \in Task \ {t} : taskCpu'[u] = taskCpu[u]
  BY <1>1 DEF StartNew, set_task_cpu
<1>5. \A d \in CPU : Listed(d)' = Listed(d)
  BY <1>3 DEF Listed
<1>6. \A u \in Task : Given(u)' <=> Given(u)
  BY <1>1, <1>3, <1>5, GivenSame
<1>7. \A d \in CPU : Waits(d)' = Waits(d)
  BY <1>2, <1>3, <1>4, <1>6 DEF Waits
<1>8. Uninterruptible' = Uninterruptible
  BY <1>3 DEF Uninterruptible
<1>9. FlagInv'
  BY <1>1, <1>2, <1>3 DEF FlagInv, CountInv
<1> QED
  BY <1>3, <1>7, <1>8, <1>9, RunningSame, IowaitSame, UnintSame DEF CountInv, counts

(* activate_task of a task that waits for nothing.                         *)
LEMMA EnqueueCount ==
  ASSUME WakingInv, CountInv, NEW c \in CPU, NEW t \in Task, NEW r \in CPU,
         pc[c] \in {"n_queue", "m_attach"}, t = tgt[c], taskCpu[t] = r,
         pc[c] = "n_queue" => onRq[t] = "off" /\ ~contrib[t] /\ ~iowait[t],
         pc[c] = "m_attach" => onRq[t] = "migrating",
         pc' = [pc EXCEPT ![c] = "run"], tgt' = [tgt EXCEPT ![c] = Idle],
         moved' = [moved EXCEPT ![c] = FALSE],
         queue' = [queue EXCEPT ![r] = @ \cup {t}], onRq' = [onRq EXCEPT ![t] = "queued"],
         nrRunning' = [nrRunning EXCEPT ![r] = @ + 1],
         UNCHANGED <<state, taskCpu, flags, nrUnint, nrIowait, wakeList, batch>>
  PROVE  CountInv'
<1>. USE DEF flags
<1>1. /\ pc \in [CPU -> PC] /\ tgt \in [CPU -> Task \cup {Idle}] /\ moved \in [CPU -> BOOLEAN]
      /\ onRq \in [Task -> {"off", "queued", "migrating"}]
  BY DEF WakingInv, TypeInv
<1>2. \A d \in CPU : Listed(d)' = Listed(d)
  BY DEF Listed
<1>3. \A u \in Task : Given(u)' <=> Given(u)
  BY <1>1, <1>2, GivenSame
<1>4. \A u \in Task \ {t} : onRq'[u] = onRq[u]
  BY <1>1
<1>5. onRq'[t] = "queued"
  BY <1>1
<1>6. \A d \in CPU : Waits(d)' = Waits(d)
  BY <1>3, <1>4, <1>5 DEF Waits
<1>7. Uninterruptible' = Uninterruptible
  BY <1>4, <1>5 DEF Uninterruptible
<1>8. t \notin queue[r]
  BY DEF WakingInv, PlaceInv
<1>9. RunningInv'
  BY <1>8, RunningMore DEF WakingInv, CountInv
<1>10. FlagInv'
  BY <1>1, <1>4, <1>5 DEF FlagInv, CountInv
<1> QED
  BY <1>6, <1>7, <1>9, <1>10, IowaitSame, UnintSame DEF CountInv

(* A new task was never counted as waiting.                                *)
LEMMA QueueNewCount ==
  ASSUME WakingInv, CountInv, NEW c \in CPU, QueueNew(c)
  PROVE  CountInv'
<1>1. PICK t \in Task, r \in CPU :
        /\ t = tgt[c] /\ r = atCpu[c] /\ taskCpu[t] = r /\ pc[c] = "n_queue" /\ onRq[t] = "off"
  BY DEF QueueNew, WakingInv, LockInv, StateInv, TypeInv, PiHeld
<1>2. ~contrib[t] /\ ~iowait[t]
  BY <1>1 DEF CountInv, FlagInv
<1>3. /\ pc' = [pc EXCEPT ![c] = "run"] /\ tgt' = [tgt EXCEPT ![c] = Idle]
      /\ moved' = [moved EXCEPT ![c] = FALSE]
      /\ queue' = [queue EXCEPT ![r] = @ \cup {t}] /\ onRq' = [onRq EXCEPT ![t] = "queued"]
      /\ nrRunning' = [nrRunning EXCEPT ![r] = @ + 1]
      /\ UNCHANGED <<state, taskCpu, flags, nrUnint, nrIowait, wakeList, batch>>
  BY <1>1 DEF QueueNew, Enqueue, Return, Goto
<1> QED
  BY <1>1, <1>2, <1>3, EnqueueCount

(* A migrating task is enqueued once on its new runqueue.                  *)
LEMMA AttachCount ==
  ASSUME WakingInv, CountInv, NEW c \in CPU, AttachQueued(c)
  PROVE  CountInv'
<1>1. PICK t \in Task, r \in CPU :
        /\ t = tgt[c] /\ r = atCpu[c] /\ taskCpu[t] = r /\ pc[c] = "m_attach"
        /\ onRq[t] = "migrating"
  BY DEF AttachQueued, WakingInv, LockInv, MoveInv, TypeInv
<1>2. /\ pc' = [pc EXCEPT ![c] = "run"] /\ tgt' = [tgt EXCEPT ![c] = Idle]
      /\ moved' = [moved EXCEPT ![c] = FALSE]
      /\ queue' = [queue EXCEPT ![r] = @ \cup {t}] /\ onRq' = [onRq EXCEPT ![t] = "queued"]
      /\ nrRunning' = [nrRunning EXCEPT ![r] = @ + 1]
      /\ UNCHANGED <<state, taskCpu, flags, nrUnint, nrIowait, wakeList, batch>>
  BY <1>1 DEF AttachQueued, Enqueue, Return, Goto
<1> QED
  BY <1>1, <1>2, EnqueueCount

(* A task that is moved leaves its old runqueue's nr_running.              *)
LEMMA DetachCount ==
  ASSUME WakingInv, CountInv, NEW c \in CPU, NEW t \in Task, NEW d \in CPU, DetachQueued(c, t, d)
  PROVE  CountInv'
<1>. USE DEF flags, user, locals, Goto
<1>1. /\ pc \in [CPU -> PC] /\ tgt \in [CPU -> Task \cup {Idle}] /\ taskCpu \in [Task -> CPU]
      /\ onRq \in [Task -> {"off", "queued", "migrating"}] /\ pc[c] = "run" /\ onRq[t] = "queued"
  BY DEF WakingInv, TypeInv, DetachQueued
<1>2. PICK r \in CPU : r = taskCpu[t] /\ t \in queue[r]
  BY <1>1 DEF WakingInv, PlaceInv
<1>3. /\ pc' = [pc EXCEPT ![c] = "m_attach"] /\ tgt' = [tgt EXCEPT ![c] = t]
      /\ taskCpu' = [taskCpu EXCEPT ![t] = d]
      /\ queue' = [queue EXCEPT ![r] = @ \ {t}] /\ onRq' = [onRq EXCEPT ![t] = "migrating"]
      /\ nrRunning' = [nrRunning EXCEPT ![r] = @ - 1]
      /\ UNCHANGED <<state, flags, nrUnint, nrIowait, wakeList, batch, moved>>
  BY <1>2 DEF DetachQueued, Dequeue, set_task_cpu
<1>4. \A e \in CPU : Listed(e)' = Listed(e)
  BY <1>3 DEF Listed
<1>5. \A u \in Task : Given(u)' <=> Given(u)
  BY <1>1, <1>3, <1>4, GivenSame
<1>6. \A u \in Task \ {t} : onRq'[u] = onRq[u] /\ taskCpu'[u] = taskCpu[u]
  BY <1>1, <1>3
<1>7. onRq'[t] = "migrating"
  BY <1>1, <1>3
<1>8. \A e \in CPU : Waits(e)' = Waits(e)
  BY <1>1, <1>3, <1>5, <1>6, <1>7 DEF Waits
<1>9. Uninterruptible' = Uninterruptible
  BY <1>1, <1>3, <1>6, <1>7 DEF Uninterruptible
<1>10. RunningInv'
  BY <1>2, <1>3, RunningLess DEF WakingInv, CountInv
<1>11. FlagInv'
  BY <1>1, <1>3, <1>6, <1>7 DEF FlagInv, CountInv
<1> QED
  BY <1>3, <1>8, <1>9, <1>10, <1>11, IowaitSame, UnintSame DEF CountInv

(* Every step of the system keeps the counters right.                      *)
LEMMA CountStep ==
  ASSUME WakingInv, WakingInv', CountInv, [Next]_vars
  PROVE  CountInv'
<1>1. CASE UNCHANGED vars
  <2>1. \A d \in CPU : Listed(d)' = Listed(d)
    BY <1>1 DEF Listed, vars, locals
  <2>2. \A t \in Task : Given(t)' <=> Given(t)
    BY <1>1, <2>1 DEF Given, vars, flags, locals
  <2>3. \A d \in CPU : Waits(d)' = Waits(d)
    BY <1>1, <2>2 DEF Waits, vars, flags
  <2>4. Uninterruptible' = Uninterruptible
    BY <1>1 DEF Uninterruptible, vars, flags
  <2>5. FlagInv'
    BY <1>1 DEF FlagInv, CountInv, vars, flags, locals
  <2> QED
    BY <1>1, <2>3, <2>4, <2>5, RunningSame, IowaitSame, UnintSame DEF CountInv, vars, counts
<1>2. ASSUME NEW c \in CPU, Progress(c) \/ TakeIpi(c) PROVE CountInv'
  BY <1>2, QuietSteps, BlockCount, ReadOnCpuCount, SelectCount, QueueWokenCount, AddCount,
     TakeIpiCount, WakePendingCount, QueueNewCount, AttachCount
     DEF Progress, Schedule, Wake, Pending, Quiet
<1>3. ASSUME NEW c \in CPU, NEW v \in BOOLEAN, EnterSchedule(c, v) PROVE CountInv'
  BY <1>3, QuietSteps DEF Quiet
<1>4. ASSUME NEW c \in CPU, NEW t \in Task,
             \/ SetState(c, t) \/ CheckCondition(c, t) \/ Exit(c, t) \/ StartNew(c, t)
             \/ \E bySignal \in BOOLEAN : StartWake(c, t, bySignal)
             \/ \E d \in CPU : DetachQueued(c, t, d)
      PROVE  CountInv'
  BY <1>4, QuietSteps, StartNewCount, DetachCount DEF Quiet
<1> QED
  BY <1>1, <1>2, <1>3, <1>4 DEF Next

(* The counters start at the number of tasks that sleep on each CPU.       *)
LEMMA InitCount ==
  ASSUME Init
  PROVE  CountInv
<1>. USE FiniteAssumption, SleepAssumption
<1>1. /\ onRq = [t \in Task |-> "off"] /\ remote = [t \in Task |-> FALSE]
      /\ pc = [c \in CPU |-> "run"] /\ queue = [c \in CPU |-> {}]
      /\ taskCpu \in [Task -> CPU]
  BY AllowedAssumption DEF Init
<1>2. FlagInv
  BY DEF Init, FlagInv, Sleeping
<1>3. RunningInv
  BY FS_EmptySet DEF Init, RunningInv
<1>4. IowaitInv
  <2>1. \A t \in Task : ~Given(t)
    BY <1>1 DEF Given
  <2>2. \A c \in CPU : Waits(c) = {t \in Task : iowait[t] /\ taskCpu[t] = c}
    BY <1>1, <2>1 DEF Waits
  <2> QED
    BY <2>2 DEF Init, IowaitInv
<1>5. UnintInv
  <2>. DEFINE T == {t \in Task : contrib[t]}
              place == [t \in T |-> taskCpu[t]]
              Here(c) == {t \in Task : contrib[t] /\ taskCpu[t] = c}
  <2>1. T = Uninterruptible /\ IsFiniteSet(T) /\ Cardinality(T) \in Nat
    BY <1>1, FS_Subset, FS_CardinalityType DEF Uninterruptible
  <2>2. ASSUME NEW c \in CPU PROVE Cardinality(Here(c)) \in 0 .. UnintMod - 1
    <3>1. Here(c) \subseteq Task
      OBVIOUS
    <3>2. IsFiniteSet(Here(c)) /\ Cardinality(Here(c)) =< Cardinality(Task)
      BY <3>1, FS_Subset
    <3>3. Cardinality(Here(c)) \in Nat /\ Cardinality(Task) \in Nat
      BY <3>2, FS_CardinalityType
    <3>. HIDE DEF Here
    <3> QED
      BY <3>2, <3>3, UnintModAssumption
  <2>3. nrUnint = [c \in CPU |-> Cardinality(Here(c))]
    BY DEF Init
  <2>4. nrUnint \in [CPU -> 0 .. UnintMod - 1] /\ nrUnint \in [CPU -> Int]
    <3>. HIDE DEF Here
    <3>1. \A c \in CPU : Cardinality(Here(c)) \in Int
      BY <2>2
    <3> QED
      BY <2>2, <2>3, <3>1
  <2>5. \A c \in CPU : nrUnint[c] = Cardinality({t \in T : place[t] = c})
    <3>1. \A c \in CPU : Here(c) = {t \in T : place[t] = c}
      OBVIOUS
    <3> QED
      BY <2>3, <3>1
  <2>6. place \in [T -> CPU]
    BY <1>1
  <2>7. Sum(nrUnint, CPU) = Cardinality(T)
    <3>. HIDE DEF T, place
    <3> QED
      BY <2>1, <2>4, <2>5, <2>6, SumOfParts
  <2>8. Sum(nrUnint, CPU) = Cardinality(Uninterruptible) + 0 * UnintMod
    <3>1. Cardinality(Uninterruptible) \in Nat /\ Sum(nrUnint, CPU) = Cardinality(Uninterruptible)
      BY <2>1, <2>7
    <3>2. Cardinality(Uninterruptible) + 0 * UnintMod = Cardinality(Uninterruptible)
      BY <3>1, UnintModAssumption
    <3>. HIDE DEF T, place
    <3> QED
      BY <3>1, <3>2
  <2> QED
    BY <2>4, <2>8 DEF UnintInv
<1> QED
  BY <1>2, <1>3, <1>4, <1>5 DEF CountInv

-----------------------------------------------------------------------------
(* What the invariants say of the properties.                              *)

(* The counters and the sets they count have their types.                  *)
LEMMA TypesFollow ==
  ASSUME WakingInv, CountInv
  PROVE  TypeOK
<1>1. nrRunning \in [CPU -> Nat] /\ nrIowait \in [CPU -> Int]
  BY Counted DEF WakingInv, CountInv, RunningInv, IowaitInv
<1>2. nrUnint \in [CPU -> 0 .. UnintMod - 1]
  BY DEF CountInv, UnintInv
<1>3. TypeInv
  BY DEF WakingInv
<1> QED
  BY <1>1, <1>2, <1>3 DEF TypeInv, TypeOK, States

(* The current task of a CPU runs there and nowhere else.                  *)
LEMMA CurrentFollows ==
  ASSUME WakingInv
  PROVE  CurrentIsOurs
  BY DEF WakingInv, TypeInv, PlaceInv, RunsOn, CurrentIsOurs

(* A task in a batch has left its CPU: it would be queued if it was still  *)
(* current there, and that CPU is not switching away from it.              *)
LEMMA PlacesFollow ==
  ASSUME WakingInv, CountInv
  PROVE  PlacesAgree
<1>1. QueuesMatch
  BY DEF WakingInv, PlaceInv, CountInv, RunningInv, QueuesMatch
<1>2. ASSUME NEW c \in CPU, pc[c] \in {"i_lock", "i_wake"}, NEW t \in batch[c]
      PROVE  ~onCpu[t] /\ taskCpu[t] = c /\ state[t] = "WAKING"
  <2>1. t \in Task /\ state[t] = "WAKING" /\ onRq[t] = "off" /\ taskCpu[t] = c
    BY DEF WakingInv, TypeInv, WakeInv, Listed
  <2>2. ~RunsOn(c, t)
    BY <1>2, <2>1 DEF WakingInv, PlaceInv, RunsOn
  <2> QED
    BY <2>1, <2>2 DEF WakingInv, TypeInv, PlaceInv
<1> QED
  BY <1>1, <1>2 DEF PlacesAgree, NoPendingWarn

(* A task that is waking is in the hands of the CPU that holds its pi_lock *)
(* or on a wake list; one that sleeps with its condition true has a waker. *)
LEMMA WakeupFollows ==
  ASSUME WakingInv
  PROVE  NoLostWakeup
<1>. USE DEF Matched, Waking, PiHeld, Sleeping, InWakeup
<1>1. SUFFICES ASSUME NEW t \in Task, cond[t], onRq[t] = "off",
                      state[t] \in Sleeping \cup {"WAKING"}
               PROVE  \E c \in CPU : InWakeup(c, t) \/ t \in wakeList[c] \cup batch[c]
  BY DEF NoLostWakeup
<1>2. CASE state[t] = "WAKING"
  <2>1. CASE piLock[t] \in CPU
    <3>1. PICK c \in CPU : tgt[c] = t /\ pc[c] \in PiHeld
      BY <2>1 DEF WakingInv, LockInv
    <3>2. pc[c] # "n_queue"
      BY <1>2, <3>1 DEF WakingInv, StateInv
    <3> QED
      BY <3>1, <3>2
  <2>2. CASE t \in Listed(taskCpu[t])
    BY <2>2 DEF WakingInv, TypeInv, Listed
  <2> QED
    BY <1>2, <2>1, <2>2 DEF WakingInv, StateInv
<1>3. CASE state[t] \in Sleeping
  <2>1. loc[t] = "back"
    BY <1>1, <1>3 DEF WakingInv, LocInv
  <2>2. PICK c \in CPU : Waker(c, t)
    BY <1>1, <1>3, <2>1 DEF WakingInv, HandledInv
  <2> QED
    BY <2>2 DEF Waker
<1> QED
  BY <1>1, <1>2, <1>3

(* A dead task that is current has not left do_task_dead's schedule().     *)
LEMMA DeadFollows ==
  ASSUME WakingInv
  PROVE  DeadStaysDead
<1>1. ASSUME NEW c \in CPU, pc[c] = "run", curr[c] # Idle PROVE loc[curr[c]] # "gone"
  <2>1. PICK t \in Task : t = curr[c]
    BY <1>1 DEF WakingInv, TypeInv
  <2>2. onRq[t] = "queued" /\ taskCpu[t] = c
    BY <1>1, <2>1 DEF WakingInv, PlaceInv, RunsOn
  <2> QED
    BY <1>1, <2>1, <2>2 DEF WakingInv, LocInv
<1>2. ASSUME NEW t \in Task
      PROVE  /\ drops[t] <= 1
             /\ drops[t] = 1 => /\ state[t] = "DEAD" /\ onRq[t] = "off" /\ ~onCpu[t]
                                /\ \A c \in CPU : t \notin wakeList[c] \cup batch[c]
  <2>1. drops[t] \in {0, 1}
    BY DEF WakingInv, TypeInv
  <2>2. drops[t] = 1 => state[t] = "DEAD" /\ onRq[t] = "off" /\ ~onCpu[t]
    BY DEF WakingInv, DropInv
  <2>3. \A c \in CPU : t \in wakeList[c] \cup batch[c] => state[t] = "WAKING"
    BY DEF WakingInv, WakeInv, Listed
  <2> QED
    BY <2>1, <2>2, <2>3
<1> QED
  BY <1>1, <1>2 DEF DeadStaysDead

(* The drift of the counters is a multiple of UnintMod.                    *)
LEMMA CountersFollow ==
  ASSUME WakingInv, CountInv
  PROVE  LoadCountersMatch
<1>1. UninterruptibleCount
  <2>1. {t \in Task : onRq[t] = "off" /\ contrib[t] /\ state[t] \in Sleeping \cup {"WAKING"}}
          = Uninterruptible
    BY DEF CountInv, FlagInv, Uninterruptible
  <2>2. Cardinality(Uninterruptible) \in 0 .. UnintMod - 1
    <3>1. Uninterruptible \subseteq Task
      BY DEF Uninterruptible
    <3>2. Cardinality(Uninterruptible) =< Cardinality(Task) /\ Cardinality(Task) \in Nat
      BY <3>1, FiniteAssumption, FS_Subset, FS_CardinalityType
    <3>3. Cardinality(Uninterruptible) \in Nat
      BY Counted DEF WakingInv
    <3> QED
      BY <3>2, <3>3, FiniteAssumption, UnintModAssumption
  <2>3. PICK k \in Int : Sum(nrUnint, CPU) = Cardinality(Uninterruptible) + k * UnintMod
    BY DEF CountInv, UnintInv
  <2>4. Cardinality(Uninterruptible) + k * UnintMod = k * UnintMod + Cardinality(Uninterruptible)
    BY <2>2, UnintModAssumption
  <2>5. (Sum(nrUnint, CPU) % UnintMod) = Cardinality(Uninterruptible)
    BY <2>2, <2>3, <2>4, UnintModAssumption, ModShift
  <2>6. Sum(nrUnint, CPU) = MapThenSumSet(LAMBDA c : nrUnint[c], CPU)
    BY DEF Sum
  <2> QED
    BY <2>1, <2>5, <2>6 DEF UninterruptibleCount
<1>2. IowaitCount
  <2>1. ASSUME NEW c \in CPU PROVE nrIowait[c] >= 0
    BY Counted DEF WakingInv, CountInv, IowaitInv
  <2>2. ASSUME NEW c \in CPU, \A t \in Task : state[t] # "WAKING"
        PROVE  nrIowait[c] = Cardinality({t \in Task : onRq[t] = "off" /\ iowait[t] /\ taskCpu[t] = c})
    <3>1. ASSUME NEW t \in Task, Given(t) PROVE FALSE
      <4>1. \A d \in CPU : t \notin Listed(d)
        BY <2>2 DEF WakingInv, WakeInv
      <4>2. \A d \in CPU : tgt[d] = t => pc[d] \notin Waking
        BY <2>2 DEF WakingInv, WakeInv
      <4> QED
        BY <3>1, <4>1, <4>2 DEF Given, Waking
    <3>2. Waits(c) = {t \in Task : onRq[t] = "off" /\ iowait[t] /\ taskCpu[t] = c}
      BY <3>1 DEF Waits
    <3> QED
      BY <3>2 DEF CountInv, IowaitInv
  <2> QED
    BY <2>1, <2>2 DEF IowaitCount
<1> QED
  BY <1>1, <1>2 DEF LoadCountersMatch

(* Only the end of sched_ttwu_pending clears ttwu_pending, and only its    *)
(* own.                                                                    *)
LEMMA PendingKept ==
  ASSUME WakingInv, NEW c \in CPU, pending[c], ~pending'[c], [Next]_vars
  PROVE  FinishPending(c)
<1>. USE DEF Goto, Return, flags, user, counts, locals
<1>1. pending \in [CPU -> BOOLEAN] /\ taskCpu \in [Task -> CPU]
  BY DEF WakingInv, TypeInv
<1>2. ~UNCHANGED pending
  OBVIOUS
<1>3. PICK d \in CPU : ReadOnCpu(d) \/ QueueWoken(d) \/ FinishPending(d)
  <2>1. CASE UNCHANGED vars
    BY <1>2, <2>1 DEF vars
  <2>2. ASSUME NEW d \in CPU, Schedule(d) PROVE FALSE
    BY <1>2, <2>2 DEF Schedule, LockSchedule, Block, Switch, ReadPrevState, FinishTask, UnlockSchedule
  <2>3. ASSUME NEW d \in CPU, Wake(d), ~ReadOnCpu(d), ~QueueWoken(d) PROVE FALSE
    BY <1>2, <2>3 DEF Wake, Match, ReadOnRq, ReadTaskRq, WakeRunnable, SetWaking, SelectCpu, AddToWakeList
  <2>4. ASSUME NEW d \in CPU, Pending(d), ~FinishPending(d) PROVE FALSE
    BY <1>2, <2>4 DEF Pending, LockPending, WakePending
  <2>5. ASSUME NEW d \in CPU, QueueNew(d) \/ AttachQueued(d) \/ TakeIpi(d) PROVE FALSE
    BY <1>2, <2>5 DEF QueueNew, AttachQueued, TakeIpi
  <2>6. ASSUME NEW d \in CPU, NEW v \in BOOLEAN, EnterSchedule(d, v) PROVE FALSE
    BY <1>2, <2>6 DEF EnterSchedule
  <2>7. ASSUME NEW d \in CPU, NEW t \in Task,
               SetState(d, t) \/ CheckCondition(d, t) \/ Exit(d, t) \/ StartNew(d, t) PROVE FALSE
    BY <1>2, <2>7 DEF SetState, CheckCondition, Exit, StartNew
  <2>8. ASSUME NEW d \in CPU, NEW t \in Task, NEW b \in BOOLEAN, StartWake(d, t, b) PROVE FALSE
    BY <1>2, <2>8 DEF StartWake
  <2>9. ASSUME NEW d \in CPU, NEW t \in Task, NEW e \in CPU, DetachQueued(d, t, e) PROVE FALSE
    BY <1>2, <2>9 DEF DetachQueued
  <2> QED
    BY <2>1, <2>2, <2>3, <2>4, <2>5, <2>6, <2>7, <2>8, <2>9 DEF Next, Progress
<1>4. CASE ReadOnCpu(d)
  BY <1>1, <1>4 DEF ReadOnCpu, PutOnWakeList
<1>5. CASE QueueWoken(d)
  BY <1>1, <1>5 DEF QueueWoken, PutOnWakeList
<1>6. CASE FinishPending(d)
  BY <1>1, <1>6 DEF FinishPending
<1> QED
  BY <1>3, <1>4, <1>5, <1>6

(* ttwu_pending is cleared with a task of the batch on the runqueue.       *)
LEMMA PendingFollows ==
  ASSUME WakingInv, CountInv, NEW c \in CPU, pending[c], ~pending'[c], [Next]_vars
  PROVE  nrRunning'[c] > 0
<1>1. FinishPending(c)
  BY PendingKept
<1>2. queue[c] # {} /\ IsFiniteSet(queue[c]) /\ Cardinality(queue[c]) \in Nat
  BY <1>1, Counted DEF FinishPending, WakingInv, WakeInv
<1>3. Cardinality(queue[c]) # 0
  BY <1>2, FS_EmptySet
<1>4. nrRunning'[c] = Cardinality(queue[c])
  BY <1>1 DEF FinishPending, counts, CountInv, RunningInv
<1> QED
  BY <1>2, <1>3, <1>4

-----------------------------------------------------------------------------
(* The theorems. *)

(* The places, locks, wakeups and counters stay as the invariants say:     *)
(* for any number of CPUs and tasks, whatever they may run on.             *)
THEOREM InvariantsHold == Spec => [](WakingInv /\ CountInv)
<1>1. Init => WakingInv /\ CountInv
  BY InitWaking, InitCount
<1>2. WakingInv /\ CountInv /\ [Next]_vars => (WakingInv /\ CountInv)'
  BY WakingStep, CountStep
<1> QED
  BY <1>1, <1>2, PTL DEF Spec

(* Types; nr_running does not go below zero and nr_uninterruptible stays   *)
(* an unsigned int.                                                        *)
THEOREM WakeupTypes == Spec => []TypeOK
<1>1. WakingInv /\ CountInv => TypeOK
  BY TypesFollow
<1> QED
  BY <1>1, InvariantsHold, PTL

(* rq->curr of __schedule(): a task is current on one CPU, is on_cpu there *)
(* and its task_cpu names that CPU.                                        *)
THEOREM CurrentHolds == Spec => []CurrentIsOurs
<1>1. WakingInv /\ CountInv => CurrentIsOurs
  BY CurrentFollows
<1> QED
  BY <1>1, InvariantsHold, PTL

(* Runqueues hold the tasks whose task_cpu names them, nr_running counts   *)
(* them, and the WARNs of sched_ttwu_pending() never fire.                 *)
THEOREM PlacesHold == Spec => []PlacesAgree
<1>1. WakingInv /\ CountInv => PlacesAgree
  BY PlacesFollow
<1> QED
  BY <1>1, InvariantsHold, PTL

(* try_to_wake_up() against __schedule(): no interleaving loses a wakeup.  *)
THEOREM NoWakeupIsLost == Spec => []NoLostWakeup
<1>1. WakingInv /\ CountInv => NoLostWakeup
  BY WakeupFollows
<1> QED
  BY <1>1, InvariantsHold, PTL

(* do_task_dead() does not return and finish_task_switch() drops the last  *)
(* reference of a dead task once, when nothing uses it any more.           *)
THEOREM DeadHolds == Spec => []DeadStaysDead
<1>1. WakingInv /\ CountInv => DeadStaysDead
  BY DeadFollows
<1> QED
  BY <1>1, InvariantsHold, PTL

(* nr_uninterruptible, summed modulo its width, and nr_iowait count the    *)
(* tasks that block, whatever CPUs they leave and are woken on.            *)
THEOREM CountersHold == Spec => []LoadCountersMatch
<1>1. WakingInv /\ CountInv => LoadCountersMatch
  BY CountersFollow
<1> QED
  BY <1>1, InvariantsHold, PTL

(* sched_ttwu_pending() clears ttwu_pending only on a runqueue that runs   *)
(* something.                                                              *)
THEOREM PendingHolds == Spec => PendingClearedWhenBusy
<1>1. WakingInv /\ CountInv /\ [Next]_vars =>
        [\A c \in CPU : pending[c] /\ ~pending'[c] => nrRunning'[c] > 0]_vars
  BY PendingFollows
<1> QED
  BY <1>1, InvariantsHold, PTL DEF Spec, PendingClearedWhenBusy
=============================================================================
