--------------------------- MODULE CoreSchedProofs ---------------------------
(* Proofs about core scheduling, for any number of siblings, tasks and     *)
(* cookies.                                                                *)
EXTENDS CoreSchedProps, FiniteSetTheorems, WellFoundedInduction, TLAPS

-----------------------------------------------------------------------------
(* Tasks are queued on one CPU, and have cookies only while core           *)
(* scheduling is on; a CPU that is off has none.                           *)
PlaceInv ==
  /\ \A c, d \in Cpu : c # d => queue[c] \cap queue[d] = {}
  /\ \A c \in Cpu : core_tree[c] = {t \in queue[c] : core_cookie[t] # None}
  /\ ~core_enabled => \A t \in Task : core_cookie[t] = None
  /\ \A c \in Cpu \ Smt : queue[c] = {} /\ curr[c] = Idle

(* The siblings that are up have one leader, which is up.                  *)
LeadInv ==
  /\ \A c \in Smt : core[c] \in Smt /\ \A d \in Smt : core[c] = core[d]
  /\ \A c \in Cpu : hp[c] = "leaving" => core[c] # c

(* A CPU runs a task of its queue, and a pick that is taken for valid is   *)
(* one, too; a CPU that comes up has none.                                 *)
RunInv ==
  ~stale =>
    /\ \A c \in Cpu : curr[c] \in queue[c] \cup {Idle}
    /\ PicksAreValid
    /\ core_enabled => \A c \in Cpu : hp[c] = "dead" => core_pick[c] = None

(* What CPU d runs, unless it is to reschedule, fits cookie x.             *)
Fits(p, x) == p = Idle \/ core_cookie[p] = x
RunsFor(d, x) == need_resched[d] \/ Fits(curr[d], x)

(* While a pick is stored it fits the core's cookie, and so do the tasks   *)
(* that the siblings run; they have no cookies while the core has none.    *)
SyncInv ==
  ~stale /\ core_enabled =>
    /\ \A c \in Smt : Stored(c, picked[core[c]]) =>
         Fits(core_pick[c], sync[core[c]]) /\ \A d \in Smt : RunsFor(d, sync[core[c]])
    /\ \A c \in Smt : ~need_sync(c) => \A d \in Smt : RunsFor(d, None)

SelectionInv == TypeOK /\ PlaceInv /\ LeadInv /\ RunInv /\ SyncInv /\ CookiesMatch

(* A set of CPUs has a first one.                                          *)
LEMMA MinIsMember ==
  ASSUME NEW S \in SUBSET Cpu, S # {}
  PROVE  Min(S) \in S
<1>1. S \subseteq Nat
  BY CpuAssumption
<1>2. PICK x \in S : \A y \in S : ~(<<y, x>> \in OpToRel(<, Nat))
  BY <1>1, NatLessThanWellFounded, WFMin
<1>3. ASSUME NEW y \in S PROVE x =< y
  <2>1. <<y, x>> \in Nat \X Nat /\ <<y, x>>[1] = y /\ <<y, x>>[2] = x
    BY <1>1
  <2>2. ~(y < x)
    BY <1>2, <2>1, Zenon DEF OpToRel
  <2> QED
    BY <2>2, <1>1
<1> QED
  BY <1>3 DEF Min

LEMMA RunnableIsQueued ==
  ASSUME TypeOK, NEW t
  PROVE  t \in Runnable <=> \E c \in Cpu : t \in queue[c]
BY DEF TypeOK, Runnable, Range

-----------------------------------------------------------------------------
(* What a selection for the core leaves: every sibling gets a task of its  *)
(* queue, or the idle task, that fits the cookie.                          *)
SelectedFor(c, q, n) ==
  \E x \in Cookie \cup {None}, final \in [Smt -> Task \cup {Idle}], fi \in BOOLEAN :
    /\ \A i \in Smt : /\ final[i] \in (IF i = c THEN q ELSE queue[i]) \cup {Idle}
                      /\ Fits(final[i], x)
    /\ n = final[c]
    /\ sync' = [sync EXCEPT ![core[c]] = x]
    /\ forceidle' = [forceidle EXCEPT ![core[c]] = fi]
    /\ core_pick' = [i \in Cpu |-> IF i \in Smt \ {c} /\ final[i] # curr[i] THEN final[i]
                                   ELSE IF i \in Smt THEN None ELSE core_pick[i]]
    /\ need_resched' = [i \in Cpu |-> i # c /\ (need_resched[i]
                                          \/ (i \in Smt \ {c} /\ final[i] # curr[i]))]
    /\ picked' = [picked EXCEPT ![core[c]] = TRUE]
    /\ unsched' = [i \in Cpu |-> IF i \in Smt THEN i # c ELSE unsched[i]]

LEMMA CoreWide ==
  ASSUME SelectionInv, NEW c \in Smt, NEW q \in SUBSET queue[c],
         NEW tree \in [Cpu -> SUBSET Task],
         \A i \in Smt : tree[i] \subseteq IF i = c THEN q ELSE queue[i],
         NEW valid \in BOOLEAN, NEW n, PickCoreWide(c, q, tree, valid, n)
  PROVE  SelectedFor(c, q, n)
<1>. USE NameAssumption
<1>. DEFINE at(i) == IF i = c THEN q ELSE queue[i]
            fits(first, max, i) == Matching(first[i], tree[i], CookieOf(max))
<1>. DEFINE Chosen(first, max, final) ==
              /\ \A i \in Smt : final[i] \in fits(first, max, i)
              /\ n = final[c]
              /\ sync' = [sync EXCEPT ![core[c]] = CookieOf(max)]
              /\ forceidle' = [forceidle EXCEPT ![core[c]] =
                                 \E i \in Smt : final[i] = Idle /\ at(i) # {}]
              /\ LET told == {i \in Smt \ {c} : final[i] # curr[i]} IN
                 /\ core_pick' = [i \in Cpu |-> IF i \in told THEN final[i]
                                                ELSE IF i \in Smt THEN None ELSE core_pick[i]]
                 /\ need_resched' = [i \in Cpu |-> i # c /\ (need_resched[i] \/ i \in told)]
<1>a. PICK first \in [Smt -> UNION {pick_task(at(i)) : i \in Smt}] :
        /\ \A i \in Smt : first[i] \in pick_task(at(i))
        /\ \E max \in Range(first) :
             \E final \in [Smt -> UNION {fits(first, max, i) : i \in Smt}] :
               Chosen(first, max, final)
  BY ZenonT(40) DEF PickCoreWide
<1>b. PICK max \in Range(first) :
        \E final \in [Smt -> UNION {fits(first, max, i) : i \in Smt}] : Chosen(first, max, final)
  BY <1>a
<1>1. PICK final \in [Smt -> UNION {fits(first, max, i) : i \in Smt}] : Chosen(first, max, final)
  BY <1>b
<1>2. \A i \in Smt : at(i) \in SUBSET Task
  BY DEF SelectionInv, TypeOK, Smt
<1>3. \A i \in Smt : first[i] \in at(i) \cup {Idle}
  BY <1>a DEF pick_task
<1>4. CookieOf(max) \in Cookie \cup {None}
  <2>1. max \in Task \cup {Idle}
    BY <1>2, <1>3 DEF Range
  <2> QED
    BY <2>1 DEF CookieOf, SelectionInv, TypeOK
<1>5. ASSUME NEW i \in Smt
      PROVE  final[i] \in at(i) \cup {Idle} /\ Fits(final[i], CookieOf(max))
  <2>1. final[i] \in Matching(first[i], tree[i], CookieOf(max))
    BY <1>1
  <2>2. tree[i] \subseteq at(i)
    OBVIOUS
  <2> HIDE DEF at
  <2> QED
    BY <1>2, <1>3, <2>1, <2>2 DEF Matching, sched_core_find, Fits, CookieOf
<1>6. final \in [Smt -> Task \cup {Idle}]
  BY <1>1, <1>2, <1>5
<1>7. picked' = [picked EXCEPT ![core[c]] = TRUE]
      /\ unsched' = [i \in Cpu |-> IF i \in Smt THEN i # c ELSE unsched[i]]
  BY DEF PickCoreWide
<1> DEFINE fi == \E i \in Smt : final[i] = Idle /\ at(i) # {}
<1>8. /\ forceidle' = [forceidle EXCEPT ![core[c]] = fi] /\ fi \in BOOLEAN
      /\ core_pick' = [i \in Cpu |-> IF i \in Smt \ {c} /\ final[i] # curr[i] THEN final[i]
                                          ELSE IF i \in Smt THEN None ELSE core_pick[i]]
      /\ need_resched' = [i \in Cpu |-> i # c /\ (need_resched[i]
                                                 \/ (i \in Smt \ {c} /\ final[i] # curr[i]))]
  BY <1>1
<1>9. \A i \in Smt : /\ final[i] \in (IF i = c THEN q ELSE queue[i]) \cup {Idle}
                     /\ Fits(final[i], CookieOf(max))
  BY <1>5
<1> HIDE DEF fi, at
<1> QED
  BY <1>1, <1>4, <1>6, <1>7, <1>8, <1>9 DEF SelectedFor

(* schedule() keeps the invariant, whichever way the next task is chosen.  *)
LEMMA ScheduleStep ==
  ASSUME SelectionInv, NEW c \in Cpu, __schedule(c) PROVE SelectionInv'
<1>. USE NameAssumption
<1>1. PICK gone \in SUBSET ({curr[c]} \cap queue[c]) :
        LET q == queue[c] \ gone
            tree == [core_tree EXCEPT ![c] = IF core_enabled THEN @ \ gone ELSE @]
            valid == picked[core[c]] /\ gone = {}
        IN  /\ queue' = [queue EXCEPT ![c] = q]
            /\ core_tree' = tree
            /\ \E n \in (q \cup {Idle, core_pick[c]}) \ {None} :
                 /\ \/ PickAlone(c, q, n)
                    \/ PickOffline(c, q, n)
                    \/ PickStored(c, valid, n)
                    \/ PickUncookied(c, q, valid, n)
                    \/ PickCoreWide(c, q, tree, valid, n)
                 /\ curr' = [curr EXCEPT ![c] = n]
                 /\ balance' = IF queue_core_balance(c, q, n) THEN balance \cup {c} ELSE balance
  BY DEF __schedule
<1>. DEFINE q == queue[c] \ gone
            tree == [core_tree EXCEPT ![c] = IF core_enabled THEN @ \ gone ELSE @]
            valid == picked[core[c]] /\ gone = {}
<1>2. PICK n \in (q \cup {Idle, core_pick[c]}) \ {None} :
        /\ \/ PickAlone(c, q, n)
           \/ PickOffline(c, q, n)
           \/ PickStored(c, valid, n)
           \/ PickUncookied(c, q, valid, n)
           \/ PickCoreWide(c, q, tree, valid, n)
        /\ curr' = [curr EXCEPT ![c] = n]
        /\ balance' = IF queue_core_balance(c, q, n) THEN balance \cup {c} ELSE balance
  BY <1>1
<1>3. /\ queue' = [queue EXCEPT ![c] = q] /\ core_tree' = tree
      /\ hp' = [hp EXCEPT ![c] = IF @ = "dying" THEN "dead" ELSE @] /\ hp[c] # "dead"
      /\ core_cookie' = core_cookie /\ core_enabled' = core_enabled
      /\ core' = core /\ stale' = stale
  BY <1>1 DEF __schedule
<1>4. Smt' = Smt /\ \A d \in Smt : hp'[d] = hp[d]
  BY <1>3 DEF Smt, SelectionInv, TypeOK
<1>5. /\ q \subseteq queue[c] /\ q \in SUBSET Task /\ valid \in BOOLEAN
      /\ tree \in [Cpu -> SUBSET Task]
      /\ \A d \in Cpu : tree[d] = {t \in (IF d = c THEN q ELSE queue[d]) : core_cookie[t] # None}
  <2>1. q \subseteq queue[c] /\ q \in SUBSET Task /\ valid \in BOOLEAN
    BY DEF SelectionInv, TypeOK
  <2>2. tree \in [Cpu -> SUBSET Task]
    BY DEF SelectionInv, TypeOK
  <2>3. ASSUME NEW d \in Cpu
        PROVE  tree[d] = {t \in (IF d = c THEN q ELSE queue[d]) : core_cookie[t] # None}
    BY DEF SelectionInv, TypeOK, PlaceInv
  <2> QED
    BY <2>1, <2>2, <2>3
<1>6. n \in Task \cup {Idle} /\ (c \notin Smt => n = Idle /\ q = {} /\ hp[c] = "dying")
  <2>1. c \notin Smt => q = {} /\ hp[c] = "dying"
    BY <1>3 DEF SelectionInv, TypeOK, PlaceInv, Smt
  <2>2. c \notin Smt => n = Idle
    BY <1>2, <2>1 DEF PickAlone, PickOffline, PickStored, PickUncookied, PickCoreWide, pick_task
  <2>3. n \in Task \cup {Idle}
    BY <1>2, <1>5 DEF SelectionInv, TypeOK
  <2> QED
    BY <2>1, <2>2, <2>3
<1>. HIDE DEF q, tree, valid
<1>7. PlaceInv'
  <2>1. \A d \in Cpu : queue'[d] = (IF d = c THEN q ELSE queue[d]) /\ core_tree'[d] = tree[d]
    BY <1>3 DEF SelectionInv, TypeOK
  <2>2. \A d \in Cpu \ Smt' : queue'[d] = {} /\ curr'[d] = Idle
    BY <1>2, <1>4, <1>6, <2>1 DEF SelectionInv, TypeOK, PlaceInv
  <2> QED
    BY <1>3, <1>5, <2>1, <2>2 DEF SelectionInv, PlaceInv
<1>8. LeadInv'
  BY <1>3, <1>4 DEF SelectionInv, LeadInv, TypeOK
(* What is left follows from what the choice does to the selection.        *)
<1>. DEFINE Selected ==
       /\ picked' \in [Cpu -> BOOLEAN] /\ sync' \in [Cpu -> Cookie \cup {None}]
       /\ forceidle' \in [Cpu -> BOOLEAN] /\ core_pick' \in [Cpu -> Task \cup {Idle, None}]
       /\ unsched' \in [Cpu -> BOOLEAN] /\ need_resched' \in [Cpu -> BOOLEAN]
       /\ ~stale => n \in q \cup {Idle}
       /\ RunInv' /\ SyncInv' /\ CookiesMatch'
<1>9. Selected => SelectionInv'
  <2>1. curr' \in [Cpu -> Task \cup {Idle}] /\ balance' \subseteq Cpu
    BY <1>2, <1>6 DEF SelectionInv, TypeOK
  <2>2. queue' \in [Cpu -> SUBSET Task] /\ hp' \in [Cpu -> {"up", "leaving", "dying", "dead"}]
    BY <1>3, <1>5 DEF SelectionInv, TypeOK
  <2> QED
    BY <1>3, <1>5, <1>7, <1>8, <2>1, <2>2 DEF SelectionInv, TypeOK
<1>10. ASSUME ~stale => n \in q \cup {Idle}
       PROVE  ~stale => \A d \in Cpu : curr'[d] \in queue'[d] \cup {Idle}
  BY <1>2, <1>3, <1>10 DEF SelectionInv, TypeOK, RunInv
<1>11. CASE PickAlone(c, q, n)
  <2>1. n \in q \cup {Idle} /\ ~core_enabled
    BY <1>11 DEF PickAlone, pick_task
  <2>2. RunInv'
    BY <1>3, <1>10, <2>1 DEF RunInv, PicksAreValid
  <2>3. SyncInv'
    BY <1>3, <2>1 DEF SyncInv
  <2>4. CookiesMatch'
    <3>1. \A d \in Cpu : curr'[d] \in Task \cup {Idle}
      BY <1>2, <1>6 DEF SelectionInv, TypeOK
    <3> QED
      BY <1>3, <2>1, <3>1 DEF CookiesMatch, SelectionInv, PlaceInv, Smt
  <2>5. UNCHANGED <<picked, sync, forceidle, pickVars>> /\ need_resched' = [need_resched EXCEPT ![c] = FALSE]
    BY <1>11 DEF PickAlone
  <2>6. need_resched' \in [Cpu -> BOOLEAN]
    BY <2>5 DEF SelectionInv, TypeOK
  <2> QED
    BY <1>9, <2>1, <2>2, <2>3, <2>4, <2>5, <2>6 DEF SelectionInv, TypeOK, pickVars
<1>12. CASE PickOffline(c, q, n)
  <2>1. /\ n \in q \cup {Idle} /\ core_enabled /\ hp[c] = "dying" /\ c \notin Smt /\ n = Idle
        /\ core_pick' = [core_pick EXCEPT ![c] = None]
        /\ need_resched' = [need_resched EXCEPT ![c] = FALSE]
        /\ UNCHANGED <<picked, sync, forceidle, unsched>>
    BY <1>6, <1>12 DEF PickOffline, OfflinePick, pick_task, Smt
  <2>2. \A d \in Smt : /\ curr'[d] = curr[d] /\ queue'[d] = queue[d] /\ core_pick'[d] = core_pick[d]
                       /\ need_resched'[d] = need_resched[d] /\ hp'[d] = hp[d]
    BY <1>2, <1>3, <2>1, ZenonT(30) DEF SelectionInv, TypeOK, Smt
  <2>3. ASSUME ~stale PROVE PicksAreValid'
    BY <1>3, <1>4, <2>1, <2>2, <2>3 DEF SelectionInv, RunInv, PicksAreValid, Stored
  <2>4. ~stale => \A d \in Cpu : hp'[d] = "dead" => core_pick'[d] = None
    BY <1>3, <2>1 DEF SelectionInv, TypeOK, RunInv
  <2>5. RunInv'
    BY <1>3, <1>10, <2>1, <2>3, <2>4 DEF RunInv
  <2>6. SyncInv'
    <3>1. \A d \in Smt : /\ Stored(d, picked[core[d]])' <=> Stored(d, picked[core[d]])
                         /\ need_sync(d)' <=> need_sync(d)
      BY <1>3, <2>1, <2>2 DEF Stored, need_sync
    <3>2. \A d \in Smt : \A x : RunsFor(d, x)' <=> RunsFor(d, x)
      BY <1>3, <2>2 DEF RunsFor, Fits
    <3>3. \A d \in Smt : \A x : Fits(core_pick[d], x)' <=> Fits(core_pick[d], x)
      BY <1>3, <2>2 DEF Fits
    <3> QED
      BY <1>3, <1>4, <2>1, <3>1, <3>2, <3>3 DEF SelectionInv, SyncInv
  <2>7. CookiesMatch'
    BY <1>3, <1>4, <2>2 DEF SelectionInv, CookiesMatch
  <2>8. core_pick' \in [Cpu -> Task \cup {Idle, None}] /\ need_resched' \in [Cpu -> BOOLEAN]
    BY <2>1 DEF SelectionInv, TypeOK
  <2> QED
    BY <1>9, <2>1, <2>5, <2>6, <2>7, <2>8 DEF SelectionInv, TypeOK
<1>13. CASE PickStored(c, valid, n)
  <2>1. /\ core_enabled /\ c \in Smt /\ valid /\ unsched[c] /\ n = core_pick[c] /\ n # None
        /\ core_pick' = [core_pick EXCEPT ![c] = None] /\ unsched' = [unsched EXCEPT ![c] = FALSE]
        /\ need_resched' = [need_resched EXCEPT ![c] = FALSE]
        /\ UNCHANGED <<picked, sync, forceidle>>
    BY <1>3, <1>13 DEF PickStored, Stored, Smt, SelectionInv, TypeOK
  <2>2. picked[core[c]] /\ q = queue[c] /\ Stored(c, picked[core[c]])
    BY <2>1 DEF valid, q, Stored
  <2>3. ~stale => n \in q \cup {Idle}
    BY <2>1, <2>2 DEF SelectionInv, RunInv, PicksAreValid
  <2>4. \A d \in Cpu \ {c} : /\ curr'[d] = curr[d] /\ queue'[d] = queue[d]
                             /\ core_pick'[d] = core_pick[d] /\ unsched'[d] = unsched[d]
                             /\ need_resched'[d] = need_resched[d]
    BY <1>2, <1>3, <2>1 DEF SelectionInv, TypeOK
  <2>5. curr'[c] = n /\ core_pick'[c] = None /\ ~need_resched'[c]
    BY <1>2, <2>1 DEF SelectionInv, TypeOK
  <2>6. RunInv'
    <3>1. ASSUME ~stale PROVE PicksAreValid'
      BY <1>3, <1>4, <2>1, <2>4, <2>5, <3>1 DEF SelectionInv, RunInv, PicksAreValid, Stored, Smt
    <3>2. ~stale => \A d \in Cpu : hp'[d] = "dead" => core_pick'[d] = None
      BY <1>3, <2>1, <2>4, <2>5 DEF SelectionInv, TypeOK, RunInv, Smt
    <3> QED
      BY <1>3, <1>10, <2>3, <3>1, <3>2 DEF RunInv
  <2>7. ASSUME ~stale
        PROVE  Fits(n, sync[core[c]]) /\ \A d \in Smt : RunsFor(d, sync[core[c]])
    BY <2>1, <2>2, <2>7 DEF SelectionInv, SyncInv
  <2>8. \A d \in Smt : core[d] = core[c]
    BY <2>1 DEF SelectionInv, LeadInv
  <2>9. ASSUME ~stale PROVE \A d \in Smt : RunsFor(d, sync[core[c]])'
    BY <1>3, <2>1, <2>4, <2>5, <2>7, <2>9 DEF RunsFor, Fits, Smt
  <2>10. SyncInv'
    <3>1. ASSUME ~stale, NEW d \in Smt, Stored(d, picked[core[d]])'
          PROVE  Fits(core_pick[d], sync[core[d]])'
      <4>1. d # c /\ d \in Cpu
        BY <2>5, <3>1 DEF Stored, Smt
      <4> QED
        BY <1>3, <2>1, <2>4, <3>1, <4>1 DEF Stored, Fits, SelectionInv, SyncInv
    <3>2. ASSUME ~stale, NEW d \in Smt, ~need_sync(d)'
          PROVE  sync[core[d]] = None
      BY <1>3, <2>1, <3>2 DEF need_sync
    <3> QED
      BY <1>3, <1>4, <2>1, <2>8, <2>9, <3>1, <3>2 DEF SyncInv
  <2>11. CookiesMatch'
    BY <1>3, <1>4, <2>1, <2>9 DEF CookiesMatch, RunsFor, Fits
  <2>12. /\ core_pick' \in [Cpu -> Task \cup {Idle, None}] /\ need_resched' \in [Cpu -> BOOLEAN]
         /\ unsched' \in [Cpu -> BOOLEAN]
    BY <2>1 DEF SelectionInv, TypeOK
  <2> QED
    BY <1>9, <2>1, <2>3, <2>6, <2>10, <2>11, <2>12 DEF SelectionInv, TypeOK
<1>14. CASE PickUncookied(c, q, valid, n)
  <2>1. /\ core_enabled /\ c \in Smt /\ ~need_sync(c) /\ n \in q \cup {Idle} /\ CookieOf(n) = None
        /\ picked' = [picked EXCEPT ![core[c]] = FALSE]
        /\ core_pick' = [core_pick EXCEPT ![c] = None]
        /\ need_resched' = [need_resched EXCEPT ![c] = FALSE]
        /\ UNCHANGED <<sync, forceidle, unsched>>
    BY <1>3, <1>14 DEF PickUncookied, pick_task, Smt, SelectionInv, TypeOK
  <2>2. core[c] \in Cpu /\ \A d \in Smt : core[d] = core[c]
    BY <2>1 DEF SelectionInv, LeadInv, Smt
  <2>3. \A d \in Smt : ~picked'[core'[d]]
    BY <1>3, <2>1, <2>2 DEF SelectionInv, TypeOK
  <2>4. \A d \in Cpu \ {c} : curr'[d] = curr[d] /\ core_pick'[d] = core_pick[d]
                             /\ need_resched'[d] = need_resched[d]
    BY <1>2, <2>1 DEF SelectionInv, TypeOK
  <2>5. curr'[c] = n /\ Fits(n, None)
    BY <1>2, <2>1 DEF SelectionInv, TypeOK, Fits, CookieOf
  <2>6. ASSUME ~stale PROVE \A d \in Smt : RunsFor(d, None)'
    <3>1. \A d \in Smt : RunsFor(d, None)
      BY <2>1, <2>6 DEF SelectionInv, SyncInv
    <3> QED
      BY <1>3, <2>4, <2>5, <3>1 DEF RunsFor, Fits, Smt
  <2>7. RunInv'
    <3>1. ~stale => PicksAreValid'
      BY <1>4, <2>3 DEF PicksAreValid, Stored
    <3>2. ~stale => \A d \in Cpu : hp'[d] = "dead" => core_pick'[d] = None
      BY <1>3, <2>1, <2>4 DEF SelectionInv, TypeOK, RunInv, Smt
    <3> QED
      BY <1>3, <1>10, <2>1, <3>1, <3>2 DEF RunInv
  <2>8. SyncInv'
    BY <1>3, <1>4, <2>3, <2>6 DEF SyncInv, Stored
  <2>9. CookiesMatch'
    BY <1>3, <1>4, <2>1, <2>6 DEF CookiesMatch, RunsFor, Fits
  <2>10. /\ core_pick' \in [Cpu -> Task \cup {Idle, None}] /\ need_resched' \in [Cpu -> BOOLEAN]
         /\ picked' \in [Cpu -> BOOLEAN]
    BY <2>1 DEF SelectionInv, TypeOK
  <2> QED
    BY <1>9, <2>1, <2>7, <2>8, <2>9, <2>10 DEF SelectionInv, TypeOK
<1>15. CASE PickCoreWide(c, q, tree, valid, n)
  <2>1. core_enabled /\ c \in Smt
    BY <1>3, <1>15 DEF PickCoreWide, Smt, SelectionInv, TypeOK
  <2>2. \A i \in Smt : tree[i] \subseteq IF i = c THEN q ELSE queue[i]
    BY <1>5 DEF Smt
  <2>3. PICK x \in Cookie \cup {None}, final \in [Smt -> Task \cup {Idle}], fi \in BOOLEAN :
           /\ \A i \in Smt : /\ final[i] \in (IF i = c THEN q ELSE queue[i]) \cup {Idle}
                             /\ Fits(final[i], x)
           /\ n = final[c]
           /\ sync' = [sync EXCEPT ![core[c]] = x]
           /\ forceidle' = [forceidle EXCEPT ![core[c]] = fi]
           /\ core_pick' = [i \in Cpu |-> IF i \in Smt \ {c} /\ final[i] # curr[i] THEN final[i]
                                          ELSE IF i \in Smt THEN None ELSE core_pick[i]]
           /\ need_resched' = [i \in Cpu |-> i # c /\ (need_resched[i]
                                                 \/ (i \in Smt \ {c} /\ final[i] # curr[i]))]
           /\ picked' = [picked EXCEPT ![core[c]] = TRUE]
           /\ unsched' = [i \in Cpu |-> IF i \in Smt THEN i # c ELSE unsched[i]]
    <3>1. q \in SUBSET queue[c]
      BY <1>5
    <3>2. SelectedFor(c, q, n)
      BY <1>5, <1>15, <2>1, <2>2, <3>1, CoreWide
    <3> QED
      BY <3>2 DEF SelectedFor
  <2>4. core[c] \in Cpu /\ \A d \in Smt : core[d] = core[c]
    BY <2>1 DEF SelectionInv, LeadInv, Smt
  <2>5. sync'[core[c]] = x /\ Smt \subseteq Cpu
    BY <2>3, <2>4 DEF SelectionInv, TypeOK, Smt
  <2>6. \A d \in Smt : RunsFor(d, x)'
    <3>1. \A d \in Smt : d # c => curr'[d] = curr[d]
      BY <1>2, <2>5 DEF SelectionInv, TypeOK
    <3>2. curr'[c] = final[c]
      BY <1>2, <2>3 DEF SelectionInv, TypeOK
    <3>3. ASSUME NEW d \in Smt, d # c, final[d] # curr[d] PROVE need_resched'[d]
      BY <2>3, <2>5, <3>3
    <3> QED
      BY <1>3, <2>1, <2>3, <3>1, <3>2, <3>3 DEF RunsFor, Fits
  <2>7. \A d \in Smt : core_pick'[d] # None => core_pick'[d] = final[d] /\ d # c
    BY <2>3, <2>5
  <2>8. RunInv'
    <3>1. ~stale => PicksAreValid'
      BY <1>3, <1>4, <2>3, <2>5, <2>7 DEF PicksAreValid, Stored, SelectionInv, TypeOK
    <3>2. ~stale => \A d \in Cpu : hp'[d] = "dead" => core_pick'[d] = None
      <4> SUFFICES ASSUME ~stale, NEW d \in Cpu, hp'[d] = "dead" PROVE core_pick'[d] = None
        OBVIOUS
      <4>1. d \notin Smt /\ hp[d] = "dead"
        BY <1>3, <1>4, <2>1 DEF SelectionInv, TypeOK, Smt
      <4>2. core_pick'[d] = core_pick[d]
        BY <2>3, <4>1
      <4> QED
        BY <2>1, <4>1, <4>2 DEF SelectionInv, RunInv
    <3> QED
      BY <1>3, <1>10, <2>1, <2>3, <3>1, <3>2 DEF RunInv
  <2>9. SyncInv'
    <3>1. \A d \in Smt : Stored(d, picked[core[d]])' => Fits(core_pick[d], sync[core[d]])'
      BY <1>3, <2>3, <2>4, <2>5, <2>7 DEF Stored, Fits
    <3>2. \A d \in Smt : sync'[core'[d]] = x
      BY <1>3, <2>4, <2>5
    <3>3. \A d \in Smt : ~need_sync(d)' => x = None
      BY <3>2 DEF need_sync
    <3> QED
      BY <1>4, <2>6, <3>1, <3>2, <3>3 DEF SyncInv
  <2>10. CookiesMatch'
    BY <1>4, <2>6 DEF CookiesMatch, RunsFor, Fits
  <2>11. /\ picked' \in [Cpu -> BOOLEAN] /\ sync' \in [Cpu -> Cookie \cup {None}]
         /\ forceidle' \in [Cpu -> BOOLEAN] /\ core_pick' \in [Cpu -> Task \cup {Idle, None}]
         /\ unsched' \in [Cpu -> BOOLEAN] /\ need_resched' \in [Cpu -> BOOLEAN]
    BY <2>3 DEF SelectionInv, TypeOK
  <2>12. n \in q \cup {Idle}
    BY <2>1, <2>3
  <2> QED
    BY <1>9, <2>8, <2>9, <2>10, <2>11, <2>12
<1> QED
  BY <1>2, <1>11, <1>12, <1>13, <1>14, <1>15

-----------------------------------------------------------------------------
(* What the siblings run and have stored stays as it is when the trees and *)
(* the queues change for tasks that they do not run.                       *)
LEMMA SelectionFrame ==
  ASSUME SelectionInv,
         UNCHANGED <<core_cookie, curr, core_enabled, core, sync, forceidle, pickVars, hp, stale>>,
         \A c \in Cpu : need_resched[c] => need_resched'[c],
         core_enabled => \A c \in Smt : picked'[core[c]] =>
           picked[core[c]] /\ (~stale /\ core_pick[c] \in queue[c] => core_pick[c] \in queue'[c]),
         ~stale => \A c \in Cpu : curr[c] \in queue[c] => curr[c] \in queue'[c]
  PROVE  RunInv' /\ SyncInv' /\ CookiesMatch' /\ LeadInv'
<1>. USE DEF pickVars
<1>1. Smt' = Smt /\ Smt \subseteq Cpu
  BY DEF Smt
<1>2. core_enabled => \A c \in Smt : Stored(c, picked[core[c]])' => Stored(c, picked[core[c]])
  BY DEF Stored
<1>3. RunInv'
  <2>1. ASSUME ~stale PROVE PicksAreValid'
    BY <1>1, <1>2, <2>1 DEF SelectionInv, RunInv, PicksAreValid, Stored
  <2> QED
    BY <2>1 DEF SelectionInv, RunInv
<1>4. \A c \in Smt : \A x : RunsFor(c, x) => RunsFor(c, x)'
  BY <1>1 DEF RunsFor, Fits
<1>5. SyncInv'
  <2> SUFFICES ASSUME ~stale, core_enabled, NEW c \in Smt
               PROVE  /\ Stored(c, picked[core[c]])' =>
                           /\ Fits(core_pick[c], sync[core[c]])'
                           /\ \A d \in Smt : RunsFor(d, sync[core[c]])'
                      /\ ~need_sync(c)' => \A d \in Smt : RunsFor(d, None)'
    BY <1>1 DEF SyncInv
  <2>1. need_sync(c)' = need_sync(c) /\ sync'[core'[c]] = sync[core[c]]
    BY DEF need_sync
  <2>2. Fits(core_pick[c], sync[core[c]])' <=> Fits(core_pick[c], sync[core[c]])
    BY DEF Fits
  <2> QED
    BY <1>2, <1>4, <2>1, <2>2 DEF SelectionInv, SyncInv
<1>6. CookiesMatch'
  BY <1>1 DEF SelectionInv, CookiesMatch
<1>7. LeadInv'
  BY <1>1 DEF SelectionInv, LeadInv
<1> QED
  BY <1>3, <1>5, <1>6, <1>7

(* The task sequence of the core has advanced for all siblings.            *)
LEMMA AdvanceForAll ==
  ASSUME SelectionInv, NEW r \in Smt, Advance(r)
  PROVE  /\ picked' \in [Cpu -> BOOLEAN]
         /\ core_enabled => \A c \in Smt : ~picked'[core[c]]
         /\ ~core_enabled => picked' = picked
BY DEF SelectionInv, TypeOK, LeadInv, Smt, Advance

LEMMA ActivateStep ==
  ASSUME SelectionInv, NEW r \in Cpu, NEW t \in Task, activate_task(r, t) PROVE SelectionInv'
<1>1. r \in Smt /\ \A c \in Cpu : t \notin queue[c]
  BY RunnableIsQueued DEF activate_task, Smt, SelectionInv
<1>2. /\ queue' = [queue EXCEPT ![r] = @ \cup {t}]
      /\ core_tree' = Entered(core_tree, r, t)
      /\ UNCHANGED <<core_cookie, curr, balance, core_enabled, core, sync, forceidle, pickVars, hp, stale>>
      /\ need_resched' = [need_resched EXCEPT ![r] = @ \/ curr[r] = Idle]
      /\ Advance(r)
  BY DEF activate_task
<1>3. \A c \in Cpu : queue'[c] = (IF c = r THEN queue[c] \cup {t} ELSE queue[c])
  BY <1>2 DEF SelectionInv, TypeOK
<1>4. TypeOK'
  BY <1>1, <1>2, AdvanceForAll DEF SelectionInv, TypeOK, Entered, pickVars
<1>5. PlaceInv'
  <2>1. \A c \in Cpu : core_tree'[c] = {u \in queue'[c] : core_cookie'[u] # None}
    BY <1>2, <1>3 DEF SelectionInv, TypeOK, PlaceInv, Entered
  <2>2. Smt' = Smt
    BY <1>2 DEF Smt
  <2> QED
    BY <1>1, <1>2, <1>3, <2>1, <2>2 DEF SelectionInv, PlaceInv
<1>6. RunInv' /\ SyncInv' /\ CookiesMatch' /\ LeadInv'
  <2>1. \A c \in Cpu : need_resched[c] => need_resched'[c]
    BY <1>2 DEF SelectionInv, TypeOK
  <2> QED
    BY <1>1, <1>2, <1>3, <2>1, AdvanceForAll, SelectionFrame DEF SelectionInv, TypeOK, Smt, LeadInv
<1> QED
  BY <1>4, <1>5, <1>6 DEF SelectionInv

LEMMA DeactivateStep ==
  ASSUME SelectionInv, NEW r \in Cpu, NEW t \in Task, deactivate_task(r, t) PROVE SelectionInv'
<1>1. r \in Smt /\ t \in queue[r] /\ curr[r] # t
  BY DEF deactivate_task, Smt
<1>2. /\ queue' = [queue EXCEPT ![r] = @ \ {t}]
      /\ core_tree' = Erased(core_tree, r, t)
      /\ UNCHANGED <<core_cookie, curr, balance, core_enabled, core, sync, forceidle, pickVars, hp, stale>>
      /\ need_resched' = [need_resched EXCEPT ![r] = @ \/ LastLeaves(r, t)]
      /\ Advance(r)
  BY DEF deactivate_task
<1>3. \A c \in Cpu : queue'[c] = (IF c = r THEN queue[c] \ {t} ELSE queue[c])
  BY <1>2 DEF SelectionInv, TypeOK
<1>4. TypeOK'
  <2>1. LastLeaves(r, t) \in BOOLEAN
    BY DEF LastLeaves, SelectionInv, TypeOK
  <2> QED
    BY <1>1, <1>2, <2>1, AdvanceForAll DEF SelectionInv, TypeOK, Erased, pickVars
<1>5. PlaceInv'
  <2>1. \A c \in Cpu : core_tree'[c] = {u \in queue'[c] : core_cookie'[u] # None}
    BY <1>2, <1>3 DEF SelectionInv, TypeOK, PlaceInv, Erased
  <2>2. Smt' = Smt
    BY <1>2 DEF Smt
  <2> QED
    BY <1>1, <1>2, <1>3, <2>1, <2>2 DEF SelectionInv, PlaceInv
<1>6. RunInv' /\ SyncInv' /\ CookiesMatch' /\ LeadInv'
  <2>1. \A c \in Cpu : need_resched[c] => need_resched'[c]
    BY <1>2 DEF SelectionInv, TypeOK
  <2> QED
    BY <1>1, <1>2, <1>3, <2>1, AdvanceForAll, SelectionFrame DEF SelectionInv, PlaceInv
<1> QED
  BY <1>4, <1>5, <1>6 DEF SelectionInv

LEMMA StealStep ==
  ASSUME SelectionInv, NEW c \in Cpu, NEW d \in Cpu, NEW t \in Task, try_steal_cookie(c, d, t)
  PROVE  SelectionInv'
<1>1. /\ c \in Smt /\ d \in Smt /\ c # d /\ t \in queue[d] /\ t # curr[d]
      /\ core_cookie[t] # None /\ core_enabled
  BY DEF try_steal_cookie, Smt, SelectionInv, PlaceInv, TypeOK
<1>2. /\ queue' = [queue EXCEPT ![d] = @ \ {t}, ![c] = @ \cup {t}]
      /\ core_tree' = Entered(Erased(core_tree, d, t), c, t)
      /\ UNCHANGED <<core_cookie, curr, core_enabled, core, sync, forceidle, pickVars, hp, stale>>
      /\ need_resched' = [need_resched EXCEPT ![c] = TRUE, ![d] = @ \/ LastLeaves(d, t)]
      /\ balance' = balance \ {c}
      /\ Advance(c)
  BY DEF try_steal_cookie
<1>3. \A e \in Cpu : queue'[e] = (IF e = c THEN queue[c] \cup {t}
                                  ELSE IF e = d THEN queue[d] \ {t} ELSE queue[e])
  BY <1>1, <1>2 DEF SelectionInv, TypeOK
<1>4. TypeOK'
  <2>1. LastLeaves(d, t) \in BOOLEAN
    BY DEF LastLeaves, SelectionInv, TypeOK
  <2>2. core_tree' \in [Cpu -> SUBSET Task] /\ queue' \in [Cpu -> SUBSET Task]
    BY <1>2 DEF SelectionInv, TypeOK, Erased, Entered
  <2>3. need_resched' \in [Cpu -> BOOLEAN]
    BY <1>2, <2>1 DEF SelectionInv, TypeOK
  <2> QED
    BY <1>1, <1>2, <2>2, <2>3, AdvanceForAll DEF SelectionInv, TypeOK, pickVars
<1>5. PlaceInv'
  <2>1. \A e \in Cpu : core_tree'[e] = (IF e = c THEN core_tree[c] \cup {t}
                                        ELSE IF e = d THEN core_tree[d] \ {t} ELSE core_tree[e])
    BY <1>1, <1>2 DEF SelectionInv, TypeOK, Erased, Entered
  <2>2. ASSUME NEW e \in Cpu PROVE core_tree'[e] = {u \in queue'[e] : core_cookie'[u] # None}
    <3>1. core_tree[e] = {u \in queue[e] : core_cookie[u] # None}
      BY DEF SelectionInv, PlaceInv
    <3>2. core_cookie' = core_cookie
      BY <1>2
    <3> QED
      BY <1>1, <1>3, <2>1, <3>1, <3>2
  <2>3. Smt' = Smt /\ core_enabled' = core_enabled /\ curr' = curr
    BY <1>2 DEF Smt
  <2>4. ASSUME NEW e \in Cpu, NEW f \in Cpu, e # f PROVE queue'[e] \cap queue'[f] = {}
    <3>1. queue[e] \cap queue[f] = {} /\ \A g \in Cpu : g # d => t \notin queue[g]
      BY <1>1, <2>4 DEF SelectionInv, PlaceInv
    <3> QED
      BY <1>1, <1>3, <2>4, <3>1
  <2>5. \A e \in Cpu \ Smt : queue'[e] = {} /\ curr'[e] = Idle
    BY <1>1, <1>3, <2>3 DEF SelectionInv, PlaceInv
  <2> QED
    BY <1>1, <2>2, <2>3, <2>4, <2>5 DEF PlaceInv
<1>6. RunInv' /\ SyncInv' /\ CookiesMatch' /\ LeadInv'
  <2>1. \A e \in Cpu : need_resched[e] => need_resched'[e]
    BY <1>2 DEF SelectionInv, TypeOK
  <2>2. \A e \in Smt : ~picked'[core[e]]
    BY <1>1, <1>2, AdvanceForAll
  <2>3. \A e \in Cpu : curr[e] \in queue[e] => curr[e] \in queue'[e]
    BY <1>1, <1>3
  <2> QED
    BY <1>2, <2>1, <2>2, <2>3, SelectionFrame
<1> QED
  BY <1>4, <1>5, <1>6 DEF SelectionInv

(* A task's cookie changes: the core's sequence advances if it is in a     *)
(* tree, and the CPU that runs it is told.                                 *)
LEMMA CookieStep ==
  ASSUME SelectionInv, NEW r \in Cpu, NEW t \in Task, NEW x \in Cookie \cup {None},
         sched_core_update_cookie(r, t, x)
  PROVE  SelectionInv'
<1>1. /\ r \in Smt /\ core_enabled /\ (t \in queue[r] \/ \A c \in Cpu : t \notin queue[c])
      /\ core_cookie[t] # x
  BY RunnableIsQueued DEF sched_core_update_cookie, Smt, SelectionInv
<1>2. /\ core_cookie' = [core_cookie EXCEPT ![t] = x]
      /\ core_tree' = [core_tree EXCEPT ![r] =
                         IF x # None /\ t \in queue[r] THEN @ \cup {t} ELSE @ \ {t}]
      /\ IF t \in core_tree[r] \/ (x # None /\ t \in queue[r]) THEN Advance(r) ELSE UNCHANGED picked
      /\ need_resched' = [need_resched EXCEPT ![r] = @ \/ curr[r] = t]
      /\ UNCHANGED <<queue, curr, balance, core_enabled, core, sync, forceidle, pickVars, hp, stale>>
  BY DEF sched_core_update_cookie
<1>3. \A c \in Cpu : c # r => t \notin queue[c]
  BY <1>1 DEF SelectionInv, PlaceInv
<1>4. IF t \in queue[r] THEN Advance(r) ELSE UNCHANGED picked
  BY <1>1, <1>2 DEF SelectionInv, PlaceInv, TypeOK
<1>5. Smt' = Smt /\ Smt \subseteq Cpu
  BY <1>2 DEF Smt
<1>6. TypeOK'
  BY <1>1, <1>2, <1>4, AdvanceForAll DEF SelectionInv, TypeOK, pickVars
<1>7. PlaceInv'
  <2>1. \A c \in Cpu : core_tree'[c] = {u \in queue'[c] : core_cookie'[u] # None}
    BY <1>2, <1>3 DEF SelectionInv, TypeOK, PlaceInv
  <2> QED
    BY <1>1, <1>2, <1>5, <2>1 DEF SelectionInv, PlaceInv
<1>8. LeadInv'
  BY <1>2, <1>5 DEF SelectionInv, LeadInv
<1>9. \A c \in Smt : picked'[core[c]] => picked[core[c]] /\ t \notin queue[r]
  BY <1>1, <1>4, AdvanceForAll
<1>10. \A c \in Smt : Stored(c, picked[core[c]])' => Stored(c, picked[core[c]]) /\ t \notin queue[r]
  BY <1>2, <1>9 DEF Stored, pickVars
<1>11. RunInv'
  <2>1. ~stale => PicksAreValid'
    BY <1>1, <1>2, <1>5, <1>10 DEF SelectionInv, RunInv, PicksAreValid, pickVars
  <2> QED
    BY <1>1, <1>2, <2>1 DEF SelectionInv, RunInv, pickVars
<1>12. ASSUME ~stale, NEW d \in Smt
       PROVE  /\ curr[d] = t => need_resched'[d]
              /\ \A y : RunsFor(d, y) => RunsFor(d, y)'
  <2>1. curr[d] = t => d = r
    BY <1>3, <1>5, <1>12, NameAssumption DEF SelectionInv, RunInv
  <2>2. /\ curr[d] = t => need_resched'[d]
        /\ need_resched[d] => need_resched'[d]
    BY <1>2, <1>5, <2>1 DEF SelectionInv, TypeOK
  <2>3. curr[d] # t /\ curr[d] # Idle => core_cookie'[curr[d]] = core_cookie[curr[d]]
    BY <1>2, <1>5 DEF SelectionInv, TypeOK
  <2> QED
    BY <1>2, <2>2, <2>3 DEF RunsFor, Fits
<1>13. SyncInv'
  <2> SUFFICES ASSUME ~stale, NEW c \in Smt
               PROVE  /\ Stored(c, picked[core[c]])' =>
                           /\ Fits(core_pick[c], sync[core[c]])'
                           /\ \A d \in Smt : RunsFor(d, sync[core[c]])'
                      /\ ~need_sync(c)' => \A d \in Smt : RunsFor(d, None)'
    BY <1>2, <1>5 DEF SyncInv
  <2>1. need_sync(c)' = need_sync(c) /\ sync'[core'[c]] = sync[core[c]]
    BY <1>2 DEF need_sync
  <2>2. ASSUME Stored(c, picked[core[c]])' PROVE Fits(core_pick[c], sync[core[c]])'
    <3>1. Stored(c, picked[core[c]]) /\ t \notin queue[r]
      BY <1>10, <2>2
    <3>2. core_pick[c] \in queue[c] \cup {Idle} /\ Fits(core_pick[c], sync[core[c]])
      BY <1>1, <3>1 DEF SelectionInv, RunInv, SyncInv, PicksAreValid
    <3>3. core_pick[c] # t
      BY <1>3, <1>5, <3>1, <3>2, NameAssumption
    <3> QED
      BY <1>2, <1>5, <3>2, <3>3 DEF Fits, SelectionInv, TypeOK, pickVars
  <2> QED
    BY <1>1, <1>10, <1>12, <2>1, <2>2 DEF SelectionInv, SyncInv
<1>14. CookiesMatch'
  <2> SUFFICES ASSUME ~stale, NEW c \in Smt, NEW d \in Smt, curr[c] # Idle, curr[d] # Idle,
                      core_cookie'[curr[c]] # core_cookie'[curr[d]]
               PROVE  need_resched'[c] \/ need_resched'[d]
    BY <1>2, <1>5 DEF CookiesMatch
  <2>1. CASE curr[c] = t \/ curr[d] = t
    BY <1>12, <2>1
  <2>2. CASE curr[c] # t /\ curr[d] # t
    BY <1>2, <1>5, <2>2 DEF SelectionInv, TypeOK, CookiesMatch
  <2> QED
    BY <2>1, <2>2
<1> QED
  BY <1>6, <1>7, <1>8, <1>11, <1>13, <1>14 DEF SelectionInv

-----------------------------------------------------------------------------
(* Hotplug: every CPU that stays up finds with its leader what it found    *)
(* before, and a CPU that comes runs nothing and has nothing stored.       *)
LEMMA HotplugFrame ==
  ASSUME SelectionInv, UNCHANGED <<taskVars, curr, need_resched, core_enabled, core_pick, stale>>,
         \A d \in Smt' \ Smt : ~stale /\ core_enabled => core_pick[d] = None,
         \A d \in Smt' \cap Smt : unsched'[d] = unsched[d] /\ picked'[core'[d]] = picked[core[d]],
         \A d \in Smt' \cap Smt : sync'[core'[d]] = sync[core[d]] /\ need_sync(d)' = need_sync(d),
         \A d \in Smt' \ Smt :
           \E e \in Smt : sync'[core'[d]] = sync[core[e]] /\ need_sync(d)' = need_sync(e),
         \A d \in Cpu : hp'[d] = "dead" => hp[d] = "dead"
  PROVE  RunInv' /\ SyncInv' /\ CookiesMatch'
<1>. USE NameAssumption DEF taskVars
<1>0. /\ core_cookie' = core_cookie /\ curr' = curr /\ core_pick' = core_pick
      /\ core_enabled' = core_enabled /\ stale' = stale
  OBVIOUS
<1>1. Smt \subseteq Cpu /\ Smt' \subseteq Cpu
  BY DEF Smt
<1>2. \A d \in Smt' \ Smt : curr[d] = Idle
  BY <1>1 DEF SelectionInv, PlaceInv
<1>3. ~stale /\ core_enabled => \A d \in Smt' :
         Stored(d, picked[core[d]])' => d \in Smt /\ Stored(d, picked[core[d]])
  BY DEF Stored
<1>4. RunInv'
  <2>1. ~stale => PicksAreValid'
    BY <1>3 DEF SelectionInv, RunInv, PicksAreValid
  <2> QED
    BY <2>1 DEF SelectionInv, RunInv
<1>5. \A d \in Cpu : \A x : RunsFor(d, x)' <=> RunsFor(d, x)
  BY DEF RunsFor, Fits
<1>6. ASSUME NEW x, \A d \in Smt : RunsFor(d, x) PROVE (\A d \in Smt : RunsFor(d, x))'
  <2>1. \A d \in Smt' \ Smt : RunsFor(d, x)
    BY <1>2 DEF RunsFor, Fits
  <2> QED
    BY <1>1, <1>5, <1>6, <2>1
<1>7. SyncInv'
  <2> SUFFICES ASSUME ~stale, core_enabled, NEW c \in Smt'
               PROVE  /\ Stored(c, picked[core[c]])' =>
                           /\ Fits(core_pick[c], sync[core[c]])'
                           /\ (\A d \in Smt : RunsFor(d, sync[core[c]]))'
                      /\ ~need_sync(c)' => (\A d \in Smt : RunsFor(d, None))'
    BY <1>0 DEF SyncInv
  <2>1. ASSUME Stored(c, picked[core[c]])'
        PROVE  /\ Fits(core_pick[c], sync[core[c]])'
               /\ (\A d \in Smt : RunsFor(d, sync[core[c]]))'
    <3>1. c \in Smt /\ Stored(c, picked[core[c]]) /\ sync'[core'[c]] = sync[core[c]]
      BY <1>3, <2>1
    <3>2. Fits(core_pick[c], sync[core[c]]) /\ \A d \in Smt : RunsFor(d, sync[core[c]])
      BY <3>1 DEF SelectionInv, SyncInv
    <3>3. Fits(core_pick[c], sync[core[c]])'
      BY <1>0, <3>1, <3>2 DEF Fits
    <3>4. (\A d \in Smt : RunsFor(d, sync[core[c]]))'
      BY <1>6, <3>1, <3>2 DEF RunsFor, Fits
    <3> QED
      BY <3>3, <3>4
  <2>2. ASSUME ~need_sync(c)' PROVE (\A d \in Smt : RunsFor(d, None))'
    <3>1. \E e \in Smt : ~need_sync(e)
      BY <2>2
    <3>2. \A d \in Smt : RunsFor(d, None)
      BY <3>1 DEF SelectionInv, SyncInv
    <3> QED
      BY <1>6, <3>2
  <2> QED
    BY <2>1, <2>2
<1>8. CookiesMatch'
  BY <1>2 DEF SelectionInv, CookiesMatch
<1> QED
  BY <1>4, <1>7, <1>8

LEMMA CpuDeactivateStep ==
  ASSUME SelectionInv, NEW c \in Cpu, sched_core_cpu_deactivate(c) PROVE SelectionInv'
<1>1. /\ UNCHANGED <<taskVars, curr, need_resched, balance, core_enabled, pickVars, stale>>
      /\ hp' = [hp EXCEPT ![c] = "leaving"] /\ c \in Smt /\ Smt # {c}
      /\ \A d \in Cpu : hp[d] \in {"up", "dead"}
  BY DEF sched_core_cpu_deactivate, Smt
<1>2. Smt' = Smt /\ \A d \in Cpu : hp'[d] = "dead" => hp[d] = "dead"
  BY <1>1 DEF Smt, SelectionInv, TypeOK
<1>. DEFINE new == Min(Smt \ {c})
<1>3. new \in Smt \ {c} /\ new \in Cpu
  <2>1. Smt \ {c} # {} /\ Smt \ {c} \in SUBSET Cpu
    BY <1>1 DEF Smt
  <2> QED
    BY <2>1, MinIsMember
<1>4. CASE core[c] = c
  <2>1. /\ core' = [t \in Cpu |-> IF t \in Smt THEN new ELSE core[t]]
        /\ picked' = [picked EXCEPT ![new] = picked[c]] /\ sync' = [sync EXCEPT ![new] = sync[c]]
        /\ forceidle' = [forceidle EXCEPT ![new] = forceidle[c]]
    BY <1>4 DEF sched_core_cpu_deactivate, HandOver
  <2>. HIDE DEF new
  <2>2. \A d \in Smt : core[d] = c /\ core'[d] = new /\ d \in Cpu
    BY <1>1, <1>4, <2>1 DEF SelectionInv, LeadInv, Smt
  <2>3. picked'[new] = picked[c] /\ sync'[new] = sync[c] /\ forceidle'[new] = forceidle[c]
    BY <1>3, <2>1 DEF SelectionInv, TypeOK
  <2>4. \A d \in Smt : /\ picked'[core'[d]] = picked[core[d]] /\ sync'[core'[d]] = sync[core[d]]
                       /\ need_sync(d)' = need_sync(d) /\ unsched'[d] = unsched[d]
    BY <1>1, <2>2, <2>3 DEF need_sync, pickVars
  <2>5. RunInv' /\ SyncInv' /\ CookiesMatch'
    BY <1>1, <1>2, <2>4, HotplugFrame DEF pickVars
  <2>6. LeadInv'
    BY <1>1, <1>2, <1>3, <2>2 DEF SelectionInv, LeadInv, TypeOK
  <2>7. PlaceInv'
    BY <1>1, <1>2 DEF SelectionInv, PlaceInv, taskVars
  <2>8. TypeOK'
    BY <1>1, <1>3, <2>1 DEF SelectionInv, TypeOK, taskVars, pickVars
  <2> QED
    BY <2>5, <2>6, <2>7, <2>8 DEF SelectionInv
<1>5. CASE core[c] # c
  <2>1. UNCHANGED coreVars
    BY <1>5 DEF sched_core_cpu_deactivate
  <2>2. RunInv' /\ SyncInv' /\ CookiesMatch'
    BY <1>1, <1>2, <2>1, HotplugFrame DEF pickVars, coreVars, need_sync
  <2>3. LeadInv'
    BY <1>1, <1>2, <1>5, <2>1 DEF SelectionInv, LeadInv, TypeOK, coreVars
  <2>4. PlaceInv'
    BY <1>1, <1>2 DEF SelectionInv, PlaceInv, taskVars
  <2>5. TypeOK'
    BY <1>1, <2>1 DEF SelectionInv, TypeOK, taskVars, pickVars, coreVars
  <2> QED
    BY <2>2, <2>3, <2>4, <2>5 DEF SelectionInv
<1> QED
  BY <1>4, <1>5

LEMMA RefusedStep ==
  ASSUME SelectionInv, NEW c \in Cpu, Refused(c) PROVE SelectionInv'
<1>1. /\ UNCHANGED <<taskVars, curr, need_resched, balance, core_enabled, coreVars, pickVars, stale>>
      /\ hp' = [hp EXCEPT ![c] = "up"] /\ hp[c] = "leaving"
  BY DEF Refused
<1>2. Smt' = Smt /\ \A d \in Cpu : hp'[d] = "dead" => hp[d] = "dead"
  BY <1>1 DEF Smt, SelectionInv, TypeOK
<1>3. RunInv' /\ SyncInv' /\ CookiesMatch'
  BY <1>1, <1>2, HotplugFrame DEF pickVars, coreVars, need_sync
<1>4. LeadInv'
  BY <1>1, <1>2 DEF SelectionInv, LeadInv, TypeOK, coreVars
<1>5. PlaceInv'
  BY <1>1, <1>2 DEF SelectionInv, PlaceInv, taskVars
<1>6. TypeOK'
  BY <1>1 DEF SelectionInv, TypeOK, taskVars, pickVars, coreVars
<1> QED
  BY <1>3, <1>4, <1>5, <1>6 DEF SelectionInv

LEMMA DyingStep ==
  ASSUME SelectionInv, NEW c \in Cpu, sched_core_cpu_dying(c) PROVE SelectionInv'
<1>1. /\ UNCHANGED <<taskVars, curr, need_resched, balance, core_enabled, picked, sync,
                     forceidle, pickVars, stale>>
      /\ hp' = [hp EXCEPT ![c] = "dying"] /\ core' = [core EXCEPT ![c] = c]
      /\ hp[c] = "leaving" /\ queue[c] = {} /\ curr[c] = Idle
  BY DEF sched_core_cpu_dying
<1>2. /\ Smt' = Smt \ {c} /\ c \in Smt /\ Smt \subseteq Cpu
      /\ \A d \in Cpu : hp'[d] = "dead" => hp[d] = "dead"
  BY <1>1 DEF Smt, SelectionInv, TypeOK
<1>3. \A d \in Smt' : core'[d] = core[d] /\ core[d] # c
  BY <1>1, <1>2 DEF SelectionInv, LeadInv, TypeOK
<1>4. RunInv' /\ SyncInv' /\ CookiesMatch'
  BY <1>1, <1>2, <1>3, HotplugFrame DEF pickVars, need_sync
<1>5. LeadInv'
  BY <1>1, <1>2, <1>3 DEF SelectionInv, LeadInv, TypeOK
<1>6. PlaceInv'
  BY <1>1, <1>2 DEF SelectionInv, PlaceInv, taskVars
<1>7. TypeOK'
  BY <1>1 DEF SelectionInv, TypeOK, taskVars, pickVars
<1> QED
  BY <1>4, <1>5, <1>6, <1>7 DEF SelectionInv

LEMMA StartingStep ==
  ASSUME SelectionInv, NEW c \in Cpu, sched_core_cpu_starting(c) PROVE SelectionInv'
<1>1. PICK t \in Smt : core[t] = t /\ core' = [core EXCEPT ![c] = t]
  BY DEF sched_core_cpu_starting
<1>2. /\ UNCHANGED <<taskVars, curr, need_resched, balance, core_enabled, picked, sync,
                     forceidle, core_pick, stale>>
      /\ hp' = [hp EXCEPT ![c] = "up"] /\ hp[c] = "dead"
      /\ \E differs \in BOOLEAN : unsched' = [unsched EXCEPT ![c] = differs]
  BY DEF sched_core_cpu_starting
<1>3. /\ Smt' = Smt \cup {c} /\ c \notin Smt /\ Smt \subseteq Cpu
      /\ \A d \in Cpu : hp'[d] = "dead" => hp[d] = "dead"
  BY <1>2 DEF Smt, SelectionInv, TypeOK
<1>4. \A d \in Smt : core[d] = t
  BY <1>1 DEF SelectionInv, LeadInv
<1>5. /\ \A d \in Smt : core'[d] = core[d] /\ unsched'[d] = unsched[d]
      /\ core'[c] = t
  BY <1>1, <1>2, <1>3 DEF SelectionInv, TypeOK
<1>6. ~stale /\ core_enabled => core_pick[c] = None
  BY <1>2 DEF SelectionInv, RunInv
<1>7. RunInv' /\ SyncInv' /\ CookiesMatch'
  <2>1. \A d \in Smt' \cap Smt : sync'[core'[d]] = sync[core[d]] /\ need_sync(d)' = need_sync(d)
    BY <1>2, <1>3, <1>5 DEF need_sync
  <2>2. sync'[core'[c]] = sync[core[t]] /\ need_sync(c)' = need_sync(t)
    BY <1>1, <1>2, <1>5 DEF need_sync
  <2>3. \A d \in Smt' \cap Smt : unsched'[d] = unsched[d] /\ picked'[core'[d]] = picked[core[d]]
    BY <1>2, <1>3, <1>5
  <2>4. \A d \in Smt' \ Smt : \E e \in Smt : sync'[core'[d]] = sync[core[e]] /\ need_sync(d)' = need_sync(e)
    BY <1>3, <2>2
  <2> QED
    BY <1>2, <1>3, <1>6, <2>1, <2>3, <2>4, HotplugFrame
<1>8. LeadInv'
  BY <1>1, <1>2, <1>3, <1>4, <1>5 DEF SelectionInv, LeadInv, TypeOK
<1>9. PlaceInv'
  BY <1>2, <1>3 DEF SelectionInv, PlaceInv, taskVars
<1>10. TypeOK'
  BY <1>1, <1>2, <1>3 DEF SelectionInv, TypeOK, taskVars
<1> QED
  BY <1>7, <1>8, <1>9, <1>10 DEF SelectionInv

(* The switch: nothing is stored when it is turned on, or this is the case *)
(* that the invariant says nothing of; and nobody has a cookie.            *)
LEMMA EnableStep ==
  ASSUME SelectionInv, Enable PROVE SelectionInv'
<1>. USE NameAssumption
<1>1. /\ UNCHANGED <<taskVars, curr, need_resched, balance, coreVars, pickVars, hp>>
      /\ core_enabled' = TRUE /\ ~core_enabled
      /\ stale' = (stale \/ \E c \in Cpu : OldPick(c))
  BY DEF Enable
<1>2. Smt' = Smt /\ Smt \subseteq Cpu
  BY <1>1 DEF Smt
<1>3. \A t \in Task : core_cookie[t] = None /\ core_cookie'[t] = None
  BY <1>1 DEF SelectionInv, PlaceInv, taskVars
<1>4. \A d \in Cpu : RunsFor(d, None)'
  BY <1>1, <1>3 DEF SelectionInv, TypeOK, RunsFor, Fits
<1>5. ~stale' => /\ ~stale
                 /\ \A c \in Smt : ~Stored(c, picked[core[c]])'
                 /\ \A c \in Cpu \ Smt : core_pick'[c] = None
  BY <1>1, <1>2 DEF OldPick, Stored, coreVars, pickVars
<1>6. RunInv'
  <2>1. ~stale' => PicksAreValid'
    BY <1>2, <1>5 DEF PicksAreValid
  <2>2. \A c \in Cpu : hp'[c] = "dead" => c \notin Smt
    BY <1>1 DEF Smt
  <2> QED
    BY <1>1, <1>5, <2>1, <2>2 DEF SelectionInv, RunInv, taskVars
<1>7. SyncInv'
  BY <1>2, <1>4, <1>5 DEF SyncInv
<1>8. CookiesMatch'
  BY <1>1, <1>2, <1>3 DEF SelectionInv, TypeOK, CookiesMatch
<1>9. LeadInv' /\ PlaceInv' /\ TypeOK'
  BY <1>1, <1>2 DEF SelectionInv, LeadInv, PlaceInv, TypeOK, taskVars, coreVars, pickVars
<1> QED
  BY <1>6, <1>7, <1>8, <1>9 DEF SelectionInv

LEMMA DisableStep ==
  ASSUME SelectionInv, Disable PROVE SelectionInv'
<1>1. /\ UNCHANGED <<taskVars, curr, need_resched, balance, coreVars, pickVars, hp, stale>>
      /\ core_enabled' = FALSE /\ \A t \in Task : core_cookie[t] = None
  BY DEF Disable
<1>2. Smt' = Smt
  BY <1>1 DEF Smt
<1>3. RunInv' /\ SyncInv'
  BY <1>1 DEF SelectionInv, RunInv, SyncInv, PicksAreValid, taskVars
<1>4. CookiesMatch' /\ LeadInv' /\ PlaceInv' /\ TypeOK'
  BY <1>1, <1>2 DEF SelectionInv, CookiesMatch, LeadInv, PlaceInv, TypeOK, taskVars, coreVars,
                    pickVars
<1> QED
  BY <1>3, <1>4 DEF SelectionInv

LEMMA SameStep ==
  ASSUME SelectionInv,
         UNCHANGED <<taskVars, curr, need_resched, core_enabled, coreVars, pickVars, hp, stale>>,
         balance' \subseteq Cpu
  PROVE  SelectionInv'
<1>1. Smt' = Smt
  BY DEF Smt
<1>2. RunInv' /\ SyncInv' /\ CookiesMatch' /\ LeadInv'
  BY SelectionFrame DEF taskVars, coreVars
<1>3. PlaceInv' /\ TypeOK'
  BY <1>1 DEF SelectionInv, PlaceInv, TypeOK, taskVars, coreVars, pickVars
<1> QED
  BY <1>2, <1>3 DEF SelectionInv

-----------------------------------------------------------------------------
LEMMA SelectionInit ==
  Init => SelectionInv
<1> SUFFICES ASSUME Init PROVE SelectionInv
  OBVIOUS
<1>. USE NameAssumption
<1>1. Min(Cpu) \in Cpu
  BY MinIsMember, CpuAssumption
<1>2. Smt = Cpu
  BY DEF Init, Smt
<1>3. TypeOK
  BY <1>1 DEF Init, TypeOK
<1>4. PlaceInv /\ LeadInv
  BY <1>1, <1>2 DEF Init, PlaceInv, LeadInv
<1>5. RunInv /\ SyncInv
  BY <1>2 DEF Init, RunInv, SyncInv, PicksAreValid
<1>6. CookiesMatch
  BY <1>2 DEF Init, CookiesMatch
<1> QED
  BY <1>3, <1>4, <1>5, <1>6 DEF SelectionInv

LEMMA SelectionStep ==
  SelectionInv /\ [Next]_vars => SelectionInv'
<1> SUFFICES ASSUME SelectionInv, [Next]_vars PROVE SelectionInv'
  OBVIOUS
<1>1. ASSUME NEW c \in Cpu, BalanceEnds(c) PROVE SelectionInv'
  <2>1. balance' \subseteq Cpu
    BY <1>1 DEF BalanceEnds, SelectionInv, TypeOK
  <2> QED
    BY <1>1, <2>1, SameStep DEF BalanceEnds
<1>2. ASSUME UNCHANGED vars PROVE SelectionInv'
  BY <1>2, SameStep DEF vars, SelectionInv, TypeOK
<1> QED
  BY <1>1, <1>2, ActivateStep, DeactivateStep, CookieStep, StealStep, ScheduleStep,
     CpuDeactivateStep, RefusedStep, DyingStep, StartingStep, EnableStep, DisableStep DEF Next

(* When two CPUs of a core run tasks with different cookies, one of them   *)
(* has been told to reschedule: for any number of siblings, tasks and      *)
(* cookies, through stealing, cookie changes and hotplug, unless core      *)
(* scheduling was turned on with a selection stored.                       *)
THEOREM CookiesStayMatched ==
  Spec => []CookiesMatch
<1>1. SelectionInv => CookiesMatch
  BY DEF SelectionInv
<1> QED
  BY <1>1, SelectionInit, SelectionStep, PTL DEF Spec

(* A pick that is taken for valid is queued where it is taken, every CPU   *)
(* runs what is queued on it, and the trees hold what they should.         *)
THEOREM PicksAndTrees ==
  Spec => []PicksStayValid
<1>1. SelectionInv => PicksStayValid
  <2> SUFFICES ASSUME SelectionInv PROVE PicksStayValid
    OBVIOUS
  <2>1. TreeIsCookied
    <3>1. \A c \in Cpu : core_tree[c] = {t \in queue[c] : core_cookie[t] # None}
      BY DEF SelectionInv, PlaceInv
    <3>2. ASSUME ~core_enabled, NEW c \in Cpu PROVE core_tree[c] = {}
      BY <3>1, <3>2 DEF SelectionInv, PlaceInv, TypeOK
    <3> QED
      BY <3>1, <3>2 DEF TreeIsCookied
  <2> QED
    BY <2>1 DEF SelectionInv, PlaceInv, RunInv, PicksStayValid
<1> QED
  BY <1>1, SelectionInit, SelectionStep, PTL DEF Spec
=============================================================================
