------------------------- MODULE TaskHistoryProofs --------------------------
(***************************************************************************)
(* What /proc/hw2 of assignment 2 (2017147581) relies on, for any number   *)
(* of processes, ring of any size and any number of samples: the ring      *)
(* holds the last samples, a reading that no sample disturbs prints them   *)
(* in order, the process recorded started last, and rmmod leaves nothing.  *)
(***************************************************************************)
EXTENDS TaskHistoryProps, Integers, TLAPS

(* The sample numbers whose area is written.                               *)
Storing == tk \in {"area", "stack", "index", "count"}
Written(m) == m < samples \/ tk \in {"idle", "walk", "stack", "index", "count"}

(* The stack in slot s is the last one that was found for a sample of s.   *)
HoldsLastStack(s) ==
  LET v == task_history[s]["stack"]
  IN  /\ v # None => v \in stacked /\ SlotOf(v) = s
      /\ \A n \in stacked : SlotOf(n) = s => n <= v

TypeInv ==
  /\ TypeOK
  /\ samples \in Nat /\ base \in Nat /\ i \in Nat /\ late \in BOOLEAN
  /\ rd \in {"closed", "open", "cond", "slot", "area", "stack"}
  /\ module \in {"absent", "loaded", "removing", "delete", "kill", "killing"}
  /\ entry \in [Half -> Nat] /\ out \in Seq([Half -> Nat])

(* The ring: the area of sample m is in its slot until sample m + MAX_TASKS *)
(* overwrites it, the last stack found until another is; current_index is the slot of the sample to come.                    *)
RingInv ==
  /\ Storing => samples >= 1 /\ latest # None
  /\ tk = "oops" => samples >= 1
  /\ task_count = IF Storing \/ tk = "oops" THEN samples - 1 ELSE samples
  /\ current_index = (IF tk = "count" THEN samples ELSE task_count) % MAX_TASKS
  /\ \A m \in 1 .. samples :
       m + MAX_TASKS > samples /\ Written(m) => task_history[SlotOf(m)]["area"] = m
  /\ \A s \in Slot : HoldsLastStack(s)

(* The entry proc_show prints k-th, counting from 1, is this sample's.     *)
SampleAt(k) == samples - Kept(samples) + k

(* A proc_show that began after the last sample was stored.                *)
Undisturbed == rd # "closed" /\ base = samples /\ tk \in {"idle", "walk"}

ShowInv ==
  /\ base <= samples
  /\ Storing => base < samples
  /\ module \in {"absent", "delete", "kill", "killing"} => rd = "closed"
  /\ rd = "closed" => base = 0 /\ out = <<>>
  /\ Undisturbed =>
       /\ \A k \in 1 .. Len(out) : IsEntryOf(SampleAt(k), out[k])
       /\ InShow => i = Len(out) /\ i <= Kept(samples)
       /\ rd = "open" /\ out # <<>> => Len(out) = Kept(samples)
       /\ rd \in {"slot", "area", "stack"} => i < Kept(samples)
       /\ rd = "slot" => idx = current_index
       /\ rd \in {"area", "stack"} => islot = SlotOf(SampleAt(i + 1))
       /\ rd = "stack" => entry["area"] = SampleAt(i + 1)

(* The walk has seen every process that stayed, up to the cursor.          *)
WalkInv ==
  /\ tk = "idle" => cursor = None /\ latest = None
  /\ stayed \subseteq alive
  /\ tk = "walk" => \A p \in stayed : p <= cursor => latest # None /\ Start[p] <= Start[latest]
  /\ tk = "area" => \A p \in stayed : latest # None /\ Start[p] <= Start[latest]

UnloadInv ==
  /\ queued => sched
  /\ module = "killing" => sched /\ ~queued
  /\ module = "absent" => ~queued /\ tk = "idle"
  /\ module \in {"kill", "killing", "absent"} /\ ~late => ~armed /\ cb = "idle"

HistoryInv == TypeInv /\ RingInv /\ ShowInv /\ WalkInv /\ UnloadInv

-----------------------------------------------------------------------------
(* Slot arithmetic.  A remainder is determined by a decomposition; what is *)
(* added before or after `% MAX_TASKS', as in hw2.c's slot expressions,    *)
(* comes to the same; numbers less than MAX_TASKS apart differ in it.      *)
LEMMA ModOf ==
  ASSUME NEW M \in Nat \ {0}, NEW q \in Int, NEW r \in 0 .. M - 1
  PROVE  (M * q + r) % M = r
  OBVIOUS

(* ... and every integer has such a decomposition. *)
LEMMA ModSplit ==
  ASSUME NEW M \in Nat \ {0}, NEW a \in Int
  PROVE  /\ a % M \in 0 .. M - 1
         /\ \E q \in Int : a = M * q + (a % M)
<1>1. a % M \in 0 .. M - 1
  OBVIOUS
<1>2. a = M * (a \div M) + (a % M) /\ a \div M \in Int
  OBVIOUS
<1> QED
  BY <1>1, <1>2

(* Reducing a summand first changes nothing. *)
LEMMA ModAdd ==
  ASSUME NEW M \in Nat \ {0}, NEW a \in Int, NEW b \in Int
  PROVE  ((a % M) + b) % M = (a + b) % M
<1>. DEFINE x == a % M
            r == (x + b) % M
<1>1. PICK q \in Int : a = M * q + x
  BY ModSplit
<1>2. x \in Int
  BY ModSplit
<1>. HIDE DEF x
<1>3. x + b \in Int
  BY <1>2
<1>4. r \in 0 .. M - 1 /\ \E k \in Int : x + b = M * k + r
  BY <1>3, ModSplit
<1>5. PICK k \in Int : x + b = M * k + r
  BY <1>4
<1>. HIDE DEF r
<1>6. a + b = M * (q + k) + r
  <2>1. M * (q + k) = M * q + M * k /\ M * q \in Int /\ M * k \in Int
    OBVIOUS
  <2>2. r \in Int
    BY <1>4
  <2> QED
    BY <1>1, <1>2, <1>5, <2>1, <2>2
<1>7. (a + b) % M = r
  <2>1. q + k \in Int
    OBVIOUS
  <2> QED
    BY <1>4, <1>6, <2>1, ModOf
<1> QED
  BY <1>7 DEF r, x

(* One round more ends in the same place. *)
LEMMA ModWrap ==
  ASSUME NEW M \in Nat \ {0}, NEW a \in Int
  PROVE  (a + M) % M = a % M
<1>1. PICK q \in Int : a = M * q + (a % M)
  BY ModSplit
<1>. DEFINE x == a % M
<1>2. x \in 0 .. M - 1
  BY ModSplit
<1>3. a + M = M * (q + 1) + x
  <2>1. M * (q + 1) = M * q + M
    OBVIOUS
  <2> QED
    BY <1>1, <2>1
<1>. HIDE DEF x
<1>4. (a + M) % M = x
  <2>1. q + 1 \in Int
    OBVIOUS
  <2> QED
    BY <1>2, <1>3, <2>1, ModOf
<1> QED
  BY <1>4 DEF x

(* Two numbers within one round do not meet. *)
LEMMA ModDistinct ==
  ASSUME NEW M \in Nat \ {0}, NEW a \in Int, NEW b \in Int, a < b, b < a + M
  PROVE  a % M # b % M
<1>1. SUFFICES ASSUME a % M = b % M PROVE FALSE
  OBVIOUS
<1>2. PICK q \in Int : a = M * q + (a % M)
  BY ModSplit
<1>3. PICK k \in Int : b = M * k + (b % M)
  BY ModSplit
<1>4. b - a = M * (k - q)
  <2>1. M * (k - q) = M * k - M * q
    OBVIOUS
  <2> QED
    BY <1>1, <1>2, <1>3, <2>1
<1>5. k - q >= 1
  BY <1>4
<1>6. M * (k - q) >= M
  BY <1>5
<1> QED
  BY <1>4, <1>6

-----------------------------------------------------------------------------
(* Every operation keeps the types.  They fall into four groups, and an    *)
(* operation keeps those of the groups it leaves alone.                    *)
LEMMA TypeStep ==
  ASSUME HistoryInv, [Next]_vars PROVE TypeInv'
<1>. USE DEF vars, procVars, timerVars, walkVars, tkVars, ring, rdVars, modVars
<1>. DEFINE ProcTypes ==
              /\ born \in 0 .. Procs /\ alive \subseteq 1 .. born /\ writer \subseteq alive
              /\ cursor \in 0 .. Procs /\ latest \in 0 .. Procs /\ stayed \subseteq Proc
            FlagTypes ==
              /\ armed \in BOOLEAN /\ cb \in {"idle", "schedule", "rearm"}
              /\ sched \in BOOLEAN /\ queued \in BOOLEAN
              /\ tk \in {"idle", "walk", "area", "stack", "index", "count", "oops"}
              /\ module \in {"absent", "loaded", "removing", "delete", "kill", "killing"}
              /\ late \in BOOLEAN
            RingTypes ==
              /\ task_history \in [Slot -> [Half -> Nat]]
              /\ current_index \in Slot /\ task_count \in Nat /\ samples \in Nat
              /\ stacked \subseteq 1 .. samples
            ShowTypes ==
              /\ rd \in {"closed", "open", "cond", "slot", "area", "stack"}
              /\ i \in Nat /\ islot \in Slot /\ idx \in Slot /\ room \in Nat /\ base \in Nat
              /\ entry \in [Half -> Nat] /\ out \in Seq([Half -> Nat])
<1>t. ProcTypes /\ FlagTypes /\ RingTypes /\ ShowTypes
  BY DEF HistoryInv, TypeInv, TypeOK
<1>q. SUFFICES ProcTypes' /\ FlagTypes' /\ RingTypes' /\ ShowTypes'
  BY DEF TypeInv, TypeOK
<1>p. ASSUME UNCHANGED <<born, alive, writer, cursor, latest, stayed>> PROVE ProcTypes'
  BY <1>p, <1>t
<1>f. ASSUME UNCHANGED <<armed, cb, sched, queued, tk, module, late>> PROVE FlagTypes'
  BY <1>f, <1>t
<1>r. ASSUME UNCHANGED <<task_history, current_index, task_count, samples, stacked>> PROVE RingTypes'
  BY <1>r, <1>t
<1>s. ASSUME UNCHANGED <<rd, i, islot, idx, room, base, entry, out>> PROVE ShowTypes'
  BY <1>s, <1>t
<1>z. 0 \in Slot /\ Blank \in [Half -> Nat]
  BY SizeAssumption DEF Slot, Blank, None
<1>n. Stored \in Nat
  BY <1>t DEF HistoryInv, RingInv, Storing, Stored
<1>. HIDE DEF ProcTypes, FlagTypes, RingTypes, ShowTypes
<1>1. CASE ProcFork
  <2>1. FlagTypes' /\ RingTypes' /\ ShowTypes'
    BY <1>1, <1>f, <1>r, <1>s DEF ProcFork
  <2>2. ProcTypes'
    BY <1>1, <1>t, ProcsAssumption DEF ProcFork, ProcTypes
  <2> QED
    BY <2>1, <2>2
<1>2. ASSUME NEW p \in Proc, ProcExit(p)
       PROVE  ProcTypes' /\ FlagTypes' /\ RingTypes' /\ ShowTypes'
  <2>1. FlagTypes' /\ RingTypes' /\ ShowTypes'
    BY <1>2, <1>f, <1>r, <1>s DEF ProcExit
  <2>2. ProcTypes'
    BY <1>2, <1>t DEF ProcExit, ProcTypes
  <2> QED
    BY <2>1, <2>2
<1>3. ASSUME NEW p \in Proc, MmapLock(p)
       PROVE  ProcTypes' /\ FlagTypes' /\ RingTypes' /\ ShowTypes'
  <2>1. FlagTypes' /\ RingTypes' /\ ShowTypes'
    BY <1>3, <1>f, <1>r, <1>s DEF MmapLock
  <2>2. ProcTypes'
    BY <1>3, <1>t DEF MmapLock, ProcTypes
  <2> QED
    BY <2>1, <2>2
<1>4. ASSUME NEW p \in Proc, MmapUnlock(p)
       PROVE  ProcTypes' /\ FlagTypes' /\ RingTypes' /\ ShowTypes'
  <2>1. FlagTypes' /\ RingTypes' /\ ShowTypes'
    BY <1>4, <1>f, <1>r, <1>s DEF MmapUnlock
  <2>2. ProcTypes'
    BY <1>4, <1>t DEF MmapUnlock, ProcTypes
  <2> QED
    BY <2>1, <2>2
<1>5. CASE TimerFire
  <2>1. ProcTypes' /\ RingTypes' /\ ShowTypes'
    BY <1>5, <1>p, <1>r, <1>s DEF TimerFire
  <2>2. FlagTypes'
    BY <1>5, <1>t DEF TimerFire, FlagTypes
  <2> QED
    BY <2>1, <2>2
<1>6. CASE CallbackSchedule
  <2>1. ProcTypes' /\ RingTypes' /\ ShowTypes'
    BY <1>6, <1>p, <1>r, <1>s DEF CallbackSchedule
  <2>2. FlagTypes'
    BY <1>6, <1>t DEF CallbackSchedule, FlagTypes
  <2> QED
    BY <2>1, <2>2
<1>7. CASE CallbackRearm
  <2>1. ProcTypes' /\ RingTypes' /\ ShowTypes'
    BY <1>7, <1>p, <1>r, <1>s DEF CallbackRearm
  <2>2. FlagTypes'
    BY <1>7, <1>t DEF CallbackRearm, FlagTypes
  <2> QED
    BY <2>1, <2>2
<1>8. CASE TaskletStart
  <2>1. RingTypes' /\ ShowTypes'
    BY <1>8, <1>r, <1>s DEF TaskletStart
  <2>2. ProcTypes'
    <3>1. stayed' \subseteq Proc
      BY <1>8, <1>t, ProcsAssumption DEF TaskletStart, ProcTypes, Proc
    <3> QED
      BY <1>8, <1>t, <3>1 DEF TaskletStart, ProcTypes
  <2>3. FlagTypes'
    BY <1>8, <1>t DEF TaskletStart, FlagTypes
  <2> QED
    BY <2>1, <2>2, <2>3
<1>9. CASE Visit
  <2>1. FlagTypes' /\ RingTypes' /\ ShowTypes'
    BY <1>9, <1>f, <1>r, <1>s DEF Visit
  <2>2. ProcTypes'
    <3>1. cursor' \in 0 .. Procs /\ latest' \in 0 .. Procs
      BY <1>9, <1>t, ProcsAssumption DEF Visit, ProcTypes, Proc
    <3> QED
      BY <1>9, <1>t, <3>1 DEF Visit, ProcTypes
  <2> QED
    BY <2>1, <2>2
<1>10. CASE WalkEnd
  <2>1. ShowTypes'
    BY <1>10, <1>s DEF WalkEnd, TaskletDone
  <2>2. ProcTypes'
    <3>1. cursor' \in {cursor, 0} /\ latest' \in {latest, 0} /\ stayed' \in {stayed, {}}
      BY <1>10 DEF WalkEnd, TaskletDone, None
    <3>2. UNCHANGED <<born, alive, writer>>
      BY <1>10 DEF WalkEnd
    <3> QED
      BY <1>t, <3>1, <3>2, ProcsAssumption DEF ProcTypes
  <2>3. FlagTypes'
    BY <1>10, <1>t DEF WalkEnd, TaskletDone, FlagTypes, None
  <2>4. RingTypes'
    BY <1>10, <1>t DEF WalkEnd, TaskletDone, RingTypes, None
  <2> QED
    BY <2>1, <2>2, <2>3, <2>4
<1>11. CASE StoreArea
  <2>1. ProcTypes' /\ ShowTypes'
    BY <1>11, <1>p, <1>s DEF StoreArea
  <2>2. FlagTypes'
    BY <1>11, <1>t DEF StoreArea, FlagTypes
  <2>3. RingTypes'
    <3>1. [task_history EXCEPT ![current_index]["area"] = samples] \in [Slot -> [Half -> Nat]]
      BY <1>t DEF RingTypes, Half
    <3>2. task_history' \in [Slot -> [Half -> Nat]]
      BY <1>11, <1>t, <3>1 DEF StoreArea, RingTypes
    <3> QED
      BY <1>11, <1>t, <3>2 DEF StoreArea, RingTypes
  <2> QED
    BY <2>1, <2>2, <2>3
<1>12. CASE StoreStack
  <2>1. ProcTypes' /\ ShowTypes'
    BY <1>12, <1>p, <1>s DEF StoreStack
  <2>2. FlagTypes'
    BY <1>12, <1>t DEF StoreStack, FlagTypes
  <2>3. RingTypes'
    <3>1. [task_history EXCEPT ![current_index]["stack"] = samples] \in [Slot -> [Half -> Nat]]
      BY <1>t DEF RingTypes, Half
    <3>2. task_history' \in [Slot -> [Half -> Nat]]
      BY <1>12, <1>t, <3>1 DEF StoreStack, RingTypes
    <3>3. samples \in 1 .. samples
      BY <1>12, <1>t DEF StoreStack, RingTypes, HistoryInv, RingInv, Storing
    <3>4. stacked' \subseteq 1 .. samples
      BY <1>12, <1>t, <3>3 DEF StoreStack, RingTypes
    <3> QED
      BY <1>12, <1>t, <3>2, <3>4 DEF StoreStack, RingTypes
  <2> QED
    BY <2>1, <2>2, <2>3
<1>13. CASE StoreIndex
  <2>1. ProcTypes' /\ ShowTypes'
    BY <1>13, <1>p, <1>s DEF StoreIndex
  <2>2. FlagTypes'
    BY <1>13, <1>t DEF StoreIndex, FlagTypes
  <2>3. RingTypes'
    <3>1. current_index + 1 \in Int
      BY <1>t, SizeAssumption DEF RingTypes, Slot
    <3>2. NextSlot(current_index) \in Slot
      BY <3>1, ModSplit, SizeAssumption DEF NextSlot, Slot
    <3> QED
      BY <1>13, <1>t, <3>2 DEF StoreIndex, RingTypes
  <2> QED
    BY <2>1, <2>2, <2>3
<1>14. CASE StoreCount
  <2>1. ShowTypes'
    BY <1>14, <1>s DEF StoreCount, TaskletDone
  <2>2. ProcTypes'
    BY <1>14, <1>t, ProcsAssumption DEF StoreCount, TaskletDone, ProcTypes, None
  <2>3. FlagTypes'
    BY <1>14, <1>t DEF StoreCount, TaskletDone, FlagTypes, None
  <2>4. RingTypes'
    BY <1>14, <1>t DEF StoreCount, TaskletDone, RingTypes, None
  <2> QED
    BY <2>1, <2>2, <2>3, <2>4
<1>15. CASE Open
  <2>1. ProcTypes' /\ FlagTypes' /\ RingTypes'
    BY <1>15, <1>p, <1>f, <1>r DEF Open
  <2>2. ShowTypes'
    BY <1>15, <1>t DEF Open, ShowTypes
  <2> QED
    BY <2>1, <2>2
<1>16. CASE StartShow
  <2>1. ProcTypes' /\ FlagTypes' /\ RingTypes'
    BY <1>16, <1>p, <1>f, <1>r DEF StartShow
  <2>2. ShowTypes'
    BY <1>16, <1>t, <1>n DEF StartShow, ShowTypes
  <2> QED
    BY <2>1, <2>2
<1>17. CASE ShowCond
  <2>1. ProcTypes' /\ FlagTypes' /\ RingTypes'
    BY <1>17, <1>p, <1>f, <1>r DEF ShowCond
  <2>2. ShowTypes'
    <3>1. GrownRoom(room) \in Nat /\ current_index \in Slot
      BY <1>t DEF GrownRoom, ShowTypes, RingTypes
    <3>2. /\ rd' \in {"slot", "cond", "open"} /\ idx' \in {current_index, 0}
          /\ i' \in {i, 0} /\ out' \in {out, <<>>}
          /\ room' \in {room, GrownRoom(room)} /\ base' \in {base, Stored}
      BY <1>17, Zenon DEF ShowCond
    <3>3. out' \in Seq([Half -> Nat]) /\ i' \in Nat
      <4>1. <<>> \in Seq([Half -> Nat]) /\ 0 \in Nat
        OBVIOUS
      <4>2. out \in Seq([Half -> Nat]) /\ i \in Nat
        BY <1>t DEF ShowTypes
      <4> QED
        BY <3>2, <4>1, <4>2, Zenon
    <3>4. idx' \in Slot /\ room' \in Nat /\ base' \in Nat
      BY <1>t, <1>z, <1>n, <3>1, <3>2 DEF ShowTypes
    <3>5. islot' \in Slot /\ entry' \in [Half -> Nat]
      BY <1>17, <1>t DEF ShowCond, ShowTypes
    <3> QED
      BY <3>2, <3>3, <3>4, <3>5 DEF ShowTypes
  <2> QED
    BY <2>1, <2>2
<1>18. CASE ShowSlot
  <2>1. ProcTypes' /\ FlagTypes' /\ RingTypes'
    BY <1>18, <1>p, <1>f, <1>r DEF ShowSlot
  <2>2. ShowTypes'
    <3>1. i + idx \in Int /\ task_count \in Nat
      BY <1>t, SizeAssumption DEF ShowTypes, RingTypes, Slot
    <3>2. EntrySlot(i, idx, task_count) \in Slot
      <4>1. idx + i + (MAX_TASKS - Smaller(task_count, MAX_TASKS)) \in Int
        BY <1>t, <3>1, SizeAssumption DEF ShowTypes, Slot, Smaller
      <4> QED
        BY <4>1, ModSplit, SizeAssumption DEF EntrySlot, Slot
    <3> QED
      BY <1>18, <1>t, <1>z, <3>2 DEF ShowSlot, ShowTypes
  <2> QED
    BY <2>1, <2>2
<1>19. CASE ShowArea
  <2>1. ProcTypes' /\ FlagTypes' /\ RingTypes'
    BY <1>19, <1>p, <1>f, <1>r DEF ShowArea
  <2>2. ShowTypes'
    <3>1. [entry EXCEPT !["area"] = task_history[islot]["area"]] \in [Half -> Nat]
      BY <1>t DEF RingTypes, ShowTypes, Half
    <3> QED
      BY <1>19, <1>t, <3>1 DEF ShowArea, ShowTypes
  <2> QED
    BY <2>1, <2>2
<1>20. CASE ShowStack
  <2>1. ProcTypes' /\ FlagTypes' /\ RingTypes'
    BY <1>20, <1>p, <1>f, <1>r DEF ShowStack
  <2>2. ShowTypes'
    <3>1. [entry EXCEPT !["stack"] = task_history[islot]["stack"]] \in [Half -> Nat]
      BY <1>t DEF RingTypes, ShowTypes, Half
    <3>2. out' \in Seq([Half -> Nat])
      BY <1>20, <1>t, <3>1 DEF ShowStack, ShowTypes
    <3>3. rd' = "cond" /\ i' \in Nat /\ UNCHANGED <<idx, room, base>>
      BY <1>20, <1>t DEF ShowStack, ShowTypes
    <3>4. islot' \in Slot /\ entry' \in [Half -> Nat]
      BY <1>20, <1>z DEF ShowStack
    <3> QED
      BY <1>t, <3>2, <3>3, <3>4 DEF ShowTypes
  <2> QED
    BY <2>1, <2>2
<1>21. CASE Close
  <2>1. ProcTypes' /\ FlagTypes' /\ RingTypes'
    BY <1>21, <1>p, <1>f, <1>r DEF Close
  <2>2. ShowTypes'
    BY <1>21, <1>t, BoundsAssumption DEF Close, Release, ShowTypes
  <2> QED
    BY <2>1, <2>2
<1>22. CASE ModuleInit
  <2>1. ProcTypes' /\ ShowTypes'
    BY <1>22, <1>p, <1>s DEF ModuleInit
  <2>2. FlagTypes'
    BY <1>22, <1>t DEF ModuleInit, FlagTypes
  <2>3. RingTypes'
    <3>1. [s \in Slot |-> Blank] \in [Slot -> [Half -> Nat]]
      BY <1>z
    <3>2. task_history' \in [Slot -> [Half -> Nat]] /\ current_index' \in Slot
      BY <1>22, <1>z, <3>1 DEF ModuleInit
    <3> QED
      BY <1>22, <3>2 DEF ModuleInit, RingTypes
  <2> QED
    BY <2>1, <2>2, <2>3
<1>23. CASE RemoveEntry
  <2>1. ProcTypes' /\ RingTypes' /\ ShowTypes'
    BY <1>23, <1>p, <1>r, <1>s DEF RemoveEntry
  <2>2. FlagTypes'
    BY <1>23, <1>t DEF RemoveEntry, FlagTypes
  <2> QED
    BY <2>1, <2>2
<1>24. CASE EntryRemoved
  <2>1. ProcTypes' /\ RingTypes'
    BY <1>24, <1>p, <1>r DEF EntryRemoved
  <2>2. FlagTypes'
    BY <1>24, <1>t DEF EntryRemoved, FlagTypes
  <2>3. ShowTypes'
    BY <1>24, <1>t, BoundsAssumption DEF EntryRemoved, Release, ShowTypes
  <2> QED
    BY <2>1, <2>2, <2>3
<1>25. CASE DeleteTimer
  <2>1. ProcTypes' /\ RingTypes' /\ ShowTypes'
    BY <1>25, <1>p, <1>r, <1>s DEF DeleteTimer
  <2>2. FlagTypes'
    BY <1>25, <1>t DEF DeleteTimer, FlagTypes
  <2> QED
    BY <2>1, <2>2
<1>26. CASE KillClaim
  <2>1. ProcTypes' /\ RingTypes' /\ ShowTypes'
    BY <1>26, <1>p, <1>r, <1>s DEF KillClaim
  <2>2. FlagTypes'
    BY <1>26, <1>t DEF KillClaim, FlagTypes
  <2> QED
    BY <2>1, <2>2
<1>27. CASE KillDone
  <2>1. ProcTypes' /\ RingTypes' /\ ShowTypes'
    BY <1>27, <1>p, <1>r, <1>s DEF KillDone
  <2>2. FlagTypes'
    BY <1>27, <1>t DEF KillDone, FlagTypes
  <2> QED
    BY <2>1, <2>2
<1>28. CASE UNCHANGED vars
  BY <1>28, <1>p, <1>f, <1>r, <1>s
<1> QED
  BY <1>1, <1>2, <1>3, <1>4, <1>5, <1>6, <1>7, <1>8, <1>9, <1>10, <1>11, <1>12, <1>13, <1>14,
     <1>15, <1>16, <1>17, <1>18, <1>19, <1>20, <1>21, <1>22, <1>23, <1>24, <1>25, <1>26, <1>27, <1>28
     DEF Next, Callback, Tasklet, Show, Unload

-----------------------------------------------------------------------------
(* Slots.  Samples less than MAX_TASKS apart have different ones, and the  *)
(* entry that proc_show prints k-th is that of the k-th oldest kept sample.*)
LEMMA SlotsDiffer ==
  ASSUME NEW m \in Nat \ {0}, NEW n \in Nat, m < n, n < m + MAX_TASKS
  PROVE  SlotOf(m) # SlotOf(n) /\ SlotOf(m) \in Slot /\ SlotOf(n) \in Slot
<1>. USE SizeAssumption
<1>1. m - 1 \in Int /\ n - 1 \in Int /\ m - 1 < n - 1 /\ n - 1 < (m - 1) + MAX_TASKS
  OBVIOUS
<1> QED
  BY <1>1, ModDistinct, ModSplit DEF SlotOf, Slot

(* proc_show's slot expression names the slot of the k-th oldest kept sample. *)
LEMMA EntrySlotIsSlotOf ==
  ASSUME NEW n \in Nat, NEW k \in Nat
  PROVE  EntrySlot(k, n % MAX_TASKS, n) = SlotOf(n - Kept(n) + k + 1)
<1>. USE SizeAssumption
<1>. DEFINE b == k + (MAX_TASKS - Kept(n))
<1>1. Kept(n) \in Nat
  BY DEF Kept, Smaller
<1>2. b \in Int /\ n - Kept(n) + k \in Int /\ n + b = (n - Kept(n) + k) + MAX_TASKS
  BY <1>1
<1>3. EntrySlot(k, n % MAX_TASKS, n) = ((n % MAX_TASKS) + b) % MAX_TASKS
  <2>1. n % MAX_TASKS \in Int
    BY ModSplit
  <2>2. (n % MAX_TASKS) + k + (MAX_TASKS - Kept(n)) = (n % MAX_TASKS) + b
    BY <1>1, <2>1
  <2> QED
    BY <2>2 DEF EntrySlot, Kept
<1>. HIDE DEF b
<1>4. ((n % MAX_TASKS) + b) % MAX_TASKS = (n + b) % MAX_TASKS
  <2>1. n \in Int /\ b \in Int
    BY <1>2
  <2> QED
    BY <2>1, ModAdd
<1>5. (n + b) % MAX_TASKS = (n - Kept(n) + k) % MAX_TASKS
  BY <1>2, ModWrap
<1>6. (n - Kept(n) + k + 1) - 1 = n - Kept(n) + k
  BY <1>1
<1> QED
  BY <1>3, <1>4, <1>5, <1>6 DEF SlotOf

-----------------------------------------------------------------------------
(* The tasklet's stores fill the slot of the sample they belong to and     *)
(* leave the slots of the other kept samples alone.                        *)
LEMMA RingStep ==
  ASSUME HistoryInv, [Next]_vars PROVE RingInv'
<1>. USE SizeAssumption
<1>. USE DEF HistoryInv, RingInv, Storing, Written, None
<1>1. /\ samples \in Nat /\ task_count \in Nat /\ current_index \in Slot
      /\ task_history \in [Slot -> [Half -> Nat]] /\ stacked \subseteq 1 .. samples
  BY DEF TypeInv, TypeOK
<1>h. ASSUME UNCHANGED <<task_history, stacked>> PROVE \A s \in Slot : HoldsLastStack(s)'
  BY <1>h DEF HoldsLastStack
<1>2. CASE UNCHANGED <<samples, stacked, latest, tk, ring>>
  BY <1>h, <1>2 DEF ring
<1>3. CASE TaskletStart
  BY <1>h, <1>3 DEF TaskletStart, ring, walkVars
<1>4. CASE Visit
  BY <1>h, <1>4 DEF Visit, ring
<1>5. CASE WalkEnd
  <2>1. CASE latest = None
    BY <1>h, <1>5, <2>1 DEF WalkEnd, TaskletDone, ring
  <2>2. CASE latest # None
    BY <1>1, <1>h, <1>5, <2>2 DEF WalkEnd, walkVars, ring
  <2> QED
    BY <2>1, <2>2
<1>6. ASSUME Storing, samples >= 1
      PROVE  /\ SlotOf(samples) \in Slot
             /\ \A m \in 1 .. samples :
                  m < samples /\ m + MAX_TASKS > samples => SlotOf(m) # SlotOf(samples)
  <2>1. samples - 1 \in Int
    BY <1>1
  <2>2. SlotOf(samples) \in Slot
    BY <2>1, ModSplit DEF Slot, SlotOf
  <2>3. ASSUME NEW m \in 1 .. samples, m < samples, m + MAX_TASKS > samples
        PROVE  SlotOf(m) # SlotOf(samples)
    <3>1. m \in Nat \ {0} /\ samples < m + MAX_TASKS
      BY <1>1, <2>3
    <3> QED
      BY <1>1, <2>3, <3>1, SlotsDiffer
  <2>. HIDE DEF SlotOf
  <2> QED
    BY <2>2, <2>3
<1>7. CASE StoreArea
  <2>1. CASE latest \in alive
    <3>1. /\ current_index = SlotOf(samples) /\ tk = "area" /\ tk' = "stack" /\ samples >= 1
          /\ task_history' = [task_history EXCEPT ![current_index]["area"] = samples]
          /\ UNCHANGED <<samples, stacked, latest, task_count, current_index>>
      BY <1>7, <2>1 DEF StoreArea, SlotOf, walkVars
    <3>2. \A s \in Slot : /\ task_history'[s]["stack"] = task_history[s]["stack"]
                          /\ task_history'[s]["area"] =
                               IF s = current_index THEN samples ELSE task_history[s]["area"]
      BY <1>1, <3>1 DEF Half
    <3>3. \A s \in Slot : HoldsLastStack(s)'
      BY <3>1, <3>2 DEF HoldsLastStack
    <3>4. ASSUME NEW m \in 1 .. samples, m + MAX_TASKS > samples
          PROVE  task_history'[SlotOf(m)]["area"] = m
      <4>1. CASE m = samples
        BY <1>6, <3>1, <3>2, <4>1
      <4>2. CASE m < samples
        <5>1. SlotOf(m) # SlotOf(samples) /\ SlotOf(m) \in Slot
          BY <1>1, <3>4, <4>2, SlotsDiffer
        <5>2. task_history[SlotOf(m)]["area"] = m
          BY <3>4, <4>2
        <5> QED
          BY <3>1, <3>2, <5>1, <5>2
      <4> QED
        BY <1>1, <4>1, <4>2
    <3> QED
      BY <3>1, <3>3, <3>4
  <2>2. CASE latest \notin alive
    BY <1>h, <1>7, <2>2 DEF StoreArea, walkVars
  <2> QED
    BY <2>1, <2>2
<1>8. CASE StoreStack
  <2>1. CASE latest \notin alive
    BY <1>h, <1>8, <2>1 DEF StoreStack, walkVars
  <2>2. CASE latest \in alive /\ UNCHANGED <<task_history, stacked>>
    BY <1>h, <1>8, <2>2 DEF StoreStack, walkVars
  <2>3. ASSUME task_history' = [task_history EXCEPT ![current_index]["stack"] = samples],
               stacked' = stacked \cup {samples}, latest \in alive
        PROVE  RingInv'
    <3>1. /\ current_index = SlotOf(samples) /\ tk = "stack" /\ tk' = "index" /\ samples >= 1
          /\ UNCHANGED <<samples, latest, task_count, current_index>>
      BY <1>8, <2>3 DEF StoreStack, SlotOf, walkVars
    <3>2. \A s \in Slot : /\ task_history'[s]["area"] = task_history[s]["area"]
                          /\ task_history'[s]["stack"] =
                               IF s = current_index THEN samples ELSE task_history[s]["stack"]
      BY <1>1, <2>3 DEF Half
    <3>3. \A m \in 1 .. samples : SlotOf(m) \in Slot
      BY <1>1, ModSplit DEF SlotOf, Slot
    <3>4. ASSUME NEW s \in Slot PROVE HoldsLastStack(s)'
      <4>1. CASE s = current_index
        BY <1>1, <2>3, <3>1, <3>2, <4>1 DEF HoldsLastStack
      <4>2. CASE s # current_index
        BY <2>3, <3>1, <3>2, <4>2 DEF HoldsLastStack
      <4> QED
        BY <4>1, <4>2
    <3>5. ASSUME NEW m \in 1 .. samples, m + MAX_TASKS > samples
          PROVE  task_history'[SlotOf(m)]["area"] = m
      BY <3>1, <3>2, <3>3, <3>5
    <3> QED
      BY <3>1, <3>4, <3>5
  <2> QED
    BY <1>8, <2>1, <2>2, <2>3 DEF StoreStack
<1>9. CASE StoreIndex
  <2>1. current_index' = samples % MAX_TASKS
    <3>1. samples - 1 \in Int /\ (samples - 1) + 1 = samples
      BY <1>1
    <3>2. (((samples - 1) % MAX_TASKS) + 1) % MAX_TASKS = samples % MAX_TASKS
      BY <3>1, ModAdd
    <3> QED
      BY <1>9, <3>2 DEF StoreIndex, NextSlot
  <2> QED
    BY <1>h, <1>9, <2>1 DEF StoreIndex, walkVars
<1>10. CASE StoreCount
  BY <1>1, <1>h, <1>10 DEF StoreCount, TaskletDone
<1>11. CASE ModuleInit
  <2>1. 0 % MAX_TASKS = 0
    OBVIOUS
  <2>2. \A s \in Slot : HoldsLastStack(s)'
    BY <1>11 DEF ModuleInit, HoldsLastStack, Blank, Half
  <2> QED
    BY <1>11, <2>1, <2>2 DEF ModuleInit, walkVars
<1> QED
  BY <1>2, <1>3, <1>4, <1>5, <1>7, <1>8, <1>9, <1>10, <1>11
     DEF Next, Callback, Tasklet, Show, Unload, vars, tkVars, walkVars,
         ProcFork, ProcExit, MmapLock, MmapUnlock, TimerFire, CallbackSchedule, CallbackRearm,
         Open, StartShow, ShowCond, ShowSlot, ShowArea, ShowStack, Close,
         RemoveEntry, EntryRemoved, DeleteTimer, KillClaim, KillDone

-----------------------------------------------------------------------------
(* The entry of a sample that is kept, read in either half, is its own.    *)
LEMMA EntryOfSample ==
  ASSUME HistoryInv, NEW m \in 1 .. samples, m + MAX_TASKS > samples, tk \in {"idle", "walk"}
  PROVE  /\ task_history[SlotOf(m)]["area"] = m
         /\ IsStackOf(m, task_history[SlotOf(m)]["stack"])
<1>. USE SizeAssumption
<1>. DEFINE v == task_history[SlotOf(m)]["stack"]
<1>1. samples \in Nat /\ stacked \subseteq 1 .. samples
  BY DEF HistoryInv, TypeInv, TypeOK
<1>2. task_history[SlotOf(m)]["area"] = m
  BY DEF HistoryInv, RingInv, Written
<1>3. SlotOf(m) \in Slot
  BY <1>1, ModSplit DEF SlotOf, Slot
<1>4. /\ v # None => v \in stacked /\ SlotOf(v) = SlotOf(m)
      /\ \A n \in stacked : SlotOf(n) = SlotOf(m) => n <= v
  BY <1>3 DEF HistoryInv, RingInv, HoldsLastStack
<1>. HIDE DEF v
<1>5. ASSUME v # None PROVE v <= m
  <2>1. v \in Nat /\ v < m + MAX_TASKS
    <3>1. v \in 1 .. samples
      BY <1>1, <1>4, <1>5, Zenon
    <3> QED
      BY <1>1, <3>1
  <2>2. CASE v > m
    <3>1. m \in Nat \ {0} /\ m < v
      BY <1>1, <2>1, <2>2
    <3>2. SlotOf(m) # SlotOf(v)
      BY <2>1, <3>1, SlotsDiffer
    <3> QED
      BY <1>4, <1>5, <3>2
  <2>3. m \in Nat
    BY <1>1
  <2>4. v > m \/ v <= m
    BY <2>1, <2>3
  <2> QED
    BY <2>2, <2>4
<1>6. IsStackOf(m, v)
  BY <1>1, <1>4, <1>5 DEF IsStackOf, None
<1> QED
  BY <1>2, <1>6 DEF v

-----------------------------------------------------------------------------
(* A proc_show that began after the last sample prints, entry by entry,    *)
(* the samples of the ring, also when seq_file restarts it.                *)
LEMMA ShowStep ==
  ASSUME HistoryInv, [Next]_vars PROVE ShowInv'
<1>. USE SizeAssumption
<1>. USE DEF HistoryInv, ShowInv, Undisturbed, InShow, SampleAt
<1>1. /\ samples \in Nat /\ base \in Nat /\ i \in Nat /\ Kept(samples) \in Nat
      /\ Kept(samples) =< samples
      /\ out \in Seq([Half -> Nat]) /\ entry \in [Half -> Nat] /\ Len(out) \in Nat
      /\ rd \in {"closed", "open", "cond", "slot", "area", "stack"}
      /\ tk \in {"idle", "walk", "area", "stack", "index", "count", "oops"}
  BY DEF TypeInv, TypeOK, Kept, Smaller
<1>2. tk \in {"idle", "walk"} =>
        task_count = samples /\ current_index = samples % MAX_TASKS
  BY DEF RingInv, Storing
<1>3. Stored \in Nat /\ Stored =< samples /\ (Storing => Stored < samples)
  BY <1>1 DEF Stored, Storing, RingInv
<1>u. ASSUME UNCHANGED <<samples, stacked, out>>, Undisturbed
      PROVE  (\A k \in 1 .. Len(out) : IsEntryOf(SampleAt(k), out[k]))'
  BY <1>u DEF IsEntryOf, IsStackOf
<1>e. ASSUME out' = <<>> PROVE (\A k \in 1 .. Len(out) : IsEntryOf(SampleAt(k), out[k]))'
  BY <1>e
<1>4. CASE UNCHANGED <<rdVars, samples, stacked, tk, module, current_index>>
  BY <1>u, <1>4 DEF rdVars, Storing
<1>5. CASE TaskletStart
  BY <1>u, <1>5 DEF TaskletStart, rdVars, modVars, ring, walkVars, Storing
<1>6. CASE WalkEnd
  BY <1>1, <1>u, <1>6 DEF WalkEnd, TaskletDone, rdVars, modVars, ring, walkVars, Storing
<1>7. CASE StoreArea \/ StoreStack \/ StoreIndex \/ StoreCount
  BY <1>1, <1>7 DEF StoreArea, StoreStack, StoreIndex, StoreCount, TaskletDone, rdVars, modVars,
                    walkVars, Storing
<1>8. CASE Open
  BY <1>1, <1>u, <1>8 DEF Open, tkVars, ring, modVars, Storing
<1>9. CASE StartShow
  BY <1>1, <1>3, <1>e, <1>9 DEF StartShow, tkVars, ring, modVars, Storing
<1>10. CASE ShowCond
  <2>1. CASE i < Printed(task_count)
    BY <1>1, <1>2, <1>u, <1>10, <2>1 DEF ShowCond, tkVars, ring, modVars, Storing, Printed, Kept
  <2>2. CASE ~(i < Printed(task_count)) /\ room < Len(out)
    BY <1>1, <1>3, <1>e, <1>10, <2>2 DEF ShowCond, tkVars, ring, modVars, Storing
  <2>3. CASE ~(i < Printed(task_count)) /\ ~(room < Len(out))
    BY <1>1, <1>2, <1>u, <1>10, <2>3 DEF ShowCond, tkVars, ring, modVars, Storing, Printed, Kept
  <2> QED
    BY <2>1, <2>2, <2>3
<1>11. CASE ShowSlot
  <2>1. Undisturbed => EntrySlot(i, idx, task_count) = SlotOf(SampleAt(i + 1))
    <3>1. SUFFICES ASSUME Undisturbed PROVE EntrySlot(i, idx, task_count) = SlotOf(SampleAt(i + 1))
      OBVIOUS
    <3>2. idx = samples % MAX_TASKS /\ task_count = samples
      BY <1>2, <1>11, <3>1 DEF ShowSlot
    <3>3. samples - Kept(samples) + i + 1 = SampleAt(i + 1)
      BY <1>1
    <3> QED
      BY <1>1, <3>2, <3>3, EntrySlotIsSlotOf
  <2> QED
    BY <1>1, <1>u, <1>11, <2>1 DEF ShowSlot, tkVars, ring, modVars, Storing
<1>12. ASSUME Undisturbed, rd \in {"area", "stack"}
       PROVE  /\ SampleAt(i + 1) \in 1 .. samples
              /\ task_history[islot]["area"] = SampleAt(i + 1)
              /\ IsStackOf(SampleAt(i + 1), task_history[islot]["stack"])
  <2>1. SampleAt(i + 1) \in 1 .. samples /\ SampleAt(i + 1) + MAX_TASKS > samples
    BY <1>1, <1>12 DEF Kept, Smaller
  <2> QED
    BY <1>12, <2>1, EntryOfSample
<1>13. CASE ShowArea
  <2>1. Undisturbed => entry'["area"] = SampleAt(i + 1)
    BY <1>1, <1>12, <1>13 DEF ShowArea, Half
  <2> QED
    BY <1>1, <1>u, <1>13, <2>1 DEF ShowArea, tkVars, ring, modVars, Storing
<1>14. CASE ShowStack
  <2>. DEFINE e == [entry EXCEPT !["stack"] = task_history[islot]["stack"]]
  <2>1. out' = Append(out, e) /\ e \in [Half -> Nat]
    <3>1. task_history[islot]["stack"] \in Nat
      BY DEF TypeInv, TypeOK, Half
    <3> QED
      BY <1>1, <1>14, <3>1 DEF ShowStack, Half
  <2>2. Len(out') = Len(out) + 1 /\ \A k \in 1 .. Len(out') : out'[k] = IF k = Len(out) + 1 THEN e ELSE out[k]
    BY <1>1, <2>1
  <2>3. Undisturbed => IsEntryOf(SampleAt(i + 1), e)
    BY <1>1, <1>12, <1>14 DEF ShowStack, Half, IsEntryOf
  <2>. HIDE DEF e
  <2>4. /\ rd = "stack" /\ rd' = "cond" /\ i' = i + 1
        /\ UNCHANGED <<tk, samples, stacked, base, module>>
    BY <1>14 DEF ShowStack, tkVars, modVars
  <2>5. ASSUME Undisturbed
        PROVE  /\ \A k \in 1 .. Len(out') : IsEntryOf(SampleAt(k), out'[k])
               /\ i' = Len(out') /\ i' <= Kept(samples)
    <3>1. i = Len(out) /\ i < Kept(samples)
      BY <2>4, <2>5
    <3>2. ASSUME NEW k \in 1 .. Len(out') PROVE IsEntryOf(SampleAt(k), out'[k])
      <4>1. CASE k = Len(out) + 1
        BY <2>2, <2>3, <2>5, <3>1, <4>1
      <4>2. CASE k # Len(out) + 1
        <5>1. k \in 1 .. Len(out) /\ out'[k] = out[k]
          BY <1>1, <2>2, <4>2
        <5> QED
          BY <2>5, <5>1
      <4> QED
        BY <4>1, <4>2
    <3> QED
      BY <1>1, <2>2, <2>4, <3>1, <3>2
  <2>8. Undisturbed => (\A k \in 1 .. Len(out) : IsEntryOf(SampleAt(k), out[k]))'
    BY <2>4, <2>5 DEF IsEntryOf, IsStackOf
  <2>6. Undisturbed' => Undisturbed
    BY <2>4
  <2>7. SampleAt(1)' = SampleAt(1) /\ Kept(samples)' = Kept(samples)
    BY <2>4
  <2> QED
    BY <1>1, <2>4, <2>5, <2>6, <2>7, <2>8 DEF Storing
<1>15. CASE Close \/ EntryRemoved
  BY <1>1, <1>e, <1>15 DEF Close, EntryRemoved, Release, tkVars, ring, modVars, Storing
<1>16. CASE ModuleInit
  BY <1>e, <1>16 DEF ModuleInit, rdVars, Storing
<1>17. CASE RemoveEntry \/ DeleteTimer \/ KillClaim \/ KillDone
  BY <1>u, <1>17 DEF RemoveEntry, DeleteTimer, KillClaim, KillDone, rdVars, tkVars, ring, Storing
<1> QED
  BY <1>4, <1>5, <1>6, <1>7, <1>8, <1>9, <1>10, <1>11, <1>13, <1>14, <1>15, <1>16, <1>17
     DEF Next, Callback, Tasklet, Show, Unload, vars, tkVars, ring, modVars,
         ProcFork, ProcExit, MmapLock, MmapUnlock, TimerFire, CallbackSchedule, CallbackRearm, Visit

-----------------------------------------------------------------------------
(* The walk keeps the process that started last of those it has passed. *)
LEMMA WalkStep ==
  ASSUME HistoryInv, [Next]_vars PROVE WalkInv'
<1>. USE DEF HistoryInv, WalkInv, None, Proc
<1>1. /\ cursor \in 0 .. Procs /\ latest \in 0 .. Procs /\ stayed \subseteq Proc
      /\ Procs \in Nat /\ Start \in [Proc -> Nat \ {0}] /\ alive \subseteq 1 .. born
  BY ProcsAssumption, StartAssumption DEF TypeInv, TypeOK
<1>2. CASE UNCHANGED <<alive, tk, walkVars>>
  BY <1>2 DEF walkVars
<1>3. CASE ProcFork
  BY <1>3 DEF ProcFork, tkVars, walkVars
<1>4. ASSUME NEW p \in Proc, ProcExit(p) PROVE WalkInv'
  BY <1>4 DEF ProcExit
<1>5. CASE TaskletStart
  BY <1>1, <1>5 DEF TaskletStart, procVars
<1>6. CASE Visit
  <2>1. PICK p \in Proc : /\ p > cursor /\ cursor' = p
                          /\ \A q \in cursor + 1 .. p - 1 : q \notin alive
                          /\ latest' = IF p \in alive /\ Later(p) THEN p ELSE latest
    BY <1>6 DEF Visit
  <2>2. tk = "walk" /\ UNCHANGED <<tk, stayed, alive>>
    BY <1>6 DEF Visit, procVars
  <2>3. ASSUME NEW q \in stayed, q <= p PROVE latest' # 0 /\ Start[q] <= Start[latest']
    <3>1. q = p \/ q <= cursor
      BY <1>1, <2>1, <2>2, <2>3
    <3> QED
      BY <1>1, <2>1, <2>2, <2>3, <3>1 DEF Later
  <2> QED
    BY <2>1, <2>2, <2>3
<1>7. CASE WalkEnd
  <2>1. CASE latest = None
    BY <1>7, <2>1 DEF WalkEnd, TaskletDone
  <2>2. CASE latest # None
    <3>1. tk = "walk" /\ tk' = "area" /\ UNCHANGED <<alive, cursor, latest, stayed>>
      BY <1>7, <2>2 DEF WalkEnd, walkVars, procVars
    <3>2. \A p \in stayed : p <= cursor
      BY <1>1, <1>7, <3>1 DEF WalkEnd
    <3> QED
      BY <3>1, <3>2
  <2> QED
    BY <2>1, <2>2
<1>8. CASE StoreArea \/ StoreStack \/ StoreIndex \/ StoreCount
  BY <1>8 DEF StoreArea, StoreStack, StoreIndex, StoreCount, TaskletDone, walkVars, procVars
<1> QED
  BY <1>2, <1>3, <1>4, <1>5, <1>6, <1>7, <1>8
     DEF Next, Callback, Tasklet, Show, Unload, vars, tkVars, procVars,
         MmapLock, MmapUnlock, TimerFire, CallbackSchedule, CallbackRearm,
         Open, StartShow, ShowCond, ShowSlot, ShowArea, ShowStack, Close,
         ModuleInit, RemoveEntry, EntryRemoved, DeleteTimer, KillClaim, KillDone

-----------------------------------------------------------------------------
(* Timer, callback and tasklet are stopped in the order of my_module_exit. *)
LEMMA UnloadStep ==
  ASSUME HistoryInv, [Next]_vars PROVE UnloadInv'
<1>. USE DEF HistoryInv, UnloadInv
<1>1. CASE UNCHANGED <<sched, queued, tk, armed, cb, modVars>>
  BY <1>1 DEF modVars
<1>2. CASE TimerFire \/ CallbackSchedule \/ CallbackRearm
  <2>1. CASE TimerFire
    BY <2>1 DEF TimerFire, Present, tkVars, modVars
  <2>2. CASE CallbackSchedule
    <3>1. sched /\ module = "killing" => queued' = queued
      BY <2>2 DEF CallbackSchedule, TypeInv, TypeOK
    <3> QED
      BY <2>2, <3>1 DEF CallbackSchedule, Present, modVars
  <2>3. CASE CallbackRearm
    BY <2>3 DEF CallbackRearm, Present, tkVars, modVars
  <2> QED
    BY <1>2, <2>1, <2>2, <2>3
<1>3. CASE TaskletStart
  BY <1>3 DEF TaskletStart, Present, timerVars, modVars
<1>4. CASE WalkEnd \/ StoreArea \/ StoreStack \/ StoreIndex \/ StoreCount
  BY <1>4 DEF WalkEnd, StoreArea, StoreStack, StoreIndex, StoreCount, TaskletDone, timerVars, modVars
<1>5. CASE ModuleInit \/ RemoveEntry \/ EntryRemoved
  BY <1>5 DEF ModuleInit, RemoveEntry, EntryRemoved, timerVars, tkVars
<1>6. CASE DeleteTimer
  <2>1. late' = FALSE => cb = "idle"
    BY <1>6 DEF DeleteTimer
  <2> QED
    BY <1>6, <2>1 DEF DeleteTimer, timerVars, tkVars
<1>7. CASE KillClaim \/ KillDone
  BY <1>7 DEF KillClaim, KillDone, timerVars
<1> QED
  BY <1>1, <1>2, <1>3, <1>4, <1>5, <1>6, <1>7
     DEF Next, Callback, Tasklet, Show, Unload, vars, tkVars, timerVars,
         ProcFork, ProcExit, MmapLock, MmapUnlock, Visit,
         Open, StartShow, ShowCond, ShowSlot, ShowArea, ShowStack, Close

-----------------------------------------------------------------------------
(* The module starts absent, with an empty ring. *)
LEMMA HistoryInit == Init => HistoryInv
<1>. USE ProcsAssumption, SizeAssumption, BoundsAssumption
<1>1. ASSUME Init PROVE TypeInv
  <2>1. Blank \in [Half -> Nat] /\ [s \in Slot |-> Blank] \in [Slot -> [Half -> Nat]]
    BY DEF Blank, None
  <2>2. 0 \in Slot /\ FirstRoom \in Nat
    BY DEF Slot
  <2>3. born \in 0 .. Procs /\ alive \subseteq 1 .. born /\ writer \subseteq alive
    BY <1>1 DEF Init
  <2>4. /\ armed \in BOOLEAN /\ cb = "idle" /\ sched \in BOOLEAN /\ queued \in BOOLEAN
        /\ tk = "idle" /\ cursor = 0 /\ latest = 0 /\ stayed = {} /\ late \in BOOLEAN
    BY <1>1 DEF Init, None
  <2>5. /\ task_history \in [Slot -> [Half -> Nat]] /\ entry \in [Half -> Nat]
        /\ current_index \in Slot /\ task_count \in Nat /\ islot \in Slot /\ idx \in Slot
        /\ room \in Nat /\ samples \in Nat /\ base \in Nat /\ i \in Nat
    BY <1>1, <2>1, <2>2 DEF Init
  <2>6. out \in Seq([Half -> Nat]) /\ rd = "closed" /\ module = "absent"
    BY <1>1 DEF Init
  <2> QED
    BY <1>1, <2>3, <2>4, <2>5, <2>6 DEF Init, TypeInv, TypeOK
<1>2. Init => RingInv
  <2>1. 0 % MAX_TASKS = 0
    OBVIOUS
  <2> QED
    BY <2>1 DEF Init, RingInv, Storing, HoldsLastStack, Blank, Half, None
<1>3. Init => ShowInv /\ WalkInv /\ UnloadInv
  BY DEF Init, ShowInv, Undisturbed, Storing, InShow, WalkInv, UnloadInv, None
<1> QED
  BY <1>1, <1>2, <1>3 DEF HistoryInv

(* Every step keeps the invariant. *)
LEMMA HistoryStep == HistoryInv /\ [Next]_vars => HistoryInv'
  BY TypeStep, RingStep, ShowStep, WalkStep, UnloadStep DEF HistoryInv

(* The invariant holds in every state of the module's life.                *)
THEOREM HistoryInvariant == Spec => []HistoryInv
  BY HistoryInit, HistoryStep, PTL DEF Spec

(* No slot, index or counter of the ring leaves its range.                 *)
THEOREM HistoryTypes == Spec => []TypeOK
<1>1. HistoryInv => TypeOK
  BY DEF HistoryInv, TypeInv
<1> QED
  BY <1>1, HistoryInvariant, PTL

(* Between two runs of the tasklet the ring of my_tasklet_handler holds    *)
(* the last MAX_TASKS samples, oldest first from where proc_show begins.   *)
THEOREM RingIsRight == Spec => []RingHoldsLastSamples
<1>1. ASSUME HistoryInv, tk = "idle" PROVE
        /\ task_count = samples
        /\ \A k \in 0 .. Kept(samples) - 1 :
             IsEntryOf(samples - Kept(samples) + k + 1,
                       task_history[EntrySlot(k, current_index, task_count)])
  <2>. USE SizeAssumption
  <2>1. task_count = samples /\ current_index = samples % MAX_TASKS /\ samples \in Nat
    BY <1>1 DEF HistoryInv, RingInv, Storing, TypeInv
  <2>2. ASSUME NEW k \in 0 .. Kept(samples) - 1
        PROVE  IsEntryOf(samples - Kept(samples) + k + 1,
                         task_history[EntrySlot(k, current_index, task_count)])
    <3>. DEFINE m == samples - Kept(samples) + k + 1
    <3>1. k \in Nat /\ m \in 1 .. samples /\ m + MAX_TASKS > samples
      BY <2>1 DEF Kept, Smaller
    <3>2. EntrySlot(k, current_index, task_count) = SlotOf(m)
      BY <2>1, <3>1, EntrySlotIsSlotOf
    <3>. HIDE DEF m
    <3>3. IsEntryOf(m, task_history[SlotOf(m)])
      BY <1>1, <3>1, EntryOfSample DEF IsEntryOf
    <3> QED
      BY <3>2, <3>3 DEF m
  <2> QED
    BY <2>1, <2>2
<1>2. HistoryInv => RingHoldsLastSamples
  BY <1>1 DEF RingHoldsLastSamples
<1> QED
  BY <1>2, HistoryInvariant, PTL

(* A proc_show that no run of the tasklet disturbed has printed exactly    *)
(* the samples of the ring, in order, after any number of buffer reruns.   *)
THEOREM QuietShowIsRight == Spec => []QuietShowIsHistory
<1>1. HistoryInv => QuietShowIsHistory
  BY DEF HistoryInv, ShowInv, Undisturbed, SampleAt, QuietShowIsHistory
<1> QED
  BY <1>1, HistoryInvariant, PTL

(* find_latest_task: of the processes that were there during the whole     *)
(* walk, none started later than the one that is recorded.                 *)
THEOREM RecordIsRight == Spec => []RecordIsLatest
<1>1. HistoryInv => RecordIsLatest
  BY DEF HistoryInv, WalkInv, RecordIsLatest
<1> QED
  BY <1>1, HistoryInvariant, PTL

(* my_module_exit: unless timer_callback was running at timer_delete,      *)
(* nothing of the module runs, or will run, after rmmod.                   *)
THEOREM UnloadIsRight == Spec => []UnloadIsClean
<1>1. HistoryInv => UnloadIsClean
  BY DEF HistoryInv, ShowInv, UnloadInv, UnloadIsClean, Present, InShow
<1> QED
  BY <1>1, HistoryInvariant, PTL
=============================================================================
