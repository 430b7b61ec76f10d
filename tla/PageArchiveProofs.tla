-------------------------- MODULE PageArchiveProofs --------------------------
(***************************************************************************)
(* What /proc/hw2 of assignment 2 (2019147604) relies on, for any number   *)
(* of processes and readers, a list of any size and any number of runs of  *)
(* the tasklet: the files are those of the list, a page read in peace      *)
(* shows the last sample, and rmmod leaves nothing.                        *)
(***************************************************************************)
EXTENDS PageArchiveProps, TLAPS

Index == 0 .. MAX_RESIDE - 1
Within == {"print", "unlink", "rundown", "load"}   \* a removal loop between two stores of i
Serving == {"loaded", "kill", "killing", "delete"} \* before the removal loop of hello_exit

ProcTypes == born \in 0 .. Procs /\ alive \cup zombie \subseteq 1 .. born
DataTypes ==
  /\ i \in Nat /\ buf \in Proc \cup {None} /\ __count \in Nat
  /\ cur_reside_idx \in 0 .. MAX_RESIDE
  /\ cur_reside \in [0 .. MAX_RESIDE - 1 -> Proc \cup {None}]
  /\ arc \in [Proc -> [Half -> Nat]]
  /\ entries \subseteq Proc /\ shared \in BOOLEAN
LifeTypes ==
  /\ armed \in BOOLEAN /\ cb \in {"idle", "schedule", "rearm"}
  /\ sched \in BOOLEAN /\ queued \in BOOLEAN
  /\ tk \in {"idle", "remove", "walk", "create", "reside", "head", "body", "oops"}
  /\ cursor \in Proc \cup {None} /\ over \subseteq Readers
  /\ module \in {"absent", "remove"} \cup Serving /\ refired \in BOOLEAN
LoopTypes ==
  /\ lp \in [Remover -> {"out", "begin", "store", "done"} \cup Within]
  /\ reg \in [Remover \cup Readers -> Nat]
  /\ doomed \in [Remover -> Proc \cup {None}]
ReaderTypes ==
  /\ rd \in [Readers -> {"closed", "open", "bar1", "store1", "head", "bar2", "store2", "body"}]
  /\ file \in [Readers -> Proc \cup {None}] /\ pos \in [Readers -> {0, 1}]
  /\ page \in [Readers -> [Half -> Nat]] /\ pages \in [Readers -> Nat]
  /\ quiet \in [Readers -> BOOLEAN]

TypeInv == ProcTypes /\ DataTypes /\ LifeTypes /\ LoopTypes /\ ReaderTypes

\* What is in the list are processes, and the walk has added no more than it has passed.
ListInv ==
  /\ tk \in {"idle", "remove"} => cursor = None
  /\ tk \in {"walk", "head", "body", "oops"} => cur_reside_idx <= cursor
  /\ tk \in {"create", "reside"} => cur_reside_idx < cursor
  /\ \A k \in Index : k < cur_reside_idx => cur_reside[k] \in Proc
  /\ tk \in {"create", "reside", "head", "body"} => buf \in Proc /\ cursor \in Proc
  /\ \A a \in Remover :
       /\ lp[a] = "print" => reg[a] \in Index /\ cur_reside[reg[a]] \in Proc
       /\ lp[a] = "unlink" => buf \in Proc

\* The timer and the tasklet while rmmod stops them.
LifeInv ==
  /\ queued => sched
  /\ module = "killing" => sched /\ ~queued
  /\ module = "loaded" => ~refired
  /\ ~refired /\ module # "loaded" => cb = "idle"
  /\ ~refired /\ module \in {"delete", "remove", "absent"} => ~queued /\ tk = "idle"
  /\ ~refired /\ module \in {"remove", "absent"} => ~armed

\* Who is in a removal loop, and that i is its own as long as nobody else has stored in it.
LoopInv ==
  /\ lp["tasklet"] # "out" <=> tk = "remove"
  /\ lp["rmmod"] # "out" <=> module = "remove"
  /\ \A a \in Remover :
       /\ lp[a] # "rundown" => doomed[a] = None
       /\ ~shared /\ lp[a] \in Within => i = reg[a]

\* A reader has a file that is there, or that somebody who unlinked it waits for.
FileInv ==
  \A r \in Readers :
    IF rd[r] = "closed" THEN file[r] = None
                        ELSE /\ file[r] \in Proc
                             /\ file[r] \in entries \/ \E a \in Remover : file[r] = doomed[a]

-----------------------------------------------------------------------------
(* The files and the list *)

ResidentsFrom(k) == {cur_reside[m] : m \in k .. cur_reside_idx - 1}

\* The files a removal loop has still to unlink.
ToUnlink(a) ==
  IF lp[a] = "begin" THEN Residents
  ELSE IF lp[a] \in {"print", "unlink", "store"} THEN ResidentsFrom(reg[a])
  ELSE IF lp[a] \in {"rundown", "load"} THEN ResidentsFrom(reg[a] + 1)
  ELSE {}

Clears(a) ==
  /\ entries \subseteq ToUnlink(a)
  /\ lp[a] = "unlink" => buf = cur_reside[reg[a]]

Agrees ==
  /\ tk \in {"idle", "walk", "create", "head", "body"} => entries = Residents
  /\ tk = "create" => buf = cursor
  /\ tk = "reside" => entries = Residents \cup {cursor}
  /\ tk = "remove" => Clears("tasklet")

EntriesInv ==
  ~shared => /\ module \in Serving => Agrees
             /\ ~refired /\ module = "remove" => Clears("rmmod")
             /\ ~refired /\ module = "absent" => entries = {}

-----------------------------------------------------------------------------
(* The samples and the pages *)

Shows(p, n) == \A h \in Half : arc[p][h] = n

ArcInv ==
  ~shared /\ ~refired =>
    /\ tk = "idle" =>
         /\ \A p \in entries : Shows(p, __count)
         /\ doomed["rmmod"] # None => Shows(doomed["rmmod"], __count)
    /\ tk \in {"walk", "create"} => \A p \in entries : Shows(p, __count + 1)
    /\ tk \in {"reside", "head", "body"} =>
         \A p \in entries \ {cursor} : Shows(p, __count + 1)
    /\ tk = "body" => arc[cursor]["head"] = __count + 1

PageInv ==
  \A r \in Readers :
    /\ pages[r] = pos[r]
    /\ rd[r] # "open" => pos[r] = 0
    /\ quiet[r] => tk = "idle"
    /\ quiet[r] /\ ~shared /\ ~refired =>
         /\ rd[r] \in {"bar2", "store2", "body"} => page[r]["head"] = __count
         /\ rd[r] = "open" /\ pos[r] = 1 => \A h \in Half : page[r][h] = __count

ArchiveInv ==
  TypeInv /\ ListInv /\ LifeInv /\ LoopInv /\ FileInv /\ EntriesInv /\ ArcInv /\ PageInv

-----------------------------------------------------------------------------
LEMMA InitArchive == ASSUME Init PROVE ArchiveInv
<1> USE ReadersAssumption, ProcsAssumption, ResideAssumption DEF Init
<1>1. TypeInv
  <2>1. ProcTypes /\ LifeTypes /\ LoopTypes
    BY DEF ProcTypes, LifeTypes, LoopTypes, Serving, Remover, None
  <2>2. DataTypes
    <3>1. arc \in [Proc -> [Half -> Nat]]
      BY DEF Blank
    <3>2. cur_reside \in [0 .. MAX_RESIDE - 1 -> Proc \cup {None}]
      OBVIOUS
    <3>3. 0 \in 0 .. MAX_RESIDE /\ 0 \in Nat
      OBVIOUS
    <3> QED
      BY <3>1, <3>2, <3>3 DEF DataTypes
  <2>3. ReaderTypes
    BY DEF ReaderTypes, Blank, Half, None
  <2> QED
    BY <2>1, <2>2, <2>3 DEF TypeInv
<1>2. ListInv /\ LifeInv
  BY DEF ListInv, LifeInv, Index
<1>3. LoopInv /\ FileInv
  BY DEF LoopInv, FileInv, Remover, Within
<1>4. EntriesInv /\ ArcInv /\ PageInv
  BY DEF EntriesInv, ArcInv, PageInv, Serving, Clears, Remover
<1> QED
  BY <1>1, <1>2, <1>3, <1>4 DEF ArchiveInv

-----------------------------------------------------------------------------
(* Types.  The list does not outgrow its array, because the walk visits    *)
(* every process once.                                                     *)
LEMMA ProcStep == ASSUME ProcTypes, [Next]_vars PROVE ProcTypes'
<1>1. ASSUME ProcFork \/ \E p \in Proc : ProcExit(p) \/ ProcReap(p) PROVE ProcTypes'
  BY <1>1, ProcsAssumption DEF ProcFork, ProcExit, ProcReap, ProcTypes
<1>2. ASSUME \/ TimerFire \/ Callback \/ Tasklet \/ UNCHANGED vars
             \/ (\E a \in Remover : Loop(a))
             \/ (\E r \in Readers : Open(r) \/ SeqStart(r) \/ Show(r) \/ Close(r))
             \/ ModuleInit \/ ModuleExit \/ Unload
      PROVE  UNCHANGED procVars
  BY <1>2 DEF TimerFire, Callback, CallbackSchedule, CallbackRearm, Tasklet, TaskletStart,
              TaskletReset, Visit, CreateEntry, AddResident, FillHead, FillBody, FillHalf, TaskletEnd,
              Loop, LoopBegin, LoopPrint, LoopUnlink, LoopRundown, LoopLoad, LoopStore, Open, SeqStart,
              Show, BarLoad, FirstBar, SecondBar, BarStore, ShowHead, ShowBody, Close, ModuleInit,
              ModuleExit, Unload, KillClaim, KillDone, DeleteTimer, RemoveDir, vars
<1> QED
  BY <1>1, <1>2 DEF Next, procVars, ProcTypes

LEMMA DataStep == ASSUME TypeInv, ListInv, [Next]_vars PROVE DataTypes'
<1>0. \A a : SharedBy(a) \in BOOLEAN
  BY DEF SharedBy, TypeInv, DataTypes
<1> USE DEF TypeInv, DataTypes
<1>1. ASSUME \/ ProcFork \/ (\E p \in Proc : ProcExit(p) \/ ProcReap(p)) \/ TimerFire \/ Callback
             \/ TaskletStart \/ ModuleExit \/ Unload \/ UNCHANGED vars
             \/ (\E a \in Remover : LoopRundown(a) \/ LoopLoad(a))
             \/ (\E r \in Readers : Open(r) \/ BarLoad(r) \/ ShowBody(r) \/ Close(r))
      PROVE  UNCHANGED <<i, data, shared>>
  BY <1>1 DEF ProcFork, ProcExit, ProcReap, TimerFire, Callback, CallbackSchedule, CallbackRearm,
              TaskletStart, ModuleExit, Unload, KillClaim, KillDone, DeleteTimer, RemoveDir,
              LoopRundown, LoopLoad, Open, BarLoad, ShowBody, Close, vars
<1>2. ASSUME TaskletReset \/ CreateEntry \/ TaskletEnd PROVE DataTypes'
  BY <1>2, ResideAssumption DEF TaskletReset, ResetIndex, CreateEntry, TaskletEnd, ListInv
<1>3. ASSUME Visit PROVE DataTypes'
  <2>1. \E p \in Listed : buf' = p
    BY <1>3 DEF Visit
  <2>2. Listed \subseteq Proc
    BY ProcsAssumption DEF Listed, ProcTypes, Proc
  <2> QED
    BY <1>3, <2>1, <2>2 DEF Visit
<1>4. ASSUME AddResident PROVE DataTypes'
  <2>1. cursor \in Proc /\ cur_reside_idx < cursor
    BY <1>4 DEF AddResident, ListInv
  <2>2. cur_reside_idx \in 0 .. MAX_RESIDE - 1 /\ cur_reside_idx + 1 \in 0 .. MAX_RESIDE
    BY <2>1, ProcsAssumption, ResideAssumption DEF Proc
  <2> QED
    BY <1>4, <2>1, <2>2 DEF AddResident
<1>5. ASSUME NEW h \in Half, NEW next, FillHalf(h, next) PROVE DataTypes'
  <2>1. arc' \in [Proc -> [Half -> Nat]]
    <3>1. cursor \in Proc /\ __count + 1 \in Nat
      BY <1>5 DEF FillHalf, ListInv, Half
    <3> QED
      BY <1>5, <3>1 DEF FillHalf
  <2> QED
    BY <1>5, <2>1 DEF FillHalf
<1>6. ASSUME NEW a \in Remover, LoopBegin(a) \/ LoopStore(a) PROVE DataTypes'
  <2>1. i' \in Nat /\ shared' = SharedBy(a) /\ UNCHANGED data
    BY <1>6 DEF LoopBegin, LoopStore, LoopTypes
  <2> QED
    BY <1>0, <2>1 DEF data
<1>7. ASSUME NEW a \in Remover, LoopPrint(a) \/ LoopUnlink(a) PROVE DataTypes'
  BY <1>7 DEF LoopPrint, LoopUnlink, ListInv
<1>8. ASSUME NEW r \in Readers, SeqStart(r) \/ FirstBar(r) \/ SecondBar(r) \/ ShowHead(r)
      PROVE  DataTypes'
  <2>1. i' \in Nat /\ shared' \in {shared, SharedBy(r)} /\ UNCHANGED data
    BY <1>8 DEF SeqStart, FirstBar, SecondBar, BarStore, ShowHead, LoopTypes
  <2> QED
    BY <1>0, <2>1 DEF data
<1>9. ASSUME ModuleInit PROVE DataTypes'
  <2>1. arc' \in [Proc -> [Half -> Nat]]
    BY <1>9 DEF ModuleInit, Loaded, Blank
  <2>2. cur_reside' \in [0 .. MAX_RESIDE - 1 -> Proc \cup {None}]
    BY <1>9 DEF ModuleInit, Loaded
  <2>3. /\ i' = 0 /\ buf' = None /\ cur_reside_idx' = 0 /\ __count' = 0 /\ shared' = FALSE
        /\ entries' = entries
    BY <1>9 DEF ModuleInit, Loaded
  <2>4. 0 \in 0 .. MAX_RESIDE /\ 0 \in Nat
    BY ResideAssumption
  <2> QED
    BY <2>1, <2>2, <2>3, <2>4
<1>10. "head" \in Half /\ "body" \in Half
  BY DEF Half
<1>11. UNCHANGED <<i, data, shared>> => DataTypes'
  BY DEF data
<1> QED
  BY <1>1, <1>2, <1>3, <1>4, <1>5, <1>6, <1>7, <1>8, <1>9, <1>10, <1>11
     DEF Next, Tasklet, FillHead, FillBody, Loop, Show

LEMMA LifeTypesStep == ASSUME TypeInv, [Next]_vars PROVE LifeTypes'
<1> USE DEF TypeInv, LifeTypes
<1>1. ASSUME \/ ProcFork \/ (\E p \in Proc : ProcExit(p) \/ ProcReap(p)) \/ UNCHANGED vars
             \/ (\E a \in Remover : Loop(a))
             \/ (\E r \in Readers : Open(r) \/ SeqStart(r) \/ Show(r) \/ Close(r))
      PROVE  UNCHANGED <<timerVars, tkVars, modVars>>
  BY <1>1 DEF ProcFork, ProcExit, ProcReap, Loop, LoopBegin, LoopPrint, LoopUnlink, LoopRundown,
              LoopLoad, LoopStore, Open, SeqStart, Show, BarLoad, FirstBar, SecondBar, BarStore,
              ShowHead, ShowBody, Close, vars
<1>2. ASSUME TimerFire \/ Callback PROVE LifeTypes'
  BY <1>2 DEF TimerFire, Callback, CallbackSchedule, CallbackRearm, tkVars, modVars
<1>3. ASSUME Tasklet PROVE LifeTypes'
  <2>1. CASE TaskletReset \/ CreateEntry \/ AddResident \/ TaskletEnd
    BY <2>1 DEF TaskletReset, CreateEntry, AddResident, TaskletEnd, timerVars, modVars
  <2>4. CASE TaskletStart
    <3>1. over' \subseteq Readers
      BY <2>4 DEF TaskletStart
    <3> QED
      BY <2>4, <3>1 DEF TaskletStart, timerVars, modVars
  <2>2. CASE FillHead \/ FillBody
    BY <2>2 DEF FillHead, FillBody, FillHalf, timerVars, modVars
  <2>3. CASE Visit
    <3>1. \E p \in Listed : cursor' = p
      BY <2>3 DEF Visit
    <3>2. Listed \subseteq Proc
      BY ProcsAssumption DEF Listed, ProcTypes, Proc
    <3> QED
      BY <2>3, <3>1, <3>2 DEF Visit, timerVars, modVars
  <2> QED
    BY <1>3, <2>1, <2>2, <2>3, <2>4 DEF Tasklet
<1>4. ASSUME ModuleInit \/ ModuleExit \/ Unload PROVE LifeTypes'
  BY <1>4, ZenonT(30)
     DEF ModuleInit, Loaded, ModuleExit, Unload, KillClaim, KillDone, DeleteTimer, RemoveDir,
              Serving, timerVars, tkVars
<1>5. UNCHANGED <<timerVars, tkVars, modVars>> => LifeTypes'
  BY DEF timerVars, tkVars, modVars
<1> QED
  BY <1>1, <1>2, <1>3, <1>4, <1>5 DEF Next

LEMMA LoopTypesStep == ASSUME TypeInv, [Next]_vars PROVE LoopTypes'
<1> USE DEF TypeInv, LoopTypes, Within
<1>1. ASSUME \/ ProcFork \/ (\E p \in Proc : ProcExit(p) \/ ProcReap(p)) \/ UNCHANGED vars
             \/ TimerFire \/ Callback \/ ModuleInit \/ ModuleExit \/ KillClaim \/ KillDone
             \/ Visit \/ CreateEntry \/ AddResident \/ FillHead \/ FillBody \/ TaskletEnd
             \/ (\E r \in Readers : Open(r) \/ ShowHead(r) \/ ShowBody(r) \/ Close(r))
      PROVE  UNCHANGED loopVars
  BY <1>1 DEF ProcFork, ProcExit, ProcReap, TimerFire, Callback, CallbackSchedule, CallbackRearm,
              ModuleInit, ModuleExit, KillClaim, KillDone, Visit, CreateEntry, AddResident, FillHead,
              FillBody, FillHalf, TaskletEnd, Open, ShowHead, ShowBody, Close, vars
<1>2. ASSUME TaskletStart \/ TaskletReset \/ DeleteTimer \/ RemoveDir PROVE LoopTypes'
  BY <1>2 DEF TaskletStart, TaskletReset, DeleteTimer, RemoveDir
<1>3. ASSUME NEW a \in Remover, Loop(a) PROVE LoopTypes'
  <2>1. CASE LoopBegin(a) \/ LoopPrint(a) \/ LoopStore(a)
    BY <2>1 DEF LoopBegin, LoopPrint, LoopStore
  <2>2. CASE LoopUnlink(a)
    BY <2>2 DEF LoopUnlink, DataTypes
  <2>3. CASE LoopRundown(a)
    BY <2>3 DEF LoopRundown
  <2>4. CASE LoopLoad(a)
    BY <2>4 DEF LoopLoad, DataTypes
  <2> QED
    BY <1>3, <2>1, <2>2, <2>3, <2>4 DEF Loop
<1>4. ASSUME NEW r \in Readers, SeqStart(r) \/ BarLoad(r) \/ FirstBar(r) \/ SecondBar(r)
      PROVE  LoopTypes'
  BY <1>4 DEF SeqStart, BarLoad, FirstBar, SecondBar, BarStore, DataTypes
<1>5. UNCHANGED loopVars => LoopTypes'
  BY DEF loopVars
<1> QED
  BY <1>1, <1>2, <1>3, <1>4, <1>5 DEF Next, Tasklet, Show, Unload

LEMMA ReaderStep == ASSUME TypeInv, FileInv, PageInv, [Next]_vars PROVE ReaderTypes'
<1> USE DEF TypeInv, ReaderTypes
<1>1. ASSUME \/ ProcFork \/ (\E p \in Proc : ProcExit(p) \/ ProcReap(p)) \/ UNCHANGED vars
             \/ TimerFire \/ Callback \/ ModuleInit \/ ModuleExit \/ Unload
             \/ TaskletReset \/ Visit \/ CreateEntry \/ AddResident \/ FillHead \/ FillBody
             \/ TaskletEnd
             \/ (\E a \in Remover : LoopBegin(a) \/ LoopPrint(a) \/ LoopUnlink(a) \/ LoopLoad(a)
                                     \/ LoopStore(a))
      PROVE  UNCHANGED rdVars
  BY <1>1 DEF ProcFork, ProcExit, ProcReap, TimerFire, Callback, CallbackSchedule, CallbackRearm,
              ModuleInit, ModuleExit, Unload, KillClaim, KillDone, DeleteTimer, RemoveDir,
              TaskletReset, Visit, CreateEntry, AddResident, FillHead, FillBody, FillHalf, TaskletEnd,
              LoopBegin, LoopPrint, LoopUnlink, LoopLoad, LoopStore, vars
<1>2. ASSUME TaskletStart PROVE ReaderTypes'
  BY <1>2 DEF TaskletStart
<1>3. ASSUME NEW a \in Remover, LoopRundown(a) PROVE ReaderTypes'
  <2>1. Blank \in [Half -> Nat]
    BY DEF Blank
  <2> QED
    BY <1>3, <2>1 DEF LoopRundown
<1>4. ASSUME NEW r \in Readers, Open(r) \/ SeqStart(r) \/ Show(r) \/ Close(r) PROVE ReaderTypes'
  <2>0. Blank \in [Half -> Nat]
    BY DEF Blank
  <2>1. CASE Open(r)
    BY <2>1 DEF Open, DataTypes
  <2>2. CASE SeqStart(r)
    <3>1. quiet' \in [Readers -> BOOLEAN]
      BY <2>2 DEF SeqStart
    <3>2. page' \in [Readers -> [Half -> Nat]]
      BY <2>0, <2>2 DEF SeqStart
    <3>3. /\ rd' \in [Readers -> {"closed", "open", "bar1", "store1", "head", "bar2", "store2", "body"}]
          /\ file' = file
      BY <2>2 DEF SeqStart
    <3>4. pos' \in [Readers -> {0, 1}] /\ pages' \in [Readers -> Nat]
      BY <2>2 DEF SeqStart
    <3> QED
      BY <3>1, <3>2, <3>3, <3>4
  <2>3. CASE BarLoad(r)
    BY <2>3 DEF BarLoad
  <2>4. CASE FirstBar(r) \/ SecondBar(r)
    BY <2>4 DEF FirstBar, SecondBar, BarStore
  <2>5. ASSUME NEW h \in Half, page' = [page EXCEPT ![r][h] = arc[file[r]][h]], file[r] \in Proc
        PROVE  page' \in [Readers -> [Half -> Nat]]
    BY <2>5 DEF DataTypes
  <2>6. "head" \in Half /\ "body" \in Half
    BY DEF Half
  <2>7. CASE ShowHead(r)
    <3>1. page' \in [Readers -> [Half -> Nat]]
      BY <2>5, <2>6, <2>7 DEF ShowHead, FileInv
    <3> QED
      BY <2>7, <3>1 DEF ShowHead
  <2>8. CASE ShowBody(r)
    <3>1. page' \in [Readers -> [Half -> Nat]]
      BY <2>5, <2>6, <2>8 DEF ShowBody, FileInv
    <3>2. pos[r] = 0
      BY <2>8 DEF ShowBody, PageInv
    <3> QED
      BY <2>8, <3>1, <3>2 DEF ShowBody, NextPos
  <2>9. CASE Close(r)
    BY <2>0, <2>9 DEF Close
  <2> QED
    BY <1>4, <2>1, <2>2, <2>3, <2>4, <2>7, <2>8, <2>9 DEF Show
<1>5. UNCHANGED rdVars => ReaderTypes'
  BY DEF rdVars
<1> QED
  BY <1>1, <1>2, <1>3, <1>4, <1>5 DEF Next, Tasklet, Loop

LEMMA TypeStep ==
  ASSUME TypeInv, ListInv, FileInv, PageInv, [Next]_vars
  PROVE  TypeInv'
BY ProcStep, DataStep, LifeTypesStep, LoopTypesStep, ReaderStep DEF TypeInv

-----------------------------------------------------------------------------
(* The list. *)
LEMMA ListStep == ASSUME TypeInv, ListInv, LoopInv, [Next]_vars PROVE ListInv'
<1> USE ReadersAssumption, ProcsAssumption, ResideAssumption
<1> DEFINE Same == UNCHANGED <<tk, cursor, cur_reside_idx, cur_reside, buf, lp, reg>>
<1>0. Same => ListInv'
  BY DEF ListInv
<1>1. ASSUME \/ ProcFork \/ (\E p \in Proc : ProcExit(p) \/ ProcReap(p)) \/ TimerFire \/ Callback
             \/ ModuleExit \/ KillClaim \/ KillDone \/ UNCHANGED vars
             \/ \E r \in Readers : Open(r) \/ ShowHead(r) \/ ShowBody(r) \/ Close(r)
      PROVE  Same
  BY <1>1 DEF ProcFork, ProcExit, ProcReap, TimerFire, Callback, CallbackSchedule, CallbackRearm,
              ModuleExit, KillClaim, KillDone, Open, ShowHead, ShowBody, Close, vars,
              data, tkVars, loopVars
<1>2. ASSUME NEW r \in Readers, SeqStart(r) \/ BarLoad(r) \/ FirstBar(r) \/ SecondBar(r)
      PROVE  ListInv'
  <2>1. /\ UNCHANGED <<tk, cursor, cur_reside_idx, cur_reside, buf, lp>>
        /\ \A a \in Remover : reg'[a] = reg[a]
    BY <1>2 DEF SeqStart, BarLoad, FirstBar, SecondBar, BarStore, TypeInv, ProcTypes, DataTypes, LifeTypes, LoopTypes, ReaderTypes, data, tkVars
  <2> QED
    BY <2>1 DEF ListInv
<1>3. ASSUME DeleteTimer \/ RemoveDir PROVE ListInv'
  BY <1>3 DEF DeleteTimer, RemoveDir, ListInv, TypeInv, ProcTypes, DataTypes, LifeTypes, LoopTypes, ReaderTypes, Remover, data, tkVars
<1>4. ASSUME ModuleInit PROVE ListInv'
  <2>1. \A a \in Remover : lp[a] = "out"
    BY <1>4 DEF ModuleInit, LoopInv, Remover
  <2> QED
    BY <1>4, <2>1 DEF ModuleInit, Loaded, ListInv, Index, tkVars, loopVars
<1>5. ASSUME TaskletStart \/ TaskletReset PROVE ListInv'
  BY <1>5 DEF TaskletStart, TaskletReset, ResetIndex, ListInv, TypeInv, ProcTypes, DataTypes, LifeTypes, LoopTypes, ReaderTypes, Remover, Index,
              None, data
<1>6. ASSUME Visit PROVE ListInv'
  <2>1. PICK p \in Listed : p > cursor /\ cursor' = p /\ buf' = p
    BY <1>6 DEF Visit
  <2>2. p \in Proc
    BY DEF Listed, TypeInv, ProcTypes, DataTypes, LifeTypes, LoopTypes, ReaderTypes, Proc
  <2>3. cursor \in Nat /\ cur_reside_idx \in Nat
    BY DEF TypeInv, ProcTypes, DataTypes, LifeTypes, LoopTypes, ReaderTypes, Proc, None
  <2> QED
    BY <1>6, <2>1, <2>2, <2>3 DEF Visit, ListInv, Proc, loopVars
<1>7. ASSUME CreateEntry PROVE ListInv'
  BY <1>7 DEF CreateEntry, ListInv, loopVars
<1>8. ASSUME AddResident PROVE ListInv'
  <2>1. cursor \in Proc /\ cur_reside_idx < cursor /\ cur_reside_idx \in Index
    BY <1>8 DEF AddResident, ListInv, TypeInv, ProcTypes, DataTypes, LifeTypes, LoopTypes, ReaderTypes, Proc, Index
  <2>2. cur_reside_idx' = cur_reside_idx + 1 /\ cur_reside_idx' <= cursor
    BY <1>8, <2>1 DEF AddResident, TypeInv, ProcTypes, DataTypes, LifeTypes, LoopTypes, ReaderTypes, Proc, Index
  <2>3. \A k \in Index : cur_reside'[k] = IF k = cur_reside_idx THEN cursor ELSE cur_reside[k]
    BY <1>8 DEF AddResident, TypeInv, ProcTypes, DataTypes, LifeTypes, LoopTypes, ReaderTypes, Index
  <2>4. \A k \in Index : k < cur_reside_idx' => cur_reside'[k] \in Proc
    BY <2>1, <2>2, <2>3 DEF ListInv, Index
  <2> QED
    BY <1>8, <2>1, <2>2, <2>3, <2>4 DEF AddResident, ListInv, loopVars
<1>9. ASSUME NEW h \in Half, NEW next \in {"body", "walk"}, FillHalf(h, next) PROVE ListInv'
  BY <1>9 DEF FillHalf, ListInv, Half, loopVars
<1>10. ASSUME TaskletEnd PROVE ListInv'
  BY <1>10 DEF TaskletEnd, ListInv, loopVars
<1>11. ASSUME NEW a \in Remover, Loop(a) PROVE ListInv'
  <2> USE DEF TypeInv, ProcTypes, DataTypes, LifeTypes, LoopTypes, ReaderTypes
  <2>1. CASE LoopBegin(a) \/ LoopStore(a)
    <3>1. /\ UNCHANGED <<tk, cursor, cur_reside_idx, cur_reside, buf>>
          /\ \A b \in Remover \ {a} : reg'[b] = reg[b] /\ lp'[b] = lp[b]
          /\ lp'[a] # "unlink"
      BY <2>1 DEF LoopBegin, LoopStore, data, tkVars
    <3>2. lp'[a] = "print" => reg'[a] \in Index /\ reg'[a] < cur_reside_idx
      BY <2>1 DEF LoopBegin, LoopStore, Index
    <3> QED
      BY <3>1, <3>2 DEF ListInv
  <2>2. CASE LoopPrint(a)
    BY <2>2 DEF LoopPrint, ListInv, tkVars
  <2>3. CASE LoopUnlink(a) \/ LoopRundown(a) \/ LoopLoad(a)
    <3>1. /\ UNCHANGED <<tk, cursor, cur_reside_idx, cur_reside, buf>>
          /\ \A b \in Remover \ {a} : reg'[b] = reg[b] /\ lp'[b] = lp[b]
          /\ lp'[a] \notin {"print", "unlink"}
      BY <2>3 DEF LoopUnlink, LoopRundown, LoopLoad, data, tkVars
    <3> QED
      BY <3>1 DEF ListInv
  <2> QED
    BY <1>11, <2>1, <2>2, <2>3 DEF Loop
<1>12. "head" \in Half /\ "body" \in Half
  BY DEF Half
<1> HIDE DEF Same
<1> QED
  BY <1>0, <1>1, <1>2, <1>3, <1>4, <1>5, <1>6, <1>7, <1>8, <1>9, <1>10, <1>11, <1>12
     DEF Next, Tasklet, FillHead, FillBody, Show, Unload

-----------------------------------------------------------------------------
(* The timer and the unloading. *)
LEMMA LifeStep == ASSUME TypeInv, LifeInv, [Next]_vars PROVE LifeInv'
<1> DEFINE Same == UNCHANGED <<queued, sched, module, refired, cb, armed, tk>>
<1>0. Same => LifeInv'
  BY DEF LifeInv
<1>1. ASSUME \/ ProcFork \/ (\E p \in Proc : ProcExit(p) \/ ProcReap(p)) \/ UNCHANGED vars
             \/ (\E a \in Remover : Loop(a))
             \/ \E r \in Readers : Open(r) \/ SeqStart(r) \/ Show(r) \/ Close(r)
      PROVE  Same
  BY <1>1 DEF ProcFork, ProcExit, ProcReap, Loop, LoopBegin, LoopPrint, LoopUnlink, LoopRundown,
              LoopLoad, LoopStore, Open, SeqStart, Show, BarLoad, FirstBar, SecondBar, BarStore,
              ShowHead, ShowBody, Close, vars, timerVars, tkVars, modVars
<1>2. ASSUME TimerFire \/ Callback PROVE LifeInv'
  BY <1>2 DEF TimerFire, Callback, CallbackSchedule, CallbackRearm, LifeInv, TypeInv, ProcTypes, DataTypes, LifeTypes, LoopTypes, ReaderTypes, Present,
              tkVars, modVars
<1>3. ASSUME Tasklet PROVE LifeInv'
  BY <1>3 DEF Tasklet, TaskletStart, TaskletReset, Visit, CreateEntry, AddResident, FillHead,
              FillBody, FillHalf, TaskletEnd, LifeInv, timerVars, modVars
<1>4. ASSUME ModuleInit \/ ModuleExit \/ Unload PROVE LifeInv'
  <2>1. CASE ModuleInit
    BY <2>1 DEF ModuleInit, Loaded, LifeInv, tkVars
  <2>2. CASE ModuleExit
    BY <2>2 DEF ModuleExit, LifeInv, timerVars, tkVars
  <2>3. CASE KillClaim \/ KillDone
    BY <2>3 DEF KillClaim, KillDone, LifeInv, timerVars
  <2>4. CASE DeleteTimer \/ RemoveDir
    BY <2>4 DEF DeleteTimer, RemoveDir, LifeInv, timerVars, tkVars
  <2> QED
    BY <1>4, <2>1, <2>2, <2>3, <2>4 DEF Unload
<1> HIDE DEF Same
<1> QED
  BY <1>0, <1>1, <1>2, <1>3, <1>4 DEF Next

-----------------------------------------------------------------------------
(* The removal loops: i is the loop's own unless shared says otherwise.    *)
LEMMA LoopStep == ASSUME TypeInv, LoopInv, [Next]_vars PROVE LoopInv'
<1> USE ReadersAssumption
<1> DEFINE Same == UNCHANGED <<lp, tk, module, doomed, shared, i, reg>>
           Kept == (lp'["tasklet"] # "out" <=> tk' = "remove") /\ (lp'["rmmod"] # "out" <=> module' = "remove")
<1>0. Same => LoopInv'
  BY DEF LoopInv
<1>1. ASSUME \/ ProcFork \/ (\E p \in Proc : ProcExit(p) \/ ProcReap(p)) \/ TimerFire \/ Callback
             \/ CreateEntry \/ AddResident \/ UNCHANGED vars
             \/ \E r \in Readers : Open(r) \/ ShowBody(r) \/ Close(r)
      PROVE  Same \/ (UNCHANGED <<lp, module, doomed, shared, i, reg>> /\ tk # "remove" /\ tk' # "remove")
  BY <1>1 DEF ProcFork, ProcExit, ProcReap, TimerFire, Callback, CallbackSchedule, CallbackRearm,
              CreateEntry, AddResident, Open, ShowBody, Close, vars, data, tkVars, loopVars, modVars
<1>2. ASSUME Visit \/ FillHead \/ FillBody \/ TaskletEnd \/ ModuleExit \/ KillClaim \/ KillDone
      PROVE  LoopInv'
  BY <1>2 DEF Visit, FillHead, FillBody, FillHalf, TaskletEnd, ModuleExit, KillClaim, KillDone,
              LoopInv, tkVars, loopVars, modVars
<1>3. ASSUME TaskletStart \/ TaskletReset \/ DeleteTimer \/ RemoveDir PROVE LoopInv'
  <2>1. \A a \in Remover : lp'[a] \in Within => lp'[a] = lp[a]
    BY <1>3 DEF TaskletStart, TaskletReset, DeleteTimer, RemoveDir, TypeInv, LoopTypes, Within
  <2>2. \A a \in Remover : lp'[a] # "rundown" => lp[a] # "rundown"
    BY <1>3 DEF TaskletStart, TaskletReset, DeleteTimer, RemoveDir, TypeInv, LoopTypes, LoopInv, Remover
  <2>3. UNCHANGED <<i, doomed, shared, reg>>
    BY <1>3 DEF TaskletStart, TaskletReset, DeleteTimer, RemoveDir
  <2>4. Kept
    BY <1>3 DEF TaskletStart, TaskletReset, DeleteTimer, RemoveDir, LoopInv, TypeInv, LoopTypes, Remover,
                modVars, tkVars
  <2> QED
    BY <2>1, <2>2, <2>3, <2>4 DEF LoopInv
<1>4. ASSUME ModuleInit PROVE LoopInv'
  BY <1>4 DEF ModuleInit, Loaded, LoopInv, Within, Remover, tkVars, loopVars
<1>5. ASSUME NEW r \in Readers, SeqStart(r) \/ BarLoad(r) \/ FirstBar(r) \/ SecondBar(r) \/ ShowHead(r)
      PROVE  LoopInv'
  <2>1. UNCHANGED <<lp, tk, module, doomed>> /\ \A a \in Remover : reg'[a] = reg[a]
    BY <1>5 DEF SeqStart, BarLoad, FirstBar, SecondBar, BarStore, ShowHead, TypeInv, ProcTypes, DataTypes, LifeTypes, LoopTypes, ReaderTypes, tkVars,
                loopVars, modVars
  <2>2. ASSUME NEW a \in Remover, ~shared', lp[a] \in Within PROVE ~shared /\ i' = i
    <3>1. r # a /\ Removing(a)
      BY <2>2 DEF Removing, Within
    <3>2. SharedBy(r) /\ (shared => SharedBy(r))
      BY <2>2, <3>1 DEF SharedBy
    <3> HIDE DEF SharedBy
    <3>3. CASE SeqStart(r)
      BY <2>2, <3>2, <3>3 DEF SeqStart
    <3>4. CASE BarLoad(r)
      BY <2>2, <3>4 DEF BarLoad
    <3>5. CASE FirstBar(r) \/ SecondBar(r) \/ ShowHead(r)
      BY <2>2, <3>2, <3>5 DEF FirstBar, SecondBar, BarStore, ShowHead
    <3> QED
      BY <1>5, <3>3, <3>4, <3>5
  <2> QED
    BY <2>1, <2>2 DEF LoopInv
<1>6. ASSUME NEW a \in Remover, Loop(a) PROVE LoopInv'
  <2> USE DEF TypeInv, ProcTypes, DataTypes, LifeTypes, LoopTypes, ReaderTypes
  <2>1. UNCHANGED <<tk, module>> /\ lp[a] # "out" /\ lp'[a] # "out"
        /\ \A b \in Remover \ {a} : lp'[b] = lp[b] /\ reg'[b] = reg[b] /\ doomed'[b] = doomed[b]
    BY <1>6, ZenonT(30)
       DEF Loop, LoopBegin, LoopPrint, LoopUnlink, LoopRundown, LoopLoad, LoopStore,
           tkVars, modVars
  <2>2. Kept
    BY <2>1 DEF LoopInv, Remover
  <2>3. lp'[a] # "rundown" => doomed'[a] = None
    BY <1>6 DEF Loop, LoopBegin, LoopPrint, LoopUnlink, LoopRundown, LoopLoad, LoopStore, LoopInv
  <2>4. ~shared' /\ lp'[a] \in Within => i' = reg'[a]
    BY <1>6, ZenonT(30)
       DEF Loop, LoopBegin, LoopPrint, LoopUnlink, LoopRundown, LoopLoad, LoopStore, LoopInv,
                SharedBy, Within
  <2>5. ASSUME NEW b \in Remover \ {a}, ~shared', lp[b] \in Within PROVE ~shared /\ i' = i
    <3>1. Removing(b) /\ SharedBy(a)
      BY <2>5 DEF Removing, Within, SharedBy
    <3> QED
      BY <1>6, <2>5, <3>1 DEF Loop, LoopBegin, LoopPrint, LoopUnlink, LoopRundown, LoopLoad, LoopStore
  <2>6. ASSUME NEW b \in Remover
        PROVE  /\ lp'[b] # "rundown" => doomed'[b] = None
               /\ ~shared' /\ lp'[b] \in Within => i' = reg'[b]
    <3>1. CASE b = a
      BY <2>3, <2>4, <3>1
    <3>2. CASE b # a
      BY <2>1, <2>5, <3>2 DEF LoopInv
    <3> QED
      BY <3>1, <3>2
  <2> QED
    BY <2>2, <2>6 DEF LoopInv
<1>7. ASSUME UNCHANGED <<lp, module, doomed, shared, i, reg>>, tk # "remove", tk' # "remove"
      PROVE  LoopInv'
  BY <1>7 DEF LoopInv
<1> HIDE DEF Same
<1> QED
  BY <1>0, <1>1, <1>2, <1>3, <1>4, <1>5, <1>6, <1>7 DEF Next, Tasklet, Show, Unload

-----------------------------------------------------------------------------
(* The files of the readers. *)
LEMMA FileStep == ASSUME TypeInv, ListInv, LoopInv, FileInv, [Next]_vars PROVE FileInv'
<1> DEFINE Same == UNCHANGED <<rd, file, entries, doomed>>
<1>0. Same => FileInv'
  BY DEF FileInv
<1>1. ASSUME \/ ProcFork \/ (\E p \in Proc : ProcExit(p) \/ ProcReap(p)) \/ TimerFire \/ Callback
             \/ TaskletStart \/ TaskletReset \/ Visit \/ AddResident \/ FillHead \/ FillBody
             \/ TaskletEnd \/ ModuleInit \/ ModuleExit \/ Unload \/ UNCHANGED vars
             \/ \E a \in Remover : LoopBegin(a) \/ LoopPrint(a) \/ LoopLoad(a) \/ LoopStore(a)
      PROVE  Same
  BY <1>1 DEF ProcFork, ProcExit, ProcReap, TimerFire, Callback, CallbackSchedule, CallbackRearm,
              TaskletStart, TaskletReset, Visit, AddResident, FillHead, FillBody, FillHalf,
              TaskletEnd, ModuleInit, ModuleExit, Unload, KillClaim, KillDone, DeleteTimer,
              RemoveDir, LoopBegin, LoopPrint, LoopLoad, LoopStore, vars, data, loopVars, rdVars
<1>2. ASSUME CreateEntry PROVE FileInv'
  BY <1>2 DEF CreateEntry, FileInv, loopVars, rdVars
<1>3. ASSUME NEW a \in Remover, LoopUnlink(a) PROVE FileInv'
  <2>1. doomed[a] = None /\ buf \in Proc /\ UNCHANGED <<rd, file>>
    BY <1>3 DEF LoopUnlink, LoopInv, ListInv, rdVars
  <2>2. CASE buf \in entries
    <3>1. entries' = entries \ {buf} /\ doomed'[a] = buf
          /\ \A b \in Remover \ {a} : doomed'[b] = doomed[b]
      BY <1>3, <2>2 DEF LoopUnlink, TypeInv, ProcTypes, DataTypes, LifeTypes, LoopTypes, ReaderTypes
    <3>2. None \notin Proc
      BY DEF None, Proc
    <3> QED
      BY <2>1, <3>1, <3>2 DEF FileInv
  <2>3. CASE buf \notin entries
    BY <1>3, <2>1, <2>3 DEF LoopUnlink, FileInv
  <2> QED
    BY <2>2, <2>3
<1>4. ASSUME NEW a \in Remover, LoopRundown(a) PROVE FileInv'
  <2>1. \A b \in Remover \ {a} : doomed'[b] = doomed[b]
    BY <1>4 DEF LoopRundown, TypeInv, ProcTypes, DataTypes, LifeTypes, LoopTypes, ReaderTypes
  <2>2. entries' = entries
    BY <1>4 DEF LoopRundown, data
  <2>3. \A r \in Readers : IF file[r] = doomed[a] THEN rd'[r] = "closed" /\ file'[r] = None
                                                  ELSE rd'[r] = rd[r] /\ file'[r] = file[r]
    BY <1>4 DEF LoopRundown
  <2> QED
    BY <2>1, <2>2, <2>3 DEF FileInv
<1>5. ASSUME NEW r \in Readers, Open(r) \/ SeqStart(r) \/ Show(r) \/ Close(r) PROVE FileInv'
  <2>1. UNCHANGED <<entries, doomed>>
    BY <1>5 DEF Open, SeqStart, Show, BarLoad, FirstBar, SecondBar, BarStore, ShowHead, ShowBody,
                Close, data, loopVars
  <2>2. \A s \in Readers \ {r} : rd'[s] = rd[s] /\ file'[s] = file[s]
    BY <1>5 DEF Open, SeqStart, Show, BarLoad, FirstBar, SecondBar, BarStore, ShowHead, ShowBody,
                Close, TypeInv, ProcTypes, DataTypes, LifeTypes, LoopTypes, ReaderTypes
  <2>3. CASE Open(r)
    <3>1. rd'[r] = "open" /\ file'[r] \in entries /\ entries \subseteq Proc
      BY <2>3 DEF Open, TypeInv, ProcTypes, DataTypes, LifeTypes, LoopTypes, ReaderTypes
    <3> QED
      BY <2>1, <2>2, <3>1 DEF FileInv
  <2>4. CASE SeqStart(r) \/ Show(r)
    <3>1. rd[r] # "closed" /\ rd'[r] # "closed" /\ file'[r] = file[r]
      BY <2>4 DEF SeqStart, Show, BarLoad, FirstBar, SecondBar, BarStore, ShowHead, ShowBody, TypeInv, ProcTypes, DataTypes, LifeTypes, LoopTypes, ReaderTypes
    <3> QED
      BY <2>1, <2>2, <3>1 DEF FileInv
  <2>5. CASE Close(r)
    <3>1. rd'[r] = "closed" /\ file'[r] = None
      BY <2>5 DEF Close, TypeInv, ProcTypes, DataTypes, LifeTypes, LoopTypes, ReaderTypes
    <3> QED
      BY <2>1, <2>2, <3>1 DEF FileInv
  <2> QED
    BY <1>5, <2>3, <2>4, <2>5
<1> HIDE DEF Same
<1> QED
  BY <1>0, <1>1, <1>2, <1>3, <1>4, <1>5 DEF Next, Tasklet, Loop

-----------------------------------------------------------------------------
(* A removal loop that has i for itself unlinks every file of the list.    *)
LEMMA ResidentsSplit ==
  ASSUME TypeInv
  PROVE  /\ ResidentsFrom(0) = Residents
         /\ \A k \in Nat : k >= cur_reside_idx => ResidentsFrom(k) = {}
         /\ \A k \in Nat : ResidentsFrom(k) \subseteq {cur_reside[k]} \cup ResidentsFrom(k + 1)
<1> USE DEF TypeInv, ProcTypes, DataTypes, LifeTypes, LoopTypes, ReaderTypes
<1>1. ResidentsFrom(0) = Residents
  BY DEF ResidentsFrom, Residents
<1>2. ASSUME NEW k \in Nat, k >= cur_reside_idx PROVE ResidentsFrom(k) = {}
  <2>1. k .. cur_reside_idx - 1 = {}
    BY <1>2
  <2> QED
    BY <2>1 DEF ResidentsFrom
<1>3. ASSUME NEW k \in Nat PROVE ResidentsFrom(k) \subseteq {cur_reside[k]} \cup ResidentsFrom(k + 1)
  <2>1. \A m \in k .. cur_reside_idx - 1 : m = k \/ m \in k + 1 .. cur_reside_idx - 1
    OBVIOUS
  <2> QED
    BY <2>1 DEF ResidentsFrom
<1> QED
  BY <1>1, <1>2, <1>3

LEMMA ClearsStep ==
  ASSUME TypeInv, LoopInv, NEW a \in Remover, Loop(a), Clears(a), ~shared
  PROVE  Clears(a)'
<1> USE ReadersAssumption
<1>1. reg[a] \in Nat /\ reg[a] + 1 \in Nat /\ cur_reside_idx \in Nat
  BY DEF TypeInv, ProcTypes, DataTypes, LifeTypes, LoopTypes, ReaderTypes
<1>2. CASE LoopBegin(a)
  <2>1. /\ UNCHANGED <<entries, cur_reside, cur_reside_idx>> /\ reg'[a] = 0 /\ lp[a] = "begin"
        /\ lp'[a] = IF 0 < cur_reside_idx THEN "print" ELSE "done"
    BY <1>2 DEF LoopBegin, TypeInv, ProcTypes, DataTypes, LifeTypes, LoopTypes, ReaderTypes, data
  <2>2. entries \subseteq Residents
    BY <2>1 DEF Clears, ToUnlink
  <2>3. ResidentsFrom(reg[a])' = Residents
    BY <2>1, ResidentsSplit DEF ResidentsFrom
  <2>4. ~(0 < cur_reside_idx) => Residents = {}
    BY <1>1, ResidentsSplit
  <2> QED
    BY <2>1, <2>2, <2>3, <2>4 DEF Clears, ToUnlink
<1>3. CASE LoopPrint(a)
  <2>1. /\ UNCHANGED <<entries, cur_reside, cur_reside_idx, reg>> /\ lp[a] = "print"
        /\ lp'[a] = "unlink" /\ buf' = cur_reside[reg[a]]
    BY <1>3 DEF LoopPrint, TypeInv, ProcTypes, DataTypes, LifeTypes, LoopTypes, ReaderTypes
  <2> QED
    BY <2>1 DEF Clears, ToUnlink, ResidentsFrom
<1>4. CASE LoopUnlink(a)
  <2>1. /\ UNCHANGED <<cur_reside, cur_reside_idx, reg>> /\ lp[a] = "unlink"
        /\ lp'[a] \in {"rundown", "load"} /\ entries' = entries \ {buf}
    BY <1>4 DEF LoopUnlink, TypeInv, ProcTypes, DataTypes, LifeTypes, LoopTypes, ReaderTypes
  <2>2. entries \subseteq ResidentsFrom(reg[a]) /\ buf = cur_reside[reg[a]]
    BY <2>1 DEF Clears, ToUnlink
  <2>3. entries' \subseteq ResidentsFrom(reg[a] + 1)
    BY <1>1, <2>1, <2>2, ResidentsSplit
  <2>4. ResidentsFrom(reg[a] + 1)' = ResidentsFrom(reg[a] + 1)
    BY <2>1 DEF ResidentsFrom
  <2> QED
    BY <2>1, <2>3, <2>4 DEF Clears, ToUnlink
<1>5. CASE LoopRundown(a)
  <2>1. /\ UNCHANGED <<entries, cur_reside, cur_reside_idx, reg>> /\ lp[a] = "rundown"
        /\ lp'[a] = "load"
    BY <1>5 DEF LoopRundown, TypeInv, ProcTypes, DataTypes, LifeTypes, LoopTypes, ReaderTypes, data
  <2> QED
    BY <2>1 DEF Clears, ToUnlink, ResidentsFrom
<1>6. CASE LoopLoad(a)
  <2>1. /\ UNCHANGED <<entries, cur_reside, cur_reside_idx>> /\ lp[a] = "load" /\ lp'[a] = "store"
        /\ reg'[a] = i + 1 /\ i = reg[a]
    BY <1>6 DEF LoopLoad, LoopInv, Within, TypeInv, ProcTypes, DataTypes, LifeTypes, LoopTypes, ReaderTypes, data
  <2> QED
    BY <2>1 DEF Clears, ToUnlink, ResidentsFrom
<1>7. CASE LoopStore(a)
  <2>1. /\ UNCHANGED <<entries, cur_reside, cur_reside_idx>> /\ lp[a] = "store"
        /\ \/ lp'[a] = "print" /\ UNCHANGED reg
           \/ lp'[a] = "done" /\ reg[a] >= cur_reside_idx
    BY <1>1, <1>7 DEF LoopStore, TypeInv, ProcTypes, DataTypes, LifeTypes, LoopTypes, ReaderTypes, data
  <2>2. entries \subseteq ResidentsFrom(reg[a])
    BY <2>1 DEF Clears, ToUnlink
  <2>3. CASE lp'[a] = "print" /\ UNCHANGED reg
    BY <2>1, <2>2, <2>3 DEF Clears, ToUnlink, ResidentsFrom
  <2>4. CASE lp'[a] = "done" /\ reg[a] >= cur_reside_idx
    BY <1>1, <2>1, <2>2, <2>4, ResidentsSplit DEF Clears, ToUnlink
  <2> QED
    BY <2>1, <2>3, <2>4
<1> QED
  BY <1>2, <1>3, <1>4, <1>5, <1>6, <1>7 DEF Loop

-----------------------------------------------------------------------------
(* The files are those of the list. *)
LEMMA EntriesStep ==
  ASSUME TypeInv, ListInv, LifeInv, LoopInv, EntriesInv, [Next]_vars
  PROVE  EntriesInv'
<1> USE ReadersAssumption
<1> DEFINE Kept == /\ UNCHANGED <<tk, entries, cur_reside, cur_reside_idx, buf, cursor, lp>>
                   /\ \A a \in Remover : reg'[a] = reg[a]
                   /\ shared => shared'
           Same == Kept /\ module' = module /\ (refired => refired')
<1>0. Kept => /\ Agrees' <=> Agrees
              /\ Clears("rmmod")' <=> Clears("rmmod")
  BY DEF Agrees, Clears, ToUnlink, Residents, ResidentsFrom, Remover
<1>1. Same => EntriesInv'
  BY <1>0 DEF EntriesInv
<1>2. ASSUME \/ ProcFork \/ (\E p \in Proc : ProcExit(p) \/ ProcReap(p)) \/ TimerFire \/ Callback
             \/ (\E r \in Readers : Open(r) \/ SeqStart(r) \/ Show(r) \/ Close(r)) \/ UNCHANGED vars
      PROVE  Same
  <2> USE DEF Same, Kept, TypeInv, ProcTypes, DataTypes, LifeTypes, LoopTypes, ReaderTypes, data, tkVars, loopVars, modVars, vars
  <2>1. CASE \/ ProcFork \/ (\E p \in Proc : ProcExit(p) \/ ProcReap(p)) \/ TimerFire \/ Callback
             \/ UNCHANGED vars
    BY <2>1 DEF ProcFork, ProcExit, ProcReap, TimerFire, Callback, CallbackSchedule, CallbackRearm
  <2>2. ASSUME NEW r \in Readers, Open(r) \/ SeqStart(r) \/ Show(r) \/ Close(r) PROVE Same
    BY <2>2 DEF Open, SeqStart, Show, BarLoad, FirstBar, SecondBar, BarStore, ShowHead, ShowBody,
                Close, SharedBy
  <2> QED
    BY <1>2, <2>1, <2>2
<1>3. ASSUME ModuleExit \/ KillClaim \/ KillDone PROVE EntriesInv'
  <2>1. Kept /\ module \in Serving /\ module' \in Serving
    BY <1>3 DEF ModuleExit, KillClaim, KillDone, Serving, data, tkVars, loopVars
  <2> QED
    BY <1>0, <2>1 DEF EntriesInv, Serving
<1>4. ASSUME ModuleInit PROVE EntriesInv'
  <2>1. entries' = {} /\ tk' = "idle" /\ module' = "loaded" /\ cur_reside_idx' = 0
    BY <1>4 DEF ModuleInit, Loaded, tkVars
  <2>2. Residents' = {}
    BY <2>1 DEF Residents
  <2> QED
    BY <2>1, <2>2 DEF EntriesInv, Agrees, Serving
<1>5. ASSUME DeleteTimer PROVE EntriesInv'
  <2>1. /\ UNCHANGED <<tk, entries, cur_reside, cur_reside_idx, shared, refired>>
        /\ module = "delete" /\ module' = "remove" /\ lp'["rmmod"] = "begin"
    BY <1>5 DEF DeleteTimer, TypeInv, ProcTypes, DataTypes, LifeTypes, LoopTypes, ReaderTypes, Remover, data, tkVars
  <2>2. ~shared /\ ~refired => entries = Residents
    BY <2>1 DEF EntriesInv, Agrees, LifeInv, Serving
  <2> QED
    BY <2>1, <2>2 DEF EntriesInv, Clears, ToUnlink, Residents, Serving
<1>6. ASSUME RemoveDir PROVE EntriesInv'
  <2>1. /\ UNCHANGED <<entries, shared, refired>>
        /\ module = "remove" /\ module' = "absent" /\ lp["rmmod"] = "done"
    BY <1>6 DEF RemoveDir, data
  <2> QED
    BY <2>1 DEF EntriesInv, Clears, ToUnlink, Serving
<1>7. ASSUME Tasklet PROVE EntriesInv'
  <2>1. /\ UNCHANGED <<module, refired, shared>>
        /\ ~refired => module \in Serving
    BY <1>7 DEF Tasklet, TaskletStart, TaskletReset, Visit, CreateEntry, AddResident, FillHead,
                FillBody, FillHalf, TaskletEnd, LifeInv, TypeInv, ProcTypes, DataTypes, LifeTypes, LoopTypes, ReaderTypes, Serving, modVars
  <2> SUFFICES ASSUME ~shared, module \in Serving, Agrees PROVE Agrees'
    BY <2>1 DEF EntriesInv, Serving
  <2>2. CASE TaskletStart
    BY <2>2 DEF TaskletStart, Agrees, Clears, ToUnlink, Residents, TypeInv, ProcTypes, DataTypes, LifeTypes, LoopTypes, ReaderTypes, Remover, data
  <2>3. CASE TaskletReset
    <3>1. entries' = {} /\ cur_reside_idx' = 0 /\ tk' = "walk"
      BY <2>3 DEF TaskletReset, ResetIndex, Agrees, Clears, ToUnlink
    <3>2. Residents' = {}
      BY <3>1 DEF Residents
    <3> QED
      BY <3>1, <3>2 DEF Agrees
  <2>4. CASE Visit
    BY <2>4 DEF Visit, Agrees, Residents
  <2>5. CASE CreateEntry
    BY <2>5 DEF CreateEntry, Agrees, Residents
  <2>6. CASE AddResident
    <3>1. cur_reside_idx \in Nat /\ cursor \in Proc /\ cur_reside_idx \in Index
      BY <2>6, ResideAssumption, ProcsAssumption DEF AddResident, ListInv, TypeInv, ProcTypes, DataTypes, LifeTypes, LoopTypes, ReaderTypes, Proc, Index
    <3>2. \A k \in 0 .. cur_reside_idx' - 1 :
            cur_reside'[k] = IF k = cur_reside_idx THEN cursor ELSE cur_reside[k]
      BY <2>6, <3>1 DEF AddResident, TypeInv, ProcTypes, DataTypes, LifeTypes, LoopTypes, ReaderTypes, Index
    <3>3. 0 .. cur_reside_idx' - 1 = (0 .. cur_reside_idx - 1) \cup {cur_reside_idx}
      BY <2>6, <3>1 DEF AddResident
    <3>4. cur_reside_idx \notin 0 .. cur_reside_idx - 1
      BY <3>1
    <3>5. Residents' = Residents \cup {cursor}
      BY <3>2, <3>3, <3>4 DEF Residents
    <3> QED
      BY <2>6, <3>5 DEF AddResident, Agrees
  <2>7. CASE FillHead \/ FillBody \/ TaskletEnd
    BY <2>7 DEF FillHead, FillBody, FillHalf, TaskletEnd, Agrees, Residents
  <2> QED
    BY <1>7, <2>2, <2>3, <2>4, <2>5, <2>6, <2>7 DEF Tasklet
<1>8. ASSUME NEW a \in Remover, Loop(a) PROVE EntriesInv'
  <2>0. shared => SharedBy(a)
    BY DEF SharedBy
  <2>1. UNCHANGED <<tk, module, refired>> /\ (shared => shared') /\ lp[a] # "out"
    <3>1. UNCHANGED <<tk, module, refired>> /\ lp[a] # "out"
      BY <1>8 DEF Loop, LoopBegin, LoopPrint, LoopUnlink, LoopRundown, LoopLoad, LoopStore, tkVars,
                  modVars
    <3>2. shared' \in {shared, SharedBy(a)}
      BY <1>8 DEF Loop, LoopBegin, LoopPrint, LoopUnlink, LoopRundown, LoopLoad, LoopStore
    <3> QED
      BY <2>0, <3>1, <3>2
  <2>2. Clears(a) /\ ~shared => Clears(a)'
    BY <1>8, ClearsStep
  <2>3. CASE a = "tasklet"
    BY <2>1, <2>2, <2>3 DEF EntriesInv, Agrees, LoopInv, LifeInv, Serving
  <2>4. CASE a = "rmmod"
    BY <2>1, <2>2, <2>4 DEF EntriesInv, LoopInv, Serving
  <2> QED
    BY <2>3, <2>4 DEF Remover
<1> HIDE DEF Same, Kept
<1> QED
  BY <1>1, <1>2, <1>3, <1>4, <1>5, <1>6, <1>7, <1>8 DEF Next, Unload

-----------------------------------------------------------------------------
(* The samples.  Between two runs of the tasklet every file shows the last *)
(* one; during a run those it has made show the one it is making.          *)
LEMMA ArcStep ==
  ASSUME TypeInv, ListInv, LifeInv, LoopInv, EntriesInv, ArcInv, [Next]_vars
  PROVE  ArcInv'
<1> USE ReadersAssumption
<1> DEFINE Same == /\ UNCHANGED <<tk, entries, doomed, arc, __count, cursor>>
                   /\ (shared => shared') /\ (refired => refired')
<1>0. Same => ArcInv'
  BY DEF ArcInv, Shows
<1>1. ASSUME \/ ProcFork \/ (\E p \in Proc : ProcExit(p) \/ ProcReap(p)) \/ TimerFire \/ Callback
             \/ (\E r \in Readers : Open(r) \/ SeqStart(r) \/ Show(r) \/ Close(r)) \/ UNCHANGED vars
             \/ Unload
      PROVE  Same
  <2>0. ASSUME TimerFire PROVE UNCHANGED <<tk, entries, doomed, arc, __count, cursor, shared>>
                               /\ (refired => refired')
    BY <2>0 DEF TimerFire, data, tkVars, loopVars
  <2>1. CASE \/ ProcFork \/ (\E p \in Proc : ProcExit(p) \/ ProcReap(p)) \/ Callback
             \/ UNCHANGED vars \/ Unload
    BY <2>1 DEF ProcFork, ProcExit, ProcReap, Callback, CallbackSchedule, CallbackRearm,
                Unload, KillClaim, KillDone, DeleteTimer, RemoveDir, data, tkVars, loopVars, modVars,
                vars
  <2>2. ASSUME NEW r \in Readers, Open(r) \/ SeqStart(r) \/ Show(r) \/ Close(r) PROVE Same
    <3>1. shared => SharedBy(r)
      BY DEF SharedBy
    <3>2. shared' \in {shared, SharedBy(r)}
      BY <2>2 DEF Open, SeqStart, Show, BarLoad, FirstBar, SecondBar, BarStore, ShowHead, ShowBody,
                  Close
    <3>3. UNCHANGED <<tk, entries, doomed, arc, __count, cursor, refired>>
      BY <2>2 DEF Open, SeqStart, Show, BarLoad, FirstBar, SecondBar, BarStore, ShowHead, ShowBody,
                  Close, data, tkVars, loopVars, modVars
    <3> QED
      BY <3>1, <3>2, <3>3
  <2> QED
    BY <1>1, <2>0, <2>1, <2>2
<1>2. ASSUME ModuleExit PROVE ArcInv'
  <2>1. UNCHANGED <<tk, entries, doomed, arc, __count, cursor, shared>> /\ ~refired
    BY <1>2 DEF ModuleExit, LifeInv, data, tkVars, loopVars
  <2> QED
    BY <2>1 DEF ArcInv, Shows
<1>3. ASSUME ModuleInit PROVE ArcInv'
  <2>1. tk' = "idle" /\ entries' = {} /\ doomed'["rmmod"] = None
    BY <1>3 DEF ModuleInit, Loaded, LoopInv, Remover, tkVars, loopVars
  <2> QED
    BY <2>1 DEF ArcInv
<1>4. ASSUME NEW a \in Remover, Loop(a) PROVE ArcInv'
  <2>0. shared => SharedBy(a)
    BY DEF SharedBy
  <2>1. UNCHANGED <<tk, arc, __count, cursor, refired>>
    BY <1>4 DEF Loop, LoopBegin, LoopPrint, LoopUnlink, LoopRundown, LoopLoad, LoopStore, data,
                tkVars, modVars
  <2>2. shared' \in {shared, SharedBy(a)}
    BY <1>4 DEF Loop, LoopBegin, LoopPrint, LoopUnlink, LoopRundown, LoopLoad, LoopStore
  <2>3. entries' \subseteq entries
    BY <1>4 DEF Loop, LoopBegin, LoopPrint, LoopUnlink, LoopRundown, LoopLoad, LoopStore, data
  <2>4. doomed'["rmmod"] \in {None, doomed["rmmod"]} \cup entries
    BY <1>4 DEF Loop, LoopBegin, LoopPrint, LoopUnlink, LoopRundown, LoopLoad, LoopStore, TypeInv,
                LoopTypes, Remover
  <2> QED
    BY <2>0, <2>1, <2>2, <2>3, <2>4 DEF ArcInv, Shows
<1>5. ASSUME Tasklet PROVE ArcInv'
  <2>1. UNCHANGED <<module, refired, shared, doomed>>
    BY <1>5 DEF Tasklet, TaskletStart, TaskletReset, Visit, CreateEntry, AddResident, FillHead,
                FillBody, FillHalf, TaskletEnd, modVars, loopVars
  <2>2. ~refired => module \in Serving /\ doomed["rmmod"] = None
    BY <1>5 DEF Tasklet, TaskletStart, TaskletReset, Visit, CreateEntry, AddResident, FillHead,
                FillBody, FillHalf, TaskletEnd, LifeInv, LoopInv, TypeInv, LifeTypes, Serving, Remover
  <2> SUFFICES ASSUME ~shared, ~refired PROVE ArcInv'
    BY <2>1 DEF ArcInv
  <2>3. Agrees
    BY <2>2 DEF EntriesInv
  <2>4. CASE TaskletStart
    BY <2>4 DEF TaskletStart, ArcInv
  <2>5. CASE TaskletReset
    <3>1. entries' = {} /\ tk' = "walk"
      BY <2>3, <2>5 DEF TaskletReset, Agrees, Clears, ToUnlink
    <3> QED
      BY <3>1 DEF ArcInv
  <2>6. CASE Visit
    BY <2>6 DEF Visit, ArcInv, Shows
  <2>7. CASE CreateEntry
    <3>1. /\ UNCHANGED <<arc, __count, cursor>> /\ tk = "create" /\ tk' = "reside"
          /\ entries' = entries \cup {cursor}
      BY <2>3, <2>7 DEF CreateEntry, Agrees
    <3> QED
      BY <3>1 DEF ArcInv, Shows
  <2>8. CASE AddResident
    BY <2>8 DEF AddResident, ArcInv, Shows
  <2>9. CASE FillHead \/ FillBody
    <3>1. PICK h \in Half, next \in {"body", "walk"} :
            FillHalf(h, next) /\ (h = "head" <=> next = "body")
      BY <2>9 DEF FillHead, FillBody, Half
    <3>2. UNCHANGED <<entries, __count, cursor>> /\ tk = h /\ cursor \in Proc
      BY <3>1 DEF FillHalf, ListInv, Half
    <3>3. CASE tk' = "oops"
      BY <3>1, <3>3 DEF FillHalf, ArcInv
    <3>4. CASE tk' = next
      <4>1. arc' = [arc EXCEPT ![cursor][h] = __count + 1] /\ tk' = next
        BY <3>1, <3>4 DEF FillHalf
      <4>2. \A p \in Proc \ {cursor} : arc'[p] = arc[p]
        BY <4>1 DEF TypeInv, DataTypes
      <4>3. arc'[cursor][h] = __count + 1 /\ \A g \in Half \ {h} : arc'[cursor][g] = arc[cursor][g]
        BY <3>2, <4>1 DEF TypeInv, DataTypes
      <4>4. entries \subseteq Proc
        BY DEF TypeInv, DataTypes
      <4>5. \A p \in entries \ {cursor} : Shows(p, __count + 1)'
        BY <3>2, <4>2, <4>4 DEF ArcInv, Shows, Half
      <4>6. CASE h = "head"
        BY <3>1, <3>2, <4>1, <4>3, <4>5, <4>6 DEF ArcInv
      <4>7. CASE h = "body"
        <5>1. Shows(cursor, __count + 1)'
          BY <3>2, <4>3, <4>7 DEF ArcInv, Shows, Half
        <5> QED
          BY <3>1, <3>2, <4>1, <4>5, <4>7, <5>1 DEF ArcInv
      <4> QED
        BY <4>6, <4>7 DEF Half
    <3>5. tk' \in {next, "oops"}
      BY <3>1 DEF FillHalf
    <3> QED
      BY <3>3, <3>4, <3>5
  <2>10. CASE TaskletEnd
    BY <2>1, <2>2, <2>10 DEF TaskletEnd, ArcInv, Shows
  <2> QED
    BY <1>5, <2>4, <2>5, <2>6, <2>7, <2>8, <2>9, <2>10 DEF Tasklet
<1> HIDE DEF Same
<1> QED
  BY <1>0, <1>1, <1>2, <1>3, <1>4, <1>5 DEF Next

-----------------------------------------------------------------------------
(* The pages. *)
LEMMA PageStep ==
  ASSUME TypeInv, LifeInv, LoopInv, FileInv, ArcInv, PageInv, [Next]_vars
  PROVE  PageInv'
<1> USE ReadersAssumption
<1> DEFINE Same == /\ UNCHANGED <<rd, pos, page, pages, quiet>>
                   /\ (shared => shared') /\ (refired => refired')
                   /\ tk = "idle" => tk' = "idle" /\ __count' = __count
<1>0. Same => PageInv'
  BY DEF PageInv
<1>1. ASSUME \/ ProcFork \/ (\E p \in Proc : ProcExit(p) \/ ProcReap(p)) \/ TimerFire \/ Callback
             \/ UNCHANGED vars \/ Unload
      PROVE  Same
  <2>1. UNCHANGED <<rd, pos, page, pages, quiet, shared, tk, __count>>
    BY <1>1 DEF ProcFork, ProcExit, ProcReap, TimerFire, Callback, CallbackSchedule, CallbackRearm,
                Unload, KillClaim, KillDone, DeleteTimer, RemoveDir, data, tkVars, rdVars, vars
  <2>2. refired => refired'
    BY <1>1 DEF ProcFork, ProcExit, ProcReap, TimerFire, Callback, CallbackSchedule, CallbackRearm,
                Unload, KillClaim, KillDone, DeleteTimer, RemoveDir, modVars, vars
  <2> QED
    BY <2>1, <2>2
<1>7. ASSUME \/ TaskletReset \/ Visit \/ CreateEntry \/ AddResident
             \/ FillHead \/ FillBody \/ TaskletEnd
      PROVE  Same
  BY <1>7 DEF TaskletReset, Visit, CreateEntry, AddResident, FillHead, FillBody, FillHalf, TaskletEnd,
              Half, rdVars, modVars
<1>2. ASSUME ModuleExit PROVE PageInv'
  <2>1. UNCHANGED <<rd, pos, page, pages, quiet, shared, tk, __count>> /\ ~refired
    BY <1>2 DEF ModuleExit, LifeInv, data, tkVars, rdVars
  <2> QED
    BY <2>1 DEF PageInv
<1>3. ASSUME ModuleInit PROVE PageInv'
  <2>1. UNCHANGED <<rd, pos, page, pages, quiet, tk>> /\ \A r \in Readers : rd[r] = "closed"
    BY <1>3 DEF ModuleInit, tkVars, rdVars
  <2> QED
    BY <2>1 DEF PageInv
<1>4. ASSUME TaskletStart PROVE PageInv'
  BY <1>4 DEF TaskletStart, PageInv
<1>5. ASSUME NEW a \in Remover, Loop(a) PROVE PageInv'
  <2>0. shared => SharedBy(a)
    BY DEF SharedBy
  <2>1. UNCHANGED <<tk, __count, refired>>
    BY <1>5 DEF Loop, LoopBegin, LoopPrint, LoopUnlink, LoopRundown, LoopLoad, LoopStore, data,
                tkVars, modVars
  <2>2. shared' \in {shared, SharedBy(a)}
    BY <1>5 DEF Loop, LoopBegin, LoopPrint, LoopUnlink, LoopRundown, LoopLoad, LoopStore
  <2>3. CASE UNCHANGED rdVars
    BY <1>0, <2>0, <2>1, <2>2, <2>3 DEF rdVars
  <2>4. CASE LoopRundown(a)
    <3>1. \A r \in Readers :
            \/ rd'[r] = rd[r] /\ pos'[r] = pos[r] /\ page'[r] = page[r] /\ pages'[r] = pages[r]
               /\ quiet'[r] = quiet[r]
            \/ rd'[r] = "closed" /\ pos'[r] = 0 /\ pages'[r] = 0 /\ quiet'[r] = FALSE
      BY <2>4 DEF LoopRundown
    <3> QED
      BY <2>0, <2>1, <2>2, <3>1 DEF PageInv
  <2> QED
    BY <1>5, <2>3, <2>4 DEF Loop, LoopBegin, LoopPrint, LoopUnlink, LoopLoad, LoopStore
<1>6. ASSUME NEW r \in Readers, Open(r) \/ SeqStart(r) \/ Show(r) \/ Close(r) PROVE PageInv'
  <2> DEFINE Fine(s) == /\ pages[s] = pos[s]
                        /\ rd[s] # "open" => pos[s] = 0
                        /\ quiet[s] => tk = "idle"
                        /\ quiet[s] /\ ~shared /\ ~refired =>
                             /\ rd[s] \in {"bar2", "store2", "body"} => page[s]["head"] = __count
                             /\ rd[s] = "open" /\ pos[s] = 1 => \A h \in Half : page[s][h] = __count
  <2>0. shared => SharedBy(r)
    BY DEF SharedBy
  <2>1. shared' \in {shared, SharedBy(r)} /\ UNCHANGED <<tk, __count, refired>>
    BY <1>6 DEF Open, SeqStart, Show, BarLoad, FirstBar, SecondBar, BarStore, ShowHead, ShowBody,
                Close, data, tkVars, modVars
  <2>2. ASSUME NEW s \in Readers \ {r}
        PROVE  /\ rd'[s] = rd[s] /\ pos'[s] = pos[s] /\ page'[s] = page[s] /\ pages'[s] = pages[s]
               /\ quiet'[s] = quiet[s]
    BY <1>6 DEF Open, SeqStart, Show, BarLoad, FirstBar, SecondBar, BarStore, ShowHead, ShowBody,
                Close, TypeInv, ReaderTypes
  <2>3. ASSUME NEW s \in Readers \ {r} PROVE Fine(s)'
    BY <2>0, <2>1, <2>2 DEF PageInv
  <2>4. ASSUME quiet[r], ~shared, ~refired, rd[r] # "closed" PROVE Shows(file[r], __count)
    <3>1. tk = "idle" /\ doomed["tasklet"] = None
      BY <2>4 DEF PageInv, LoopInv, Remover
    <3>2. file[r] # None /\ (file[r] \in entries \/ \E a \in Remover : file[r] = doomed[a])
      BY <2>4 DEF FileInv, Proc, None
    <3>3. file[r] \in entries \/ file[r] = doomed["rmmod"]
      BY <3>1, <3>2 DEF Remover
    <3> QED
      BY <2>4, <3>1, <3>2, <3>3 DEF ArcInv, Shows
  <2>5. ASSUME Open(r) PROVE Fine(r)'
    BY <2>1, <2>5 DEF Open, PageInv, TypeInv, ReaderTypes
  <2>6. ASSUME SeqStart(r) PROVE Fine(r)'
    <3>1. CASE pos[r] = 0
      BY <2>1, <2>6, <3>1 DEF SeqStart, PageInv, TypeInv, ReaderTypes
    <3>2. CASE pos[r] # 0
      BY <2>6, <3>2 DEF SeqStart, TypeInv, ReaderTypes
    <3> QED
      BY <3>1, <3>2
  <2>7. ASSUME BarLoad(r) \/ FirstBar(r) \/ SecondBar(r) PROVE Fine(r)'
    <3>1. /\ UNCHANGED <<pos, page, pages, quiet>> /\ rd[r] # "open" /\ rd'[r] # "open"
          /\ rd'[r] \in {"bar2", "store2", "body"} => rd[r] \in {"bar2", "store2", "body"}
      BY <2>7 DEF BarLoad, FirstBar, SecondBar, BarStore, TypeInv, ReaderTypes
    <3> QED
      BY <2>0, <2>1, <3>1 DEF PageInv
  <2>8. ASSUME ShowHead(r) PROVE Fine(r)'
    <3>1. /\ UNCHANGED <<pos, pages, quiet>> /\ rd[r] = "head" /\ rd'[r] = "bar2"
          /\ page'[r]["head"] = arc[file[r]]["head"]
      BY <2>8 DEF ShowHead, TypeInv, ReaderTypes, Half
    <3> QED
      BY <2>0, <2>1, <2>4, <3>1 DEF PageInv, Shows, Half
  <2>9. ASSUME ShowBody(r) PROVE Fine(r)'
    <3>1. /\ UNCHANGED <<quiet, shared>> /\ rd[r] = "body" /\ rd'[r] = "open"
          /\ pos'[r] = pos[r] + 1 /\ pages'[r] = pages[r] + 1
          /\ page'[r]["body"] = arc[file[r]]["body"] /\ page'[r]["head"] = page[r]["head"]
      BY <2>9 DEF ShowBody, NextPos, TypeInv, ReaderTypes, Half
    <3> QED
      BY <2>1, <2>4, <3>1 DEF PageInv, Shows, Half
  <2>10. ASSUME Close(r) PROVE Fine(r)'
    BY <2>10 DEF Close, TypeInv, ReaderTypes
  <2>11. Fine(r)'
    BY <1>6, <2>5, <2>6, <2>7, <2>8, <2>9, <2>10 DEF Show
  <2> QED
    BY <2>3, <2>11 DEF PageInv
<1> HIDE DEF Same
<1> QED
  BY <1>0, <1>1, <1>2, <1>3, <1>4, <1>5, <1>6, <1>7 DEF Next, Tasklet

-----------------------------------------------------------------------------
(* The inductive invariant. *)
THEOREM ArchiveHolds == Spec => []ArchiveInv
<1>1. ArchiveInv /\ [Next]_vars => ArchiveInv'
  BY TypeStep, ListStep, LifeStep, LoopStep, FileStep, EntriesStep, ArcStep, PageStep DEF ArchiveInv
<1> QED
  BY <1>1, InitArchive, PTL DEF Spec

(* Every variable keeps its type; cur_reside_idx stays within cur_reside.  *)
THEOREM ArchiveTypes == Spec => []TypeOK
<1>1. ArchiveInv => TypeOK
  BY DEF ArchiveInv, TypeInv, ProcTypes, DataTypes, LifeTypes, LoopTypes, ReaderTypes, TypeOK
<1> QED
  BY <1>1, ArchiveHolds, PTL

(* Between two runs of the tasklet the files of /proc/hw2 are those of     *)
(* cur_reside, unless a reader or another loop stored in i meanwhile.      *)
THEOREM EntriesStayResidents == Spec => []EntriesAreResidents
<1>1. ArchiveInv => EntriesAreResidents
  BY DEF ArchiveInv, EntriesInv, Agrees, EntriesAreResidents, Serving
<1> QED
  BY <1>1, ArchiveHolds, PTL

(* A reader gets one page and then the end of the file, and a page printed *)
(* while no tasklet ran shows the last sample (hello_seq_show, arc).       *)
THEOREM QuietPageHolds == Spec => []QuietPageIsLastSample
<1>1. ArchiveInv => QuietPageIsLastSample
  BY DEF ArchiveInv, PageInv, QuietPageIsLastSample
<1> QED
  BY <1>1, ArchiveHolds, PTL

(* rmmod leaves no timer, tasklet, file or reader, unless the timer fires  *)
(* once tasklet_kill has begun or i is shared during a removal loop.       *)
THEOREM UnloadStaysClean == Spec => []UnloadIsClean
<1>1. ASSUME ArchiveInv PROVE UnloadIsClean
  <2> USE <1>1 DEF ArchiveInv
  <2> SUFFICES ASSUME module = "absent", ~refired
               PROVE  /\ ~armed /\ cb = "idle" /\ ~queued /\ tk = "idle"
                      /\ ~shared => entries = {} /\ \A r \in Readers : rd[r] = "closed"
    BY DEF UnloadIsClean
  <2>1. ~armed /\ cb = "idle" /\ ~queued /\ tk = "idle"
    BY DEF LifeInv
  <2>2. ASSUME ~shared PROVE entries = {} /\ \A r \in Readers : rd[r] = "closed"
    <3>1. entries = {}
      BY <2>2 DEF EntriesInv
    <3>2. \A a \in Remover : doomed[a] = None
      BY <2>1 DEF LoopInv, Remover
    <3>3. None \notin Proc
      BY DEF None, Proc
    <3> QED
      BY <3>1, <3>2, <3>3 DEF FileInv
  <2> QED
    BY <2>1, <2>2
<1> QED
  BY <1>1, ArchiveHolds, PTL
=============================================================================
