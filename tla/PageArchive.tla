---------------------------- MODULE PageArchive ----------------------------
(***************************************************************************)
(* The module of assignment 2 by 2019147604 (hw2.c).                       *)
(*                                                                         *)
(* A timer schedules a tasklet every `period' seconds.  The tasklet first  *)
(* removes the files /proc/hw2/<pid> of its previous run, then makes one   *)
(* for every user process and fills arc[pid], which the file prints.       *)
(* Three loops count with the one global `i': the removal of the tasklet,  *)
(* the removal of hello_exit and printf_bar.  They run on different CPUs,  *)
(* or the tasklet interrupts a reader on its own CPU.                      *)
(*                                                                         *)
(* i++ is a load and a store, and the loops test and use what they store.  *)
(* A record of arc has two halves, `head' (315-317) and `body'; the value  *)
(* of a half is the number of the tasklet run that wrote it.               *)
(***************************************************************************)
EXTENDS Naturals

CONSTANTS Procs,       \* user processes are 1 .. Procs, in list order
          Readers,     \* tasks that read the files
          MAX_RESIDE,  \* 1000 in the code
          BarLen,      \* 80 in the code
          MaxRuns      \* bound on the firings of the timer

Proc == 1 .. Procs
Remover == {"tasklet", "rmmod"}   \* the two that run the removal loop
Half == {"head", "body"}
None == 0

ASSUME ProcsAssumption == Procs \in Nat
ASSUME ReadersAssumption == Readers \cap Remover = {}   \* names of different tasks
ASSUME ResideAssumption == MAX_RESIDE \in Nat \ {0} /\ Procs <= MAX_RESIDE
ASSUME BoundsAssumption == BarLen \in Nat \ {0} /\ MaxRuns \in Nat

VARIABLES
  \* processes
  born,     \* forked so far: 1 .. born
  alive,    \* have an mm
  zombie,   \* have exited and are still on the list
  \* the module's globals
  i, buf, cur_reside_idx, cur_reside, arc, __count,
  entries,  \* the files in /proc/hw2
  \* my_timer and my_tasklet
  armed, cb, sched, queued,
  tk,       \* where the tasklet is; "oops" after it used a NULL task->mm
  cursor,   \* process of for_each_process
  over,     \* the reader it interrupted, or None
  \* the removal loops
  lp,       \* lp[a]: where a's loop is, "out" if nowhere
  reg,      \* reg[a]: a's copy of i; also reg[r] for a reader in printf_bar
  doomed,   \* doomed[a]: the file a has unlinked and waits for
  \* readers
  rd,       \* rd[r]: where r is
  file,     \* the file r has open
  pos,      \* m->index
  page,     \* what hello_seq_show has printed
  pages,    \* history: pages r has read since the last end of file
  quiet,    \* history: no tasklet ran since hello_seq_show began
  \* rmmod
  module,
  refired,  \* history: timer_callback ran after tasklet_kill had begun
  shared    \* history: someone else wrote i during a removal loop

procVars == <<born, alive, zombie>>
timerVars == <<armed, cb>>
tkVars == <<sched, queued, tk, cursor, over>>
loopVars == <<lp, reg, doomed>>
data == <<buf, cur_reside_idx, cur_reside, arc, __count, entries>>
rdVars == <<rd, file, pos, page, pages, quiet>>
modVars == <<module, refired>>
vars == <<procVars, i, data, timerVars, tkVars, loopVars, rdVars, modVars, shared>>

Blank == [h \in Half |-> 0]

\* The module's static data when it is loaded.
Loaded ==
  /\ i' = 0 /\ buf' = None /\ cur_reside_idx' = 0 /\ __count' = 0
  /\ cur_reside' = [k \in 0 .. MAX_RESIDE - 1 |-> None]
  /\ arc' = [p \in Proc |-> Blank]
  /\ shared' = FALSE /\ refired' = FALSE

Init ==
  /\ born \in 0 .. Procs
  /\ alive = 1 .. born /\ zombie = {}
  /\ i = 0 /\ buf = None /\ cur_reside_idx = 0 /\ __count = 0
  /\ cur_reside = [k \in 0 .. MAX_RESIDE - 1 |-> None]
  /\ arc = [p \in Proc |-> Blank]
  /\ entries = {}
  /\ armed = FALSE /\ cb = "idle" /\ sched = FALSE /\ queued = FALSE
  /\ tk = "idle" /\ cursor = None /\ over = {}
  /\ lp = [a \in Remover |-> "out"]
  /\ reg = [a \in Remover \cup Readers |-> 0]
  /\ doomed = [a \in Remover |-> None]
  /\ rd = [r \in Readers |-> "closed"]
  /\ file = [r \in Readers |-> None]
  /\ pos = [r \in Readers |-> 0]
  /\ page = [r \in Readers |-> Blank]
  /\ pages = [r \in Readers |-> 0]
  /\ quiet = [r \in Readers |-> FALSE]
  /\ module = "absent"
  /\ refired = FALSE /\ shared = FALSE

Present == module # "absent"

-----------------------------------------------------------------------------
(* Processes *)

ProcFork ==
  /\ born < Procs
  /\ born' = born + 1
  /\ alive' = alive \cup {born + 1}
  /\ UNCHANGED <<zombie, i, data, timerVars, tkVars, loopVars, rdVars, modVars, shared>>

ProcExit(p) ==
  /\ p \in alive
  /\ alive' = alive \ {p} /\ zombie' = zombie \cup {p}
  /\ UNCHANGED <<born, i, data, timerVars, tkVars, loopVars, rdVars, modVars, shared>>

ProcReap(p) ==
  /\ p \in zombie
  /\ zombie' = zombie \ {p}
  /\ UNCHANGED <<born, alive, i, data, timerVars, tkVars, loopVars, rdVars, modVars, shared>>

-----------------------------------------------------------------------------
(* The timer *)

TimerFire ==
  /\ Present /\ armed /\ cb = "idle" /\ __count < MaxRuns
  /\ armed' = FALSE
  /\ cb' = "schedule"
  /\ refired' = (refired \/ module # "loaded")
  /\ UNCHANGED <<procVars, i, data, tkVars, loopVars, rdVars, module, shared>>

CallbackSchedule ==
  /\ Present /\ cb = "schedule"
  /\ sched' = TRUE
  /\ queued' = (queued \/ ~sched)
  /\ cb' = "rearm"
  /\ UNCHANGED <<procVars, i, data, armed, tk, cursor, over, loopVars, rdVars, modVars, shared>>

CallbackRearm ==
  /\ Present /\ cb = "rearm"
  /\ armed' = TRUE
  /\ cb' = "idle"
  /\ UNCHANGED <<procVars, i, data, tkVars, loopVars, rdVars, modVars, shared>>

-----------------------------------------------------------------------------
(* The removal loop, of my_tasklet_function and of hello_exit               *)

Removing(a) == lp[a] \in {"begin", "print", "unlink", "rundown", "load", "store"}
SharedBy(a) == shared \/ \E b \in Remover \ {a} : Removing(b)

(* Faulty: the first entry is skipped.                                     *)
LoopBeginLate(a) ==
  /\ lp[a] = "begin"
  /\ i' = 1 /\ reg' = [reg EXCEPT ![a] = 1]
  /\ lp' = [lp EXCEPT ![a] = IF 1 < cur_reside_idx THEN "print" ELSE "done"]
  /\ shared' = SharedBy(a)
  /\ UNCHANGED <<procVars, data, timerVars, tkVars, doomed, rdVars, modVars>>

LoopBegin(a) ==
  /\ lp[a] = "begin"
  /\ i' = 0 /\ reg' = [reg EXCEPT ![a] = 0]
  /\ lp' = [lp EXCEPT ![a] = IF 0 < cur_reside_idx THEN "print" ELSE "done"]
  /\ shared' = SharedBy(a)
  /\ UNCHANGED <<procVars, data, timerVars, tkVars, doomed, rdVars, modVars>>

LoopPrint(a) ==
  /\ lp[a] = "print"
  /\ buf' = cur_reside[reg[a]]
  /\ lp' = [lp EXCEPT ![a] = "unlink"]
  /\ UNCHANGED <<procVars, i, cur_reside_idx, cur_reside, arc, __count, entries,
                 timerVars, tkVars, reg, doomed, rdVars, modVars, shared>>

\* remove_proc_entry: a warning if the file is not there ...
LoopUnlink(a) ==
  /\ lp[a] = "unlink"
  /\ IF buf \in entries
       THEN /\ entries' = entries \ {buf}
            /\ doomed' = [doomed EXCEPT ![a] = buf]
            /\ lp' = [lp EXCEPT ![a] = "rundown"]
       ELSE /\ lp' = [lp EXCEPT ![a] = "load"]
            /\ UNCHANGED <<entries, doomed>>
  /\ UNCHANGED <<procVars, i, buf, cur_reside_idx, cur_reside, arc, __count,
                 timerVars, tkVars, reg, rdVars, modVars, shared>>

InRead(r) == rd[r] \notin {"closed", "open"}

\* ... else wait for the readers inside it and release its open files.
LoopRundown(a) ==
  /\ lp[a] = "rundown"
  /\ \A r \in Readers : file[r] = doomed[a] => ~InRead(r)
  /\ rd' = [r \in Readers |-> IF file[r] = doomed[a] THEN "closed" ELSE rd[r]]
  /\ file' = [r \in Readers |-> IF file[r] = doomed[a] THEN None ELSE file[r]]
  /\ pos' = [r \in Readers |-> IF file[r] = doomed[a] THEN 0 ELSE pos[r]]
  /\ page' = [r \in Readers |-> IF file[r] = doomed[a] THEN Blank ELSE page[r]]
  /\ pages' = [r \in Readers |-> IF file[r] = doomed[a] THEN 0 ELSE pages[r]]
  /\ quiet' = [r \in Readers |-> IF file[r] = doomed[a] THEN FALSE ELSE quiet[r]]
  /\ doomed' = [doomed EXCEPT ![a] = None]
  /\ lp' = [lp EXCEPT ![a] = "load"]
  /\ UNCHANGED <<procVars, i, data, timerVars, tkVars, reg, modVars, shared>>

(* Faulty: the loop does not advance.                                      *)
LoopLoadSame(a) ==
  /\ lp[a] = "load"
  /\ reg' = [reg EXCEPT ![a] = i]
  /\ lp' = [lp EXCEPT ![a] = "store"]
  /\ UNCHANGED <<procVars, i, data, timerVars, tkVars, doomed, rdVars, modVars, shared>>

LoopLoad(a) ==
  /\ lp[a] = "load"
  /\ reg' = [reg EXCEPT ![a] = i + 1]
  /\ lp' = [lp EXCEPT ![a] = "store"]
  /\ UNCHANGED <<procVars, i, data, timerVars, tkVars, doomed, rdVars, modVars, shared>>

LoopStore(a) ==
  /\ lp[a] = "store"
  /\ i' = reg[a]
  /\ IF reg[a] < cur_reside_idx
       THEN lp' = [lp EXCEPT ![a] = "print"] /\ UNCHANGED reg
       ELSE lp' = [lp EXCEPT ![a] = "done"] /\ reg' = [reg EXCEPT ![a] = 0]
  /\ shared' = SharedBy(a)
  /\ UNCHANGED <<procVars, data, timerVars, tkVars, doomed, rdVars, modVars>>

Loop(a) ==
  LoopBegin(a) \/ LoopPrint(a) \/ LoopUnlink(a) \/ LoopRundown(a) \/ LoopLoad(a) \/ LoopStore(a)

-----------------------------------------------------------------------------
(* my_tasklet_function *)

\* The tasklet runs on a CPU of its own or interrupts a reader.
TaskletStart ==
  /\ Present /\ queued /\ tk = "idle"
  /\ queued' = FALSE /\ sched' = FALSE
  /\ tk' = "remove"
  /\ lp' = [lp EXCEPT !["tasklet"] = "begin"]
  /\ over' \in {{}} \cup {{r} : r \in Readers}
  /\ quiet' = [r \in Readers |-> FALSE]
  /\ UNCHANGED <<procVars, i, data, timerVars, cursor, reg, doomed,
                 rd, file, pos, page, pages, modVars, shared>>

ResetIndex(idx) == 0

TaskletReset ==
  /\ tk = "remove" /\ lp["tasklet"] = "done"
  /\ lp' = [lp EXCEPT !["tasklet"] = "out"]
  /\ cur_reside_idx' = ResetIndex(cur_reside_idx)
  /\ tk' = "walk"
  /\ UNCHANGED <<procVars, i, buf, cur_reside, arc, __count, entries, timerVars, sched, queued,
                 cursor, over, reg, doomed, rdVars, modVars, shared>>

Listed == alive \cup zombie

\* The next of for_each_process that is not PF_KTHREAD, and its name.
Visit ==
  /\ tk = "walk"
  /\ \E p \in Listed :
       /\ p > cursor /\ \A q \in Listed : q <= cursor \/ p <= q
       /\ cursor' = p /\ buf' = p
  /\ tk' = "create"
  /\ UNCHANGED <<procVars, i, cur_reside_idx, cur_reside, arc, __count, entries, timerVars,
                 sched, queued, over, loopVars, rdVars, modVars, shared>>

\* proc_create: a warning and nothing else if the file is there.
CreateEntry ==
  /\ tk = "create"
  /\ entries' = entries \cup {buf}
  /\ tk' = "reside"
  /\ UNCHANGED <<procVars, i, buf, cur_reside_idx, cur_reside, arc, __count, timerVars,
                 sched, queued, cursor, over, loopVars, rdVars, modVars, shared>>

AddResident ==
  /\ tk = "reside"
  /\ cur_reside' = [cur_reside EXCEPT ![cur_reside_idx] = cursor]
  /\ cur_reside_idx' = cur_reside_idx + 1
  /\ tk' = "head"
  /\ UNCHANGED <<procVars, i, buf, arc, __count, entries, timerVars,
                 sched, queued, cursor, over, loopVars, rdVars, modVars, shared>>

(* A half of arc[pid].  task->mm is used without a check, and the search   *)
(* for the VMA of the stack, in the second half, without a look at the end *)
(* of the list: a process that has exited, or that has no such VMA, stops  *)
(* the machine in the middle of the half.                                  *)
FillHalf(h, next) ==
  /\ tk = h
  /\ arc' = [arc EXCEPT ![cursor][h] = __count + 1]
  /\ \/ cursor \in alive /\ tk' = next
     \/ (cursor \notin alive \/ h = "body") /\ tk' = "oops"
  /\ UNCHANGED <<procVars, i, buf, cur_reside_idx, cur_reside, __count, entries, timerVars,
                 sched, queued, cursor, over, loopVars, rdVars, modVars, shared>>

FillHead == FillHalf("head", "body")
FillBody == FillHalf("body", "walk")

(* Faulty: __count stays.                                                  *)
TaskletEndUncounted ==
  /\ tk = "walk" /\ \A q \in Listed : q <= cursor
  /\ tk' = "idle" /\ cursor' = None /\ over' = {}
  /\ UNCHANGED <<procVars, i, data, timerVars, sched, queued, loopVars, rdVars, modVars, shared>>

TaskletEnd ==
  /\ tk = "walk" /\ \A q \in Listed : q <= cursor
  /\ __count' = __count + 1
  /\ tk' = "idle" /\ cursor' = None /\ over' = {}
  /\ UNCHANGED <<procVars, i, buf, cur_reside_idx, cur_reside, arc, entries, timerVars,
                 sched, queued, loopVars, rdVars, modVars, shared>>

Tasklet ==
  \/ TaskletStart \/ TaskletReset \/ Visit \/ CreateEntry
  \/ AddResident \/ FillHead \/ FillBody \/ TaskletEnd

-----------------------------------------------------------------------------
(* Readers.  An interrupted one waits for the tasklet.  Of the nine bars of  *)
(* a page two are kept, one before each half of the record; a page fits in   *)
(* seq_file's buffer, so hello_seq_show runs once.                           *)

Open(r) ==
  /\ rd[r] = "closed" /\ Present
  /\ \E p \in entries : file' = [file EXCEPT ![r] = p]
  /\ rd' = [rd EXCEPT ![r] = "open"]
  /\ UNCHANGED <<procVars, i, data, timerVars, tkVars, loopVars, pos, page, pages, quiet,
                 modVars, shared>>

(* read(): hello_seq_start begins a sequence at *pos = 0, else ends it.    *)
SeqStart(r) ==
  /\ rd[r] = "open" /\ r \notin over /\ file[r] \notin {doomed[a] : a \in Remover}
  /\ IF pos[r] = 0
       THEN /\ rd' = [rd EXCEPT ![r] = "bar1"]
            /\ i' = 0 /\ reg' = [reg EXCEPT ![r] = 0]
            /\ shared' = SharedBy(r)
            /\ quiet' = [quiet EXCEPT ![r] = (tk = "idle")]
            /\ page' = [page EXCEPT ![r] = Blank]
            /\ UNCHANGED <<pos, pages>>
       ELSE /\ pos' = [pos EXCEPT ![r] = 0]
            /\ pages' = [pages EXCEPT ![r] = 0]
            /\ page' = [page EXCEPT ![r] = Blank]
            /\ quiet' = [quiet EXCEPT ![r] = FALSE]
            /\ UNCHANGED <<rd, i, reg, shared>>
  /\ UNCHANGED <<procVars, data, timerVars, tkVars, lp, doomed, file, modVars>>


\* printf_bar: i++ is a load ...
BarLoad(r) ==
  /\ rd[r] \in {"bar1", "bar2"} /\ r \notin over
  /\ reg' = [reg EXCEPT ![r] = i + 1]
  /\ rd' = [rd EXCEPT ![r] = IF rd[r] = "bar1" THEN "store1" ELSE "store2"]
  /\ UNCHANGED <<procVars, i, data, timerVars, tkVars, lp, doomed, file, pos, page, pages, quiet,
                 modVars, shared>>

\* ... and a store; at 80 the half is printed and the next bar begins.
BarStore(r, store, again, half) ==
  /\ rd[r] = store /\ r \notin over
  /\ i' = reg[r]
  /\ reg' = [reg EXCEPT ![r] = 0]
  /\ rd' = [rd EXCEPT ![r] = IF reg[r] < BarLen THEN again ELSE half]
  /\ shared' = SharedBy(r)
  /\ UNCHANGED <<procVars, data, timerVars, tkVars, lp, doomed, file, pos, page, pages, quiet, modVars>>

FirstBar(r) == BarStore(r, "store1", "bar1", "head")
SecondBar(r) == BarStore(r, "store2", "bar2", "body")

ShowHead(r) ==
  /\ rd[r] = "head" /\ r \notin over
  /\ page' = [page EXCEPT ![r]["head"] = arc[file[r]]["head"]]
  /\ rd' = [rd EXCEPT ![r] = "bar2"]
  /\ i' = 0
  /\ shared' = SharedBy(r)
  /\ UNCHANGED <<procVars, data, timerVars, tkVars, loopVars, file, pos, pages, quiet, modVars>>

\* hello_seq_next
NextPos(x) == x + 1

ShowBody(r) ==
  /\ rd[r] = "body" /\ r \notin over
  /\ page' = [page EXCEPT ![r]["body"] = arc[file[r]]["body"]]
  /\ pos' = [pos EXCEPT ![r] = NextPos(pos[r])]
  /\ pages' = [pages EXCEPT ![r] = @ + 1]
  /\ rd' = [rd EXCEPT ![r] = "open"]
  /\ UNCHANGED <<procVars, i, data, timerVars, tkVars, loopVars, file, quiet, modVars, shared>>

Close(r) ==
  /\ rd[r] = "open" /\ r \notin over /\ file[r] \notin {doomed[a] : a \in Remover}
  /\ rd' = [rd EXCEPT ![r] = "closed"]
  /\ file' = [file EXCEPT ![r] = None]
  /\ pos' = [pos EXCEPT ![r] = 0]
  /\ page' = [page EXCEPT ![r] = Blank]
  /\ pages' = [pages EXCEPT ![r] = 0]
  /\ quiet' = [quiet EXCEPT ![r] = FALSE]
  /\ UNCHANGED <<procVars, i, data, timerVars, tkVars, loopVars, modVars, shared>>

Show(r) == BarLoad(r) \/ FirstBar(r) \/ SecondBar(r) \/ ShowHead(r) \/ ShowBody(r)

-----------------------------------------------------------------------------
(* insmod and rmmod *)

(* Nothing of an earlier load is left: a load after an unload that was not *)
(* clean (see UnloadIsClean) is not followed any further.                  *)
ModuleInit ==
  /\ module = "absent"
  /\ ~armed /\ cb = "idle" /\ ~sched /\ tk = "idle"
  /\ entries = {} /\ \A r \in Readers : rd[r] = "closed"
  /\ module' = "loaded"
  /\ armed' = TRUE
  /\ Loaded
  /\ UNCHANGED <<entries, procVars, cb, tkVars, loopVars, rdVars>>

ModuleExit ==
  /\ module = "loaded"
  /\ module' = "kill"
  /\ refired' = (cb # "idle")
  /\ UNCHANGED <<procVars, i, data, timerVars, tkVars, loopVars, rdVars, shared>>

\* tasklet_kill claims the SCHED bit once it is free ...
KillClaim ==
  /\ module = "kill" /\ ~sched
  /\ sched' = TRUE
  /\ module' = "killing"
  /\ UNCHANGED <<procVars, i, data, timerVars, queued, tk, cursor, over, loopVars, rdVars,
                 refired, shared>>

\* ... waits for a running tasklet and gives it back.
KillDone ==
  /\ module = "killing" /\ tk = "idle"
  /\ sched' = FALSE
  /\ module' = "delete"
  /\ UNCHANGED <<procVars, i, data, timerVars, queued, tk, cursor, over, loopVars, rdVars,
                 refired, shared>>

(* Faulty: the timer is forgotten.                                         *)
DeleteTimerNever ==
  /\ module = "delete"
  /\ module' = "remove"
  /\ lp' = [lp EXCEPT !["rmmod"] = "begin"]
  /\ UNCHANGED <<procVars, i, data, timerVars, tkVars, reg, doomed, rdVars, refired, shared>>

DeleteTimer ==
  /\ module = "delete"
  /\ armed' = FALSE
  /\ module' = "remove"
  /\ lp' = [lp EXCEPT !["rmmod"] = "begin"]
  /\ UNCHANGED <<procVars, i, data, cb, tkVars, reg, doomed, rdVars, refired, shared>>

\* The directory goes; the module is freed when no reader is inside.
RemoveDir ==
  /\ module = "remove" /\ lp["rmmod"] = "done"
  /\ lp' = [lp EXCEPT !["rmmod"] = "out"]
  /\ module' = "absent"
  /\ UNCHANGED <<procVars, i, data, timerVars, tkVars, reg, doomed, rdVars, refired, shared>>

-----------------------------------------------------------------------------
Callback == CallbackSchedule \/ CallbackRearm
Unload == KillClaim \/ KillDone \/ DeleteTimer \/ RemoveDir

Next ==
  \/ ProcFork \/ (\E p \in Proc : ProcExit(p) \/ ProcReap(p))
  \/ TimerFire \/ Callback \/ Tasklet \/ (\E a \in Remover : Loop(a))
  \/ (\E r \in Readers : Open(r) \/ SeqStart(r) \/ Show(r) \/ Close(r))
  \/ ModuleInit \/ ModuleExit \/ Unload

Spec == Init /\ [][Next]_vars

(* Callbacks, softirqs and tasks that are not interrupted run; a tasklet   *)
(* is retried, and so is tasklet_kill, until the bit is free.              *)
FairSpec ==
  /\ Spec
  /\ WF_vars(Callback) /\ SF_vars(Tasklet) /\ SF_vars(Unload)
  /\ \A a \in Remover : WF_vars(Loop(a))
  /\ \A r \in Readers : WF_vars(Show(r))
=============================================================================
