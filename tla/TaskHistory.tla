---------------------------- MODULE TaskHistory ----------------------------
(***************************************************************************)
(* The module of assignment 2 by 2017147581 (module/hw2.c).                *)
(*                                                                         *)
(* A timer fires every ten seconds and schedules a tasklet; the tasklet    *)
(* looks for the user process started last and copies what it knows of it  *)
(* into a ring of MAX_TASKS entries; /proc/hw2 prints the ring.  Timer,    *)
(* tasklet, readers and rmmod run on different CPUs and share no lock.     *)
(*                                                                         *)
(* A sample is the number of the tasklet run that took it; an entry has    *)
(* the two halves the code writes apart, `area' and `stack'.               *)
(***************************************************************************)
EXTENDS Naturals, Sequences

CONSTANTS Procs,      \* processes are 1 .. Procs, in the order of the list
          Start,      \* Start[p]: task->start_time
          MAX_TASKS,  \* 5 in the code
          FirstRoom,  \* entries that fit in seq_file's first buffer
          MaxSamples  \* bound on the runs of the tasklet

Proc == 1 .. Procs
Slot == 0 .. MAX_TASKS - 1
Half == {"area", "stack"}
None == 0   \* no process, no sample

ASSUME ProcsAssumption == Procs \in Nat
ASSUME StartAssumption == Start \in [Proc -> Nat \ {0}]
ASSUME SizeAssumption == MAX_TASKS \in Nat \ {0}
ASSUME BoundsAssumption == FirstRoom \in Nat \ {0} /\ MaxSamples \in Nat

VARIABLES
  born,     \* processes forked so far: 1 .. born
  alive,    \* those that have an mm
  writer,   \* processes that hold their mmap_lock for writing
  \* my_timer and my_tasklet
  armed,    \* the timer is pending
  cb,       \* timer_callback: "idle", "schedule" or "rearm"
  sched,    \* TASKLET_STATE_SCHED
  queued,   \* the tasklet is on a CPU's list
  tk,       \* where the tasklet is; "oops" after it used a NULL task->mm
  samples,  \* history: runs of the tasklet that found a process
  stacked,  \* history: the samples whose stack's VMA was found
  cursor,   \* last process visited by for_each_process
  latest,   \* latest_task
  stayed,   \* history: alive since the walk began
  \* the ring
  task_history, current_index, task_count,
  \* the reader
  rd, i, islot, idx, entry, out, room,
  base,     \* history: Stored when proc_show began
  \* rmmod
  module,   \* "absent", "loaded", then the stages of my_module_exit
  late      \* history: timer_callback was running at timer_delete

procVars == <<born, alive, writer>>
timerVars == <<armed, cb>>
walkVars == <<cursor, latest, stayed>>
tkVars == <<sched, queued, tk, samples, stacked, walkVars>>
ring == <<task_history, current_index, task_count>>
rdVars == <<rd, i, islot, idx, entry, out, room, base>>
modVars == <<module, late>>
vars == <<procVars, timerVars, tkVars, ring, rdVars, modVars>>

Blank == [h \in Half |-> None]

Init ==
  /\ born \in 0 .. Procs
  /\ alive = 1 .. born
  /\ writer = {}
  /\ armed = FALSE /\ cb = "idle"
  /\ sched = FALSE /\ queued = FALSE /\ tk = "idle"
  /\ samples = 0 /\ stacked = {}
  /\ cursor = None /\ latest = None /\ stayed = {}
  /\ task_history = [s \in Slot |-> Blank]
  /\ current_index = 0 /\ task_count = 0
  /\ rd = "closed"
  /\ i = 0 /\ islot = 0 /\ idx = 0
  /\ entry = Blank /\ out = <<>>
  /\ room = FirstRoom /\ base = 0
  /\ module = "absent"
  /\ late = FALSE

Present == module # "absent"   \* the module's text is in memory

-----------------------------------------------------------------------------
(* The processes *)

\* exit_mm, not inside a write section
ProcExit(p) ==
  /\ p \in alive \ writer
  /\ alive' = alive \ {p}
  /\ stayed' = stayed \ {p}
  /\ UNCHANGED <<born, writer, timerVars, sched, queued, tk, samples, stacked, cursor, latest,
                 ring, rdVars, modVars>>

\* The new process goes to the end of the list.
ProcFork ==
  /\ born < Procs
  /\ born' = born + 1
  /\ alive' = alive \cup {born + 1}
  /\ UNCHANGED <<writer, timerVars, tkVars, ring, rdVars, modVars>>

\* mmap_write_lock and mmap_write_unlock
MmapLock(p) ==
  /\ p \in alive \ writer
  /\ writer' = writer \cup {p}
  /\ UNCHANGED <<born, alive, timerVars, tkVars, ring, rdVars, modVars>>

MmapUnlock(p) ==
  /\ p \in writer
  /\ writer' = writer \ {p}
  /\ UNCHANGED <<born, alive, timerVars, tkVars, ring, rdVars, modVars>>

-----------------------------------------------------------------------------
(* Timer and tasklet *)

TimerFire ==
  /\ Present /\ armed /\ cb = "idle" /\ samples < MaxSamples
  /\ armed' = FALSE
  /\ cb' = "schedule"
  /\ UNCHANGED <<procVars, tkVars, ring, rdVars, modVars>>

\* tasklet_schedule: nothing if the tasklet is scheduled already
CallbackSchedule ==
  /\ Present /\ cb = "schedule"
  /\ sched' = TRUE
  /\ queued' = (queued \/ ~sched)
  /\ cb' = "rearm"
  /\ UNCHANGED <<procVars, armed, tk, samples, stacked, walkVars, ring, rdVars, modVars>>

CallbackRearm ==
  /\ Present /\ cb = "rearm"
  /\ armed' = TRUE
  /\ cb' = "idle"
  /\ UNCHANGED <<procVars, tkVars, ring, rdVars, modVars>>

\* my_tasklet_handler starts: find_latest_task
TaskletStart ==
  /\ Present /\ queued /\ tk = "idle"
  /\ queued' = FALSE /\ sched' = FALSE
  /\ tk' = "walk"
  /\ stayed' = alive
  /\ UNCHANGED <<procVars, timerVars, samples, stacked, cursor, latest, ring, rdVars,
                 modVars>>

(* Faulty: the last process with an mm is taken.                           *)
LaterLast(p) == TRUE

\* task->start_time > latest_start_time
Later(p) == latest = None \/ Start[p] > Start[latest]

\* One process of for_each_process; the list may change between two steps.
Visit ==
  /\ tk = "walk"
  /\ \E p \in Proc :
       /\ p > cursor
       /\ cursor' = p
       /\ \A q \in cursor + 1 .. p - 1 : q \notin alive
       /\ latest' = IF p \in alive /\ Later(p) THEN p ELSE latest
  /\ UNCHANGED <<procVars, timerVars, sched, queued, tk, samples, stacked, stayed,
                 ring, rdVars, modVars>>

\* The end of the tasklet.
TaskletDone ==
  /\ tk' = "idle"
  /\ cursor' = None /\ latest' = None /\ stayed' = {}

WalkEnd ==
  /\ tk = "walk" /\ \A q \in Proc : q > cursor => q \notin alive
  /\ IF latest = None
       THEN TaskletDone /\ UNCHANGED samples
       ELSE tk' = "area" /\ samples' = samples + 1 /\ UNCHANGED walkVars
  /\ UNCHANGED <<procVars, timerVars, sched, queued, stacked, ring, rdVars, modVars>>

(* add_task_to_history: outside the RCU section, so the process may have   *)
(* exited; task->mm is then NULL and the tasklet ends in an oops.           *)
StoreArea ==
  /\ tk = "area"
  /\ IF latest \in alive
       THEN /\ task_history' = [task_history EXCEPT ![current_index]["area"] = samples]
            /\ tk' = "stack"
       ELSE tk' = "oops" /\ UNCHANGED task_history
  /\ UNCHANGED <<procVars, timerVars, sched, queued, samples, stacked, walkVars,
                 current_index, task_count, rdVars, modVars>>

\* The stack's VMA, under mmap_lock.  Without one that contains start_stack
\* the entry keeps the stack of the sample that had the slot before.
StoreStack ==
  /\ tk = "stack" /\ latest \notin writer
  /\ \/ /\ latest \notin alive
        /\ tk' = "oops"
        /\ UNCHANGED <<task_history, stacked>>
     \/ /\ latest \in alive
        /\ tk' = "index"
        /\ \E found \in BOOLEAN :
             IF found
               THEN /\ task_history' = [task_history EXCEPT ![current_index]["stack"] = samples]
                    /\ stacked' = stacked \cup {samples}
               ELSE UNCHANGED <<task_history, stacked>>
  /\ UNCHANGED <<procVars, timerVars, sched, queued, samples, walkVars,
                 current_index, task_count, rdVars, modVars>>

NextSlot(s) == (s + 1) % MAX_TASKS

StoreIndex ==
  /\ tk = "index"
  /\ current_index' = NextSlot(current_index)
  /\ tk' = "count"
  /\ UNCHANGED <<procVars, timerVars, sched, queued, samples, stacked, walkVars,
                 task_history, task_count, rdVars, modVars>>

StoreCount ==
  /\ tk = "count"
  /\ task_count' = task_count + 1
  /\ TaskletDone
  /\ UNCHANGED <<procVars, timerVars, sched, queued, samples, stacked, task_history,
                 current_index, rdVars, modVars>>

-----------------------------------------------------------------------------
(* /proc/hw2 *)

\* Samples whose add_task_to_history has returned, or has begun if none runs.
Stored == IF tk \in {"area", "stack", "index", "count"} THEN samples - 1 ELSE samples

InShow == rd \in {"cond", "slot", "area", "stack"}
Smaller(a, b) == IF a < b THEN a ELSE b

(* Faulty: i <= min(task_count, MAX_TASKS).                                *)
PrintedOneMore(count) == Smaller(count, MAX_TASKS) + 1

\* min(task_count, MAX_TASKS)
Printed(count) == Smaller(count, MAX_TASKS)

GrownRoom(n) == 2 * n

Open ==
  /\ rd = "closed" /\ module = "loaded"
  /\ rd' = "open"
  /\ UNCHANGED <<procVars, timerVars, tkVars, ring, i, islot, idx, entry, out,
                 room, base, modVars>>

StartShow ==
  /\ rd = "open" /\ module = "loaded"
  /\ rd' = "cond"
  /\ i' = 0 /\ out' = <<>>
  /\ base' = Stored
  /\ UNCHANGED <<procVars, timerVars, tkVars, ring, islot, idx, entry, room, modVars>>

(* The loop condition, and the load of current_index.  The build may load  *)
(* task_count for the slot later than current_index, or the other way      *)
(* round: `islot' is what the first load contributes.                      *)
ShowCond ==
  /\ rd = "cond"
  /\ IF i < Printed(task_count)
       THEN /\ rd' = "slot"
            /\ idx' = current_index
            /\ UNCHANGED <<i, out, room, base>>
       ELSE IF room < Len(out)
         THEN \* seq_read doubles the buffer and runs proc_show again
              /\ room' = GrownRoom(room)
              /\ i' = 0 /\ out' = <<>>
              /\ base' = Stored
              /\ idx' = 0
              /\ UNCHANGED rd
         ELSE /\ rd' = "open" /\ idx' = 0
              /\ UNCHANGED <<i, out, room, base>>
  /\ UNCHANGED <<procVars, timerVars, tkVars, ring, islot, entry, modVars>>

(* Faulty: the correction for a ring that is not full yet is missing.      *)
EntrySlotUncorrected(k, from, count) == (from + k) % MAX_TASKS

EntrySlot(k, from, count) ==
  (from + k + (MAX_TASKS - Smaller(count, MAX_TASKS))) % MAX_TASKS

ShowSlot ==
  /\ rd = "slot"
  /\ islot' = EntrySlot(i, idx, task_count)
  /\ idx' = 0
  /\ rd' = "area"
  /\ UNCHANGED <<procVars, timerVars, tkVars, ring, i, entry, out, room, base, modVars>>

ShowArea ==
  /\ rd = "area"
  /\ entry' = [entry EXCEPT !["area"] = task_history[islot]["area"]]
  /\ rd' = "stack"
  /\ UNCHANGED <<procVars, timerVars, tkVars, ring, i, islot, idx, out, room, base, modVars>>

ShowStack ==
  /\ rd = "stack"
  /\ out' = Append(out, [entry EXCEPT !["stack"] = task_history[islot]["stack"]])
  /\ entry' = Blank
  /\ i' = i + 1
  /\ rd' = "cond"
  /\ islot' = 0
  /\ UNCHANGED <<procVars, timerVars, tkVars, ring, idx, room, base, modVars>>

\* single_release
Release ==
  /\ rd' = "closed"
  /\ i' = 0 /\ out' = <<>> /\ room' = FirstRoom /\ base' = 0
  /\ UNCHANGED <<islot, idx, entry>>

Close ==
  /\ rd = "open" /\ module = "loaded"
  /\ Release
  /\ UNCHANGED <<procVars, timerVars, tkVars, ring, modVars>>

-----------------------------------------------------------------------------
(* insmod and rmmod *)

\* The timer is due at once.  The static ring starts out zeroed.
ModuleInit ==
  /\ module = "absent"
  /\ ~armed /\ cb = "idle" /\ ~sched /\ tk = "idle"
  /\ module' = "loaded"
  /\ armed' = TRUE
  /\ late' = FALSE
  /\ task_history' = [s \in Slot |-> Blank]
  /\ current_index' = 0 /\ task_count' = 0
  /\ samples' = 0 /\ stacked' = {}
  /\ UNCHANGED <<procVars, cb, sched, queued, tk, walkVars, rdVars>>

\* remove_proc_entry unlinks the entry ...
RemoveEntry ==
  /\ module = "loaded"
  /\ module' = "removing"
  /\ UNCHANGED <<procVars, timerVars, tkVars, ring, rdVars, late>>

\* ... waits until no reader is inside proc_show and releases open files.
EntryRemoved ==
  /\ module = "removing" /\ ~InShow
  /\ Release
  /\ module' = "delete"
  /\ UNCHANGED <<procVars, timerVars, tkVars, ring, late>>

(* Faulty: the timer is forgotten.                                         *)
DeleteTimerNever ==
  /\ module = "delete"
  /\ module' = "kill"
  /\ UNCHANGED <<procVars, timerVars, tkVars, ring, rdVars, late>>

\* timer_delete does not wait for a callback that is running.
DeleteTimer ==
  /\ module = "delete"
  /\ armed' = FALSE
  /\ late' = (cb # "idle")
  /\ module' = "kill"
  /\ UNCHANGED <<procVars, cb, tkVars, ring, rdVars>>

\* tasklet_kill: claim the SCHED bit once it is free ...
KillClaim ==
  /\ module = "kill" /\ ~sched
  /\ sched' = TRUE
  /\ module' = "killing"
  /\ UNCHANGED <<procVars, timerVars, queued, tk, samples, stacked, walkVars, ring, rdVars, late>>

\* ... wait for a running tasklet, give it back; rmmod frees the module.
KillDone ==
  /\ module = "killing" /\ tk = "idle"
  /\ sched' = FALSE
  /\ module' = "absent"
  /\ UNCHANGED <<procVars, timerVars, queued, tk, samples, stacked, walkVars, ring, rdVars, late>>

-----------------------------------------------------------------------------
Callback == CallbackSchedule \/ CallbackRearm
Tasklet ==
  TaskletStart \/ Visit \/ WalkEnd \/ StoreArea \/ StoreStack \/ StoreIndex \/ StoreCount
Show == ShowCond \/ ShowSlot \/ ShowArea \/ ShowStack
Unload == EntryRemoved \/ DeleteTimer \/ KillClaim \/ KillDone

Next ==
  \/ ProcFork
  \/ \E p \in Proc : ProcExit(p) \/ MmapLock(p) \/ MmapUnlock(p)
  \/ TimerFire \/ Callback \/ Tasklet
  \/ Open \/ StartShow \/ Show \/ Close
  \/ ModuleInit \/ RemoveEntry \/ Unload

Spec == Init /\ [][Next]_vars

(* Timers fire, callbacks and softirqs run, tasks that read or unload are  *)
(* scheduled, and a process gives its mmap_lock back.  Strong fairness:    *)
(* down_read queues behind the writer, remove_proc_entry lets no new       *)
(* reader in, and tasklet_kill retries until it finds the bit free.        *)
FairSpec ==
  /\ Spec
  /\ WF_vars(TimerFire) /\ WF_vars(Callback)
  /\ SF_vars(Tasklet)
  /\ WF_vars(Show) /\ SF_vars(Unload)
  /\ \A p \in Proc : WF_vars(MmapUnlock(p))
=============================================================================
