----------------------------- MODULE SchedTrace -----------------------------
(***************************************************************************)
(* The schedule() tracer of assignment 1.                                  *)
(*                                                                         *)
(* Writer: every call of __schedule() (kernel/core.c) copies the outgoing  *)
(* and the incoming task into the slot `index' of a ring shared by all     *)
(* CPUs, then advances `index'.  Each CPU holds only its own rq lock, so   *)
(* nothing orders the writers of two CPUs.                                 *)
(* Reader: /proc/hw1 (module/hw1.c) prints the ring from slot `index' on   *)
(* and takes no lock either.                                               *)
(*                                                                         *)
(* Data abstraction: the calls of __schedule() are numbered 1, 2, ... and  *)
(* `calls' keeps what each of them observed.  A ring field holds the       *)
(* number of the call it was copied from (0: the zeroed static array), so  *)
(* mixing fields of two calls is visible.                                  *)
(***************************************************************************)
EXTENDS Naturals, Sequences

CONSTANTS CPU,        \* the online CPUs
          Task,       \* tasks that may run, the idle tasks included
          N,          \* slots of hw1_recent_schedules (20 in the code)
          FirstRoom,  \* entries that fit in seq_file's first buffer
          MaxCalls    \* bound on the calls of __schedule()

ASSUME NAssumption == N \in Nat \ {0}
ASSUME RoomAssumption == FirstRoom \in Nat \ {0}
ASSUME CallsAssumption == MaxCalls \in Nat

Slot == 0 .. N - 1
Field == {"cpu", "prev", "next"}   \* hw1_schedule_info; order of the stores
Cell == [Field -> Nat]
Call == [cpu : CPU, prev : Task, next : Task]

VARIABLES
  curr,    \* curr[c]: rq->curr of CPU c
  calls,   \* history: what each call of __schedule() observed
  pc,      \* pc[c]: where CPU c is in the recording code
  call,    \* call[c]: number of the call CPU c is recording
  slot,    \* slot[c]: the slot sched_info of CPU c points to
  tmp,     \* tmp[c]: the index loaded for the increment
  ring,    \* hw1_recent_schedules
  index,   \* hw1_recent_schedules_index
  done,    \* history: number of finished increments
  raced    \* history: two CPUs have been in the recording code together

recVars == <<curr, calls, pc, call, slot, tmp, ring, index, done, raced>>

VARIABLES
  rd,      \* where the reader of /proc/hw1 is
  i,       \* loop variable of sched_info_proc_show
  rslot,   \* its local `index'
  line,    \* the fields of the entry being printed
  out,     \* entries printed by this run of show
  room,    \* entries the seq_file buffer holds
  base,    \* history: `done' when this run of show began
  module,  \* "absent", "loaded" or "removing"
  entry    \* /proc/hw1 exists

showVars == <<rd, i, rslot, line, out, room, base>>
modVars == <<module, entry>>
vars == <<recVars, showVars, modVars>>

Zero == [f \in Field |-> 0]

Init ==
  /\ curr \in {f \in [CPU -> Task] : \A c, d \in CPU : f[c] = f[d] => c = d}
  /\ calls = <<>>
  /\ pc = [c \in CPU |-> "run"]
  /\ call = [c \in CPU |-> 0]
  /\ slot = [c \in CPU |-> 0]
  /\ tmp = [c \in CPU |-> 0]
  /\ ring = [s \in Slot |-> Zero]
  /\ index = 0
  /\ done = 0
  /\ raced = FALSE
  /\ rd = "closed"
  /\ i = 0
  /\ rslot = 0
  /\ line = Zero
  /\ out = <<>>
  /\ room = FirstRoom
  /\ base = 0
  /\ module = "absent"
  /\ entry = FALSE

-----------------------------------------------------------------------------
(* The writer: __schedule() on CPU c *)

Recording(c) == pc[c] # "run"

\* Tasks another CPU runs, or has picked and is about to run.
TakenElsewhere(c) ==
  {curr[d] : d \in CPU \ {c}}
    \cup {calls[call[d]].next : d \in {e \in CPU \ {c} : Recording(e)}}

(* pick_next_task() chooses `next' and sched_info is pointed to the slot   *)
(* the shared index names at this moment.                                  *)
PickNext(c) ==
  /\ ~Recording(c)
  /\ Len(calls) < MaxCalls
  /\ \E t \in Task \ TakenElsewhere(c) :
       calls' = Append(calls, [cpu |-> c, prev |-> curr[c], next |-> t])
  /\ call' = [call EXCEPT ![c] = Len(calls) + 1]
  /\ slot' = [slot EXCEPT ![c] = index]
  /\ pc' = [pc EXCEPT ![c] = "cpu"]
  /\ raced' = (raced \/ \E d \in CPU : Recording(d))
  /\ UNCHANGED <<curr, tmp, ring, index, done, showVars, modVars>>

(* Faulty: the copy of next is forgotten.                                  *)
AfterStoreNoNext == [f \in Field |-> IF f = "cpu" THEN "prev" ELSE "load"]

AfterStore == [f \in Field |-> CASE f = "cpu"  -> "prev"
                                 [] f = "prev" -> "next"
                                 [] f = "next" -> "load"]

\* sched_info->cpu, then ->prev.*, then ->next.*
StoreField(c) ==
  /\ pc[c] \in Field
  /\ ring' = [ring EXCEPT ![slot[c]] = [@ EXCEPT ![pc[c]] = call[c]]]
  /\ pc' = [pc EXCEPT ![c] = AfterStore[pc[c]]]
  /\ UNCHANGED <<curr, calls, call, slot, tmp, index, done, raced,
                 showVars, modVars>>

(* The load of index = (index + 1) % 20.  The accesses are plain, so the   *)
(* build may load again or reuse the value that addressed the slot.        *)
LoadIndex(c) ==
  /\ pc[c] = "load"
  /\ \E v \in {index, slot[c]} : tmp' = [tmp EXCEPT ![c] = v]
  /\ pc' = [pc EXCEPT ![c] = "store"]
  /\ UNCHANGED <<curr, calls, call, slot, ring, index, done, raced,
                 showVars, modVars>>

(* Faulty: no wrap-around; wrap-around one slot early; a ring backwards.   *)
NextIndexUnwrapped(v) == v + 1
NextIndexShort(v) == IF v + 2 >= N THEN 0 ELSE v + 1
NextIndexBackwards(v) == (v + N - 1) % N

NextIndex(v) == (v + 1) % N

\* Its store, and the switch to `next' that follows; the locals are dead.
StoreIndex(c) ==
  /\ pc[c] = "store"
  /\ index' = NextIndex(tmp[c])
  /\ curr' = [curr EXCEPT ![c] = calls[call[c]].next]
  /\ done' = done + 1
  /\ pc' = [pc EXCEPT ![c] = "run"]
  /\ call' = [call EXCEPT ![c] = 0]
  /\ slot' = [slot EXCEPT ![c] = 0]
  /\ tmp' = [tmp EXCEPT ![c] = 0]
  /\ UNCHANGED <<calls, ring, raced, showVars, modVars>>

-----------------------------------------------------------------------------
(* The reader: /proc/hw1 *)

InShow == rd \in {"index"} \cup Field

\* sched_info_proc_open: single_open; the file starts with an empty buffer.
Open ==
  /\ rd = "closed" /\ entry
  /\ rd' = "open"
  /\ UNCHANGED <<recVars, i, rslot, line, out, room, base, modVars>>

\* seq_read calls show; the proc layer refuses once the entry is removed.
StartShow ==
  /\ rd = "open" /\ entry
  /\ rd' = "index"
  /\ i' = 0
  /\ out' = <<>>
  /\ base' = done
  /\ UNCHANGED <<recVars, rslot, line, room, modVars>>

(* Faulty: one slot too far; the shared index forgotten.                   *)
EntrySlotLate(k) == (index + k + 1) % N
EntrySlotFromZero(k) == k

EntrySlot(k) == (index + k) % N

\* The loop re-reads the shared index in every iteration.
ReadIndex ==
  /\ rd = "index" /\ i < N
  /\ rslot' = EntrySlot(i)
  /\ rd' = "cpu"
  /\ UNCHANGED <<recVars, i, line, out, room, base, modVars>>

\* seq_printf of the CPU, then of prev, then of next
ReadField ==
  /\ rd \in Field
  /\ LET new == [line EXCEPT ![rd] = ring[rslot][rd]]
     IN  IF rd = "next"
           THEN /\ out' = Append(out, new)
                /\ line' = Zero
                /\ i' = i + 1
                /\ rd' = "index"
           ELSE /\ line' = new
                /\ rd' = AfterStore[rd]
                /\ UNCHANGED <<i, out>>
  /\ UNCHANGED <<recVars, rslot, room, base, modVars>>

(* Faulty: a rerun into a buffer that is no larger.                        *)
GrownRoomSame == room

GrownRoom == 2 * room

(* show returns.  On overflow seq_read doubles the buffer and runs show    *)
(* again from the start.                                                   *)
FinishShow ==
  /\ rd = "index" /\ i = N
  /\ IF room < N
       THEN /\ room' = GrownRoom
            /\ i' = 0
            /\ out' = <<>>
            /\ base' = done
            /\ UNCHANGED rd
       ELSE rd' = "open" /\ UNCHANGED <<i, out, room, base>>
  /\ UNCHANGED <<recVars, rslot, line, modVars>>

\* single_release drops the buffer.
Release ==
  /\ rd' = "closed"
  /\ i' = 0
  /\ rslot' = 0
  /\ out' = <<>>
  /\ room' = FirstRoom
  /\ base' = 0
  /\ UNCHANGED line

Close ==
  /\ rd = "open"
  /\ Release
  /\ UNCHANGED <<recVars, modVars>>

-----------------------------------------------------------------------------
(* The module: insmod and rmmod *)

\* proc_create may fail; hw1_init ignores its result.
ModuleInit ==
  /\ module = "absent"
  /\ module' = "loaded"
  /\ entry' \in BOOLEAN
  /\ UNCHANGED <<recVars, showVars>>

\* hw1_exit: remove_proc_entry unlinks the entry ...
ModuleExit ==
  /\ module = "loaded"
  /\ module' = "removing"
  /\ entry' = FALSE
  /\ UNCHANGED <<recVars, showVars>>

\* ... waits until no read is inside show and releases the files still open;
\* the text is then freed.
ModuleExited ==
  /\ module = "removing" /\ ~InShow
  /\ Release
  /\ module' = "absent"
  /\ UNCHANGED <<recVars, entry>>

-----------------------------------------------------------------------------
Record(c) == PickNext(c) \/ StoreField(c) \/ LoadIndex(c) \/ StoreIndex(c)
Show == ReadIndex \/ ReadField \/ FinishShow

Next ==
  \/ \E c \in CPU : Record(c)
  \/ Open \/ StartShow \/ Show \/ Close
  \/ ModuleInit \/ ModuleExit \/ ModuleExited

Spec == Init /\ [][Next]_vars

\* The tracer alone, /proc/hw1 never loaded.
RecorderSpec == Init /\ [][\E c \in CPU : Record(c)]_vars

(* A CPU inside __schedule() runs with interrupts off and finishes; a      *)
(* reader that has entered show is a runnable task, and the scheduler      *)
(* gives it time; so is rmmod.  Nobody need open or load anything.         *)
FairSpec ==
  /\ Spec
  /\ \A c \in CPU : WF_vars(StoreField(c) \/ LoadIndex(c) \/ StoreIndex(c))
  /\ WF_vars(Show)
  /\ WF_vars(ModuleExited)
=============================================================================
