-------------------------- MODULE TaskHistoryProps --------------------------
(* Correctness of the task history module. *)
EXTENDS TaskHistory

(* Types; the ring index stays inside the array.                           *)
TypeOK ==
  /\ born \in 0 .. Procs
  /\ alive \subseteq 1 .. born
  /\ writer \subseteq alive
  /\ armed \in BOOLEAN /\ cb \in {"idle", "schedule", "rearm"}
  /\ sched \in BOOLEAN /\ queued \in BOOLEAN
  /\ tk \in {"idle", "walk", "area", "stack", "index", "count", "oops"}
  /\ cursor \in 0 .. Procs /\ latest \in 0 .. Procs
  /\ stayed \subseteq Proc
  /\ stacked \subseteq 1 .. samples
  /\ task_history \in [Slot -> [Half -> Nat]]
  /\ current_index \in Slot
  /\ task_count \in Nat
  /\ islot \in Slot /\ idx \in Slot
  /\ room \in Nat

Kept(n) == Smaller(n, MAX_TASKS)
SlotOf(m) == (m - 1) % MAX_TASKS   \* the entry that sample m is written to

(* What the entry of sample m holds of a stack: that of the last sample, m *)
(* or one before it in this entry, for which the VMA was found.            *)
IsStackOf(m, s) ==
  LET found == {n \in stacked : n <= m /\ SlotOf(n) = SlotOf(m)}
  IN  s \in found \cup {None} /\ \A n \in found : n <= s

IsEntryOf(m, e) == e["area"] = m /\ IsStackOf(m, e["stack"])

(* "Circular buffer for storing task information": between two runs of the *)
(* tasklet the entry that proc_show would print k-th is the k-th oldest of *)
(* the last MAX_TASKS samples; its stack may be older, the last one found  *)
(* of this entry, and no newer one has been lost.                          *)
RingHoldsLastSamples ==
  tk = "idle" =>
    /\ task_count = samples
    /\ \A k \in 0 .. Kept(samples) - 1 :
         IsEntryOf(samples - Kept(samples) + k + 1,
                   task_history[EntrySlot(k, current_index, task_count)])

(* A proc_show during which the tasklet did not run prints those samples,  *)
(* oldest first and none of them blank, whatever the buffer's reruns.      *)
QuietShowIsHistory ==
  rd = "open" /\ out # <<>> /\ base = samples /\ tk = "idle" =>
    \A k \in 1 .. Len(out) : IsEntryOf(samples - Len(out) + k, out[k])

(* The ring never shows a process older than one that was there during the *)
(* whole walk: "finds the latest task (process) based on their start time".*)
RecordIsLatest ==
  tk = "area" => \A p \in stayed : Start[p] <= Start[latest]

(* After rmmod no reader is left in freed text, nor the timer or the       *)
(* tasklet, provided for these that timer_callback was not running when    *)
(* timer_delete, which does not wait for it, was called.                   *)
UnloadIsClean ==
  ~Present => /\ ~InShow
              /\ ~late => ~armed /\ cb = "idle" /\ ~queued /\ tk = "idle"

(* While the module is loaded and there is a process, timer_callback and   *)
(* the tasklet take one sample after the other (a lost process apart).     *)
SamplingGoesOn ==
  \A n \in 0 .. MaxSamples - 1 :
    module = "loaded" /\ task_count = n
      ~> task_count > n \/ module # "loaded" \/ tk = "oops" \/ alive = {}

(* rmmod returns, whatever readers, the timer and the tasklet are doing.   *)
UnloadCompletes ==
  module \in {"removing", "delete", "kill", "killing"} ~> ~Present \/ tk = "oops"

-----------------------------------------------------------------------------
(* find_latest_task: "Check if the process has a valid memory descriptor": *)
(* the process whose mm add_task_to_history uses has one.                  *)
ValidMemoryDescriptor == tk # "oops"
=============================================================================
