-------------------------- MODULE PageArchiveProps --------------------------
(* Correctness of the page-table archive module. *)
EXTENDS PageArchive

(* Types; the resident list stays inside its array.                        *)
TypeOK ==
  /\ born \in 0 .. Procs /\ alive \cup zombie \subseteq 1 .. born
  /\ i \in Nat /\ buf \in Proc \cup {None} /\ __count \in Nat
  /\ cur_reside_idx \in 0 .. MAX_RESIDE
  /\ cur_reside \in [0 .. MAX_RESIDE - 1 -> Proc \cup {None}]
  /\ arc \in [Proc -> [Half -> Nat]]
  /\ entries \subseteq Proc
  /\ armed \in BOOLEAN /\ cb \in {"idle", "schedule", "rearm"}
  /\ sched \in BOOLEAN /\ queued \in BOOLEAN
  /\ tk \in {"idle", "remove", "walk", "create", "reside", "head", "body", "oops"}
  /\ cursor \in Proc \cup {None} /\ over \subseteq Readers
  /\ reg \in [Remover \cup Readers -> Nat]
  /\ doomed \in [Remover -> Proc \cup {None}]
  /\ file \in [Readers -> Proc \cup {None}]
  /\ pos \in [Readers -> {0, 1}]

Residents == {cur_reside[k] : k \in 0 .. cur_reside_idx - 1}

(* Between two runs of the tasklet /proc/hw2 has a file for each process   *)
(* of cur_reside and for nobody else, so that the next run and rmmod       *)
(* remove them all.  It relies on nobody using i during a removal loop.    *)
EntriesAreResidents ==
  tk = "idle" /\ module \in {"loaded", "kill", "killing", "delete"} /\ ~shared =>
    entries = Residents

(* hello_seq_start and hello_seq_next give a reader one page and then the  *)
(* end of the file; read while no tasklet ran, the page shows one sample,  *)
(* the last.  It relies on nobody using i during a removal loop, and on no *)
(* tasklet racing with hello_exit for buf.                                 *)
QuietPageIsLastSample ==
  \A r \in Readers :
    /\ pages[r] = pos[r]
    /\ rd[r] = "open" /\ pos[r] = 1 /\ quiet[r] /\ ~shared /\ ~refired =>
         \A h \in Half : page[r][h] = __count

(* After rmmod nothing of the module is left: no timer, no tasklet and no  *)
(* file, hence no reader in freed text.  It relies on the timer not firing *)
(* after tasklet_kill and on nobody using i during a removal loop.         *)
UnloadIsClean ==
  module = "absent" /\ ~refired =>
    /\ ~armed /\ cb = "idle" /\ ~queued /\ tk = "idle"
    /\ ~shared => entries = {} /\ \A r \in Readers : rd[r] = "closed"

\* remove_proc_entry waits for the very reader the tasklet has interrupted.
WaitsForItself ==
  lp["tasklet"] = "rundown" /\ \E r \in over : InRead(r) /\ file[r] = doomed["tasklet"]

(* rmmod returns, unless the tasklet meets a process without mm or without *)
(* a VMA for its stack, waits for itself or shares i.                      *)
UnloadCompletes ==
  module = "kill" ~> module = "absent" \/ tk = "oops" \/ WaitsForItself \/ shared
=============================================================================
