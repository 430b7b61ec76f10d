--------------------------- MODULE SchedTraceProps --------------------------
(* Correctness of the schedule() tracer and of /proc/hw1. *)
EXTENDS SchedTrace

CONSTANT None   \* "no switch yet" in the abstract log

ASSUME NoneAssumption == None \notin Call

RecorderTypeOK ==
  /\ curr \in [CPU -> Task]
  /\ calls \in Seq(Call)
  /\ pc \in [CPU -> {"run", "load", "store"} \cup Field]
  /\ call \in [CPU -> Nat]
  /\ slot \in [CPU -> Slot]
  /\ tmp \in [CPU -> Slot]
  /\ ring \in [Slot -> Cell]
  /\ index \in Slot
  /\ done \in Nat
  /\ raced \in BOOLEAN

ReaderTypeOK ==
  /\ rd \in {"closed", "open", "index"} \cup Field
  /\ i \in 0 .. N
  /\ rslot \in Slot
  /\ line \in Cell
  /\ out \in Seq(Cell)
  /\ room \in Nat
  /\ base \in Nat
  /\ module \in {"absent", "loaded", "removing"}
  /\ entry \in BOOLEAN

(* Types; the part that could go wrong is that every interleaving of the   *)
(* unlocked increments leaves the index inside the array.                  *)
TypeOK == RecorderTypeOK /\ ReaderTypeOK

-----------------------------------------------------------------------------
Idle == \A c \in CPU : ~Recording(c)

\* Steps back from `index' to slot s: 1 for the newest entry, N the oldest.
AgeOf(s) == IF s < index THEN index - s ELSE index + N - s

\* The call that the a-th newest finished record came from (0: none yet).
Nth(a) == IF done >= a THEN done + 1 - a ELSE 0

(* "load recent 20 schedule info": as long as no two CPUs have been in the *)
(* recording code at once, the idle ring holds exactly the last N calls,   *)
(* every field of a slot from the same call, oldest at `index'.            *)
RingHoldsLastCalls ==
  ~raced /\ Idle =>
    \A s \in Slot, f \in Field : ring[s][f] = Nth(AgeOf(s))

\* CPU c has stored field f of the record it is writing.
Stored(c, f) ==
  pc[c] \in CASE f = "cpu"  -> {"prev", "next", "load", "store"}
              [] f = "prev" -> {"next", "load", "store"}
              [] f = "next" -> {"load", "store"}

\* One recorder at a time, working at the slot of the shared index.
Exclusive ==
  /\ \A c, d \in CPU : Recording(c) /\ Recording(d) => c = d
  /\ Idle => Len(calls) = done
  /\ \A c \in CPU : Recording(c) =>
       /\ Len(calls) = done + 1
       /\ call[c] = done + 1
       /\ slot[c] = index
       /\ pc[c] = "store" => tmp[c] = index

(* The inductive form of RingHoldsLastCalls: it also says what a record in *)
(* the middle of being written looks like.                                 *)
SerialInv ==
  ~raced =>
    /\ Exclusive
    /\ \A s \in Slot, f \in Field :
         ring[s][f] = IF s = index /\ \E c \in CPU : Stored(c, f)
                        THEN done + 1
                        ELSE Nth(AgeOf(s))

(* A show during which no CPU records prints the last N calls, oldest      *)
(* first, even when the first run overflowed seq_file's buffer.            *)
QuietShowIsLog ==
  ~raced /\ rd \in {"index", "open"} /\ i = N /\ out # <<>> /\ base = Len(calls)
    => /\ Len(out) = N
       /\ \A k \in 1 .. N, f \in Field : out[k][f] = Nth(N + 1 - k)

(* Staleness: with one recorder at a time, however far it gets during the  *)
(* show, entry k never shows data older than the k-th oldest entry of the  *)
(* moment the show began, and never data of a call not made yet.           *)
ShowIsNotStale ==
  ~raced => \A k \in 1 .. Len(out), f \in Field :
              /\ out[k][f] + N >= base + k
              /\ out[k][f] <= Len(calls)

\* Fields of the current entry that show has printed.
Printed == CASE rd = "prev" -> {"cpu"}
             [] rd = "next" -> {"cpu", "prev"}
             [] OTHER -> {}

(* The inductive form of ShowIsNotStale: the slot being printed only gets  *)
(* newer while show looks at it.                                           *)
ShowInv ==
  ~raced =>
    /\ base <= done
    /\ InShow => Len(out) = i
    /\ \A k \in 1 .. Len(out), f \in Field :
         out[k][f] + N >= base + k /\ out[k][f] <= Len(calls)
    /\ \A f \in Printed :
         line[f] + N >= base + i + 1 /\ line[f] <= Len(calls)
    /\ rd \in Field => \A f \in Field : ring[rslot][f] + N >= base + i + 1


(* rmmod returns: show is a bounded loop, and the reruns after an overflow *)
(* are bounded by the size of the output.                                  *)
UnloadCompletes == module = "removing" ~> module = "absent"

-----------------------------------------------------------------------------
(* Refinement.  The slot at `index' may be half written, so the tracer     *)
(* keeps a log of the N - 1 slots behind it; a switch enters the log when  *)
(* the incremented index is stored.                                        *)
SlotOfAge(a) == IF a <= index THEN index - a ELSE index + N - a

SwitchIn(s) ==
  IF \E f \in Field : ring[s][f] \notin DOMAIN calls THEN None
  ELSE [cpu |-> calls[ring[s]["cpu"]].cpu,
        prev |-> calls[ring[s]["prev"]].prev,
        next |-> calls[ring[s]["next"]].next]

Log == INSTANCE ScheduleLog
         WITH M <- N - 1, running <- curr,
              log <- [a \in 1 .. N - 1 |-> SwitchIn(SlotOfAge(a))]

(* Until two CPUs record at once, each step of the tracer is an atomic     *)
(* append to the log or leaves it alone.                                   *)
LogUntilRace == Log!Init /\ [][raced' \/ Log!Next]_(Log!logVars)

(* What the report reads off the output, in the ring: on each CPU the      *)
(* `next' of a record is the `prev' of that CPU's following record.        *)
ChainUntilRace == ~raced => Log!Chained

-----------------------------------------------------------------------------
(* Statements of the code and of the report that the code does not keep.   *)

(* hw1.c: starting at the shared index gives the entries "in the ascending *)
(* order"; here with a single CPU recording while show runs.               *)
ShowAscending ==
  \A k \in 1 .. Len(out) - 1, f \in Field : out[k][f] <= out[k + 1][f]

(* The report: looking at the records of one CPU, the process that was     *)
(* `next' goes on as `prev'.                                               *)
ReportedChain == Idle => Log!Chained
=============================================================================
