-------------------------- MODULE SchedTraceProofs --------------------------
(* Proofs about the schedule() tracer, for every number of CPUs, tasks and *)
(* slots and every bound on the calls.                                     *)
EXTENDS SchedTraceProps, TLAPS

(* Adding up to N to a slot number and wrapping stays in the ring.         *)
LEMMA Wrap ==
  ASSUME NEW s \in Slot, NEW k \in 0 .. N
  PROVE  /\ (s + k) % N = IF s + k < N THEN s + k ELSE s + k - N
         /\ (s + k) % N \in Slot
BY NAssumption DEF Slot

-----------------------------------------------------------------------------
(* Types.  A CPU in the recording code has its call in the history, and    *)
(* show is inside its loop while it prints a field.                        *)
CallInv == \A c \in CPU : Recording(c) => call[c] \in 1 .. Len(calls)
LoopInv == rd \in Field => i < N
TypeInv == TypeOK /\ CallInv /\ LoopInv

LEMMA InitTypeInv == Init => TypeInv
<1> SUFFICES ASSUME Init PROVE TypeInv
  OBVIOUS
<1>1. 0 \in Slot /\ 0 \in 0 .. N
  BY NAssumption DEF Slot
<1>2. Zero \in Cell
  BY DEF Zero, Cell
<1>3. RecorderTypeOK
  <2>1. curr \in [CPU -> Task]
    BY DEF Init
  <2>2. calls \in Seq(Call)
    BY DEF Init
  <2> QED
    BY <1>1, <1>2, <2>1, <2>2 DEF Init, RecorderTypeOK
<1>4. ReaderTypeOK
  BY <1>1, <1>2, RoomAssumption DEF Init, ReaderTypeOK
<1>5. CallInv /\ LoopInv
  BY DEF Init, CallInv, LoopInv, Recording, Field
<1> QED
  BY <1>3, <1>4, <1>5 DEF TypeInv, TypeOK

LEMMA RecordKeepsTypes ==
  ASSUME TypeInv, NEW c \in CPU, Record(c)
  PROVE  TypeInv'
<1> USE DEF TypeInv, TypeOK
<1>1. UNCHANGED <<showVars, modVars>>
  BY DEF Record, PickNext, StoreField, LoadIndex, StoreIndex, NextIndex
<1>2. ReaderTypeOK' /\ LoopInv'
  BY <1>1 DEF ReaderTypeOK, LoopInv, showVars, modVars
<1>3. CASE PickNext(c)
  <2>1. PICK t \in Task : calls' = Append(calls, [cpu |-> c, prev |-> curr[c], next |-> t])
    BY <1>3 DEF PickNext
  <2>2. [cpu |-> c, prev |-> curr[c], next |-> t] \in Call
    BY DEF RecorderTypeOK, Call
  <2>3. /\ calls' \in Seq(Call)
        /\ Len(calls') = Len(calls) + 1
        /\ Len(calls) \in Nat
    BY <2>1, <2>2 DEF RecorderTypeOK
  <2>4. RecorderTypeOK'
    BY <1>3, <2>3 DEF PickNext, RecorderTypeOK, Field
  <2>5. CallInv'
    BY <1>3, <2>3 DEF PickNext, RecorderTypeOK, CallInv, Recording
  <2> QED
    BY <1>2, <2>4, <2>5
<1>4. CASE StoreField(c)
  <2>1. ring' \in [Slot -> Cell]
    BY <1>4 DEF StoreField, RecorderTypeOK, Cell
  <2>2. pc' \in [CPU -> {"run", "load", "store"} \cup Field]
    BY <1>4 DEF StoreField, RecorderTypeOK, AfterStore, Field
  <2>3. RecorderTypeOK'
    BY <1>4, <2>1, <2>2 DEF StoreField, RecorderTypeOK
  <2>4. CallInv'
    BY <1>4 DEF StoreField, RecorderTypeOK, CallInv, Recording, Field
  <2> QED
    BY <1>2, <2>3, <2>4
<1>5. CASE LoadIndex(c)
  <2>1. tmp' \in [CPU -> Slot]
    BY <1>5 DEF LoadIndex, RecorderTypeOK
  <2>2. RecorderTypeOK'
    BY <1>5, <2>1 DEF LoadIndex, RecorderTypeOK
  <2>3. CallInv'
    BY <1>5 DEF LoadIndex, RecorderTypeOK, CallInv, Recording
  <2> QED
    BY <1>2, <2>2, <2>3
<1>6. CASE StoreIndex(c)
  <2>1. index' \in Slot /\ 0 \in Slot
    <3>1. tmp[c] \in Slot /\ 1 \in 0 .. N /\ 0 \in Slot
      BY NAssumption DEF RecorderTypeOK, Slot
    <3>2. (tmp[c] + 1) % N \in Slot
      BY <3>1, Wrap
    <3> QED
      BY <1>6, <3>1, <3>2 DEF StoreIndex, NextIndex
  <2>2. calls[call[c]].next \in Task
    <3>1. call[c] \in 1 .. Len(calls)
      BY <1>6 DEF StoreIndex, NextIndex, CallInv, Recording
    <3>2. calls[call[c]] \in Call
      BY <3>1 DEF RecorderTypeOK
    <3> QED
      BY <3>2 DEF Call
  <2>3. RecorderTypeOK'
    BY <1>6, <2>1, <2>2 DEF StoreIndex, NextIndex, RecorderTypeOK
  <2>4. CallInv'
    BY <1>6 DEF StoreIndex, NextIndex, RecorderTypeOK, CallInv, Recording
  <2> QED
    BY <1>2, <2>3, <2>4
<1> QED
  BY <1>3, <1>4, <1>5, <1>6 DEF Record

\* Steps of the reader and of the module's life cycle.
ReaderOrModule ==
  \/ Open \/ StartShow \/ Show \/ Close
  \/ ModuleInit \/ ModuleExit \/ ModuleExited

LEMMA ReaderKeepsRecorder ==
  ReaderOrModule => UNCHANGED recVars
BY DEF ReaderOrModule, Open, StartShow, Show, ReadIndex, EntrySlot, ReadField, FinishShow, GrownRoom,
       Close, Release, ModuleInit, ModuleExit, ModuleExited

LEMMA ReaderKeepsTypes ==
  ASSUME TypeInv, ReaderOrModule
  PROVE  TypeInv'
<1> USE DEF TypeInv, TypeOK
<1>1. RecorderTypeOK' /\ CallInv'
  BY ReaderKeepsRecorder DEF RecorderTypeOK, CallInv, Recording, recVars
<1>2. 0 \in 0 .. N /\ 0 \in Slot /\ Zero \in Cell
  BY NAssumption DEF Slot, Zero, Cell
<1>3. done \in Nat /\ index \in Slot /\ ring \in [Slot -> Cell]
  BY DEF RecorderTypeOK
<1>4. CASE Open
  BY <1>1, <1>4 DEF Open, ReaderTypeOK, LoopInv, Field, modVars
<1>5. CASE StartShow
  BY <1>1, <1>2, <1>3, <1>5 DEF StartShow, ReaderTypeOK, LoopInv, Field, modVars
<1>6. CASE ReadIndex
  <2>1. (index + i) % N \in Slot
    BY <1>3, Wrap DEF ReaderTypeOK
  <2> QED
    BY <1>1, <1>6, <2>1 DEF ReadIndex, EntrySlot, ReaderTypeOK, LoopInv, Field, modVars
<1>7. CASE ReadField
  <2> DEFINE new == [line EXCEPT ![rd] = ring[rslot][rd]]
  <2>1. new \in Cell
    BY <1>3, <1>7 DEF ReadField, ReaderTypeOK, Cell
  <2>2. i < N /\ i \in Nat
    BY <1>7 DEF ReadField, LoopInv, ReaderTypeOK
  <2>3. CASE rd = "next"
    <3>1. out' = Append(out, new) /\ line' = Zero /\ i' = i + 1 /\ rd' = "index"
      BY <1>7, <2>3 DEF ReadField
    <3>2. out' \in Seq(Cell)
      BY <2>1, <3>1 DEF ReaderTypeOK
    <3>3. i' \in 0 .. N
      BY <2>2, <3>1, NAssumption
    <3> QED
      BY <1>1, <1>2, <1>7, <3>1, <3>2, <3>3
         DEF ReadField, ReaderTypeOK, LoopInv, Field, modVars
  <2>4. CASE rd # "next"
    BY <1>1, <1>7, <2>1, <2>2, <2>4
       DEF ReadField, ReaderTypeOK, LoopInv, AfterStore, Field, modVars
  <2> QED
    BY <2>3, <2>4
<1>8. CASE FinishShow
  <2>1. CASE room < N
    BY <1>1, <1>2, <1>3, <1>8, <2>1
       DEF FinishShow, GrownRoom, ReaderTypeOK, LoopInv, Field, modVars
  <2>2. CASE ~(room < N)
    BY <1>1, <1>8, <2>2 DEF FinishShow, GrownRoom, ReaderTypeOK, LoopInv, Field, modVars
  <2> QED
    BY <2>1, <2>2
<1>9. CASE Close \/ ModuleExited
  <2>1. /\ rd' = "closed" /\ i' = 0 /\ rslot' = 0 /\ out' = <<>> /\ room' = FirstRoom
        /\ base' = 0 /\ line' = line
    BY <1>9 DEF Close, ModuleExited, Release
  <2>2. module' \in {"absent", "loaded", "removing"} /\ entry' \in BOOLEAN
    BY <1>9 DEF Close, ModuleExited, modVars, ReaderTypeOK
  <2>3. ReaderTypeOK'
    BY <1>2, <2>1, <2>2, RoomAssumption DEF ReaderTypeOK
  <2>4. LoopInv'
    BY <2>1 DEF LoopInv, Field
  <2> QED
    BY <1>1, <2>3, <2>4
<1>10. CASE ModuleInit \/ ModuleExit
  BY <1>1, <1>10
     DEF ModuleInit, ModuleExit, ReaderTypeOK, LoopInv, showVars
<1> QED
  BY <1>4, <1>5, <1>6, <1>7, <1>8, <1>9, <1>10 DEF ReaderOrModule, Show

LEMMA StutterKeepsTypes == TypeInv /\ UNCHANGED vars => TypeInv'
BY DEF TypeInv, TypeOK, RecorderTypeOK, ReaderTypeOK, CallInv, LoopInv, Recording,
       vars, recVars, showVars, modVars

LEMMA NextSplit ==
  ASSUME [Next]_vars
  PROVE  (\E c \in CPU : Record(c)) \/ ReaderOrModule \/ UNCHANGED vars
BY DEF Next, ReaderOrModule

(* No interleaving of the recorders, of show and of the module, raced or   *)
(* not, takes the shared index out of the ring or breaks another type.     *)
THEOREM TypeCorrect == Spec => []TypeInv
<1>1. TypeInv /\ [Next]_vars => TypeInv'
  BY NextSplit, RecordKeepsTypes, ReaderKeepsTypes, StutterKeepsTypes
<1> QED
  BY <1>1, InitTypeInv, PTL DEF Spec

(* The same, as the type invariant the runs check. *)
COROLLARY TypesHold == Spec => []TypeOK
<1>1. TypeInv => TypeOK
  BY DEF TypeInv
<1> QED
  BY <1>1, TypeCorrect, PTL

-----------------------------------------------------------------------------
(* One recorder at a time. *)

(* Advancing the index by one slot makes every slot one older, except the  *)
(* slot just written, which becomes the newest.                            *)
LEMMA AgeShift ==
  ASSUME index \in Slot, index' = (index + 1) % N, NEW s \in Slot
  PROVE  /\ AgeOf(s) \in 1 .. N
         /\ AgeOf(s)' = IF s = index THEN 1 ELSE AgeOf(s) + 1
<1>1. 1 \in 0 .. N
  BY NAssumption
<1>2. index' = IF index + 1 < N THEN index + 1 ELSE index + 1 - N
  BY <1>1, Wrap
<1> QED
  BY <1>2, NAssumption DEF AgeOf, Slot

(* Which fields a recorder has stored, by its position. *)
LEMMA StoredFields ==
  ASSUME NEW c \in CPU
  PROVE  /\ pc[c] \in {"run", "cpu"} => \A f \in Field : ~Stored(c, f)
         /\ pc[c] \in {"load", "store"} => \A f \in Field : Stored(c, f)
         /\ pc[c] = "prev" => \A f \in Field : Stored(c, f) <=> f = "cpu"
         /\ pc[c] = "next" => \A f \in Field : Stored(c, f) <=> f # "next"
BY DEF Stored, Field

LEMMA StoredFieldsPrimed ==
  ASSUME NEW c \in CPU
  PROVE  /\ pc'[c] \in {"run", "cpu"} => \A f \in Field : ~Stored(c, f)'
         /\ pc'[c] \in {"load", "store"} => \A f \in Field : Stored(c, f)'
         /\ pc'[c] = "prev" => \A f \in Field : Stored(c, f)' <=> f = "cpu"
         /\ pc'[c] = "next" => \A f \in Field : Stored(c, f)' <=> f # "next"
BY DEF Stored, Field

LEMMA InitSerial == Init => SerialInv
<1> SUFFICES ASSUME Init PROVE SerialInv
  OBVIOUS
<1>1. \A c \in CPU : ~Recording(c) /\ \A f \in Field : ~Stored(c, f)
  BY StoredFields DEF Init, Recording
<1>2. Exclusive
  BY <1>1 DEF Init, Exclusive
<1>3. \A s \in Slot, f \in Field : ring[s][f] = 0 /\ Nth(AgeOf(s)) = 0
  BY NAssumption DEF Init, Zero, Nth, AgeOf, Slot
<1> QED
  BY <1>1, <1>2, <1>3 DEF SerialInv

LEMMA RecordKeepsSerial ==
  ASSUME TypeInv, SerialInv, NEW c \in CPU, Record(c)
  PROVE  SerialInv'
<1> SUFFICES ASSUME ~raced' PROVE SerialInv'
  BY DEF SerialInv
<1>1. ~raced /\ Exclusive
      /\ \A s \in Slot, f \in Field :
           ring[s][f] = IF s = index /\ \E d \in CPU : Stored(d, f)
                          THEN done + 1 ELSE Nth(AgeOf(s))
  <2>1. ~raced
    BY DEF Record, PickNext, StoreField, LoadIndex, StoreIndex, NextIndex, TypeInv, TypeOK, RecorderTypeOK
  <2> QED
    BY <2>1 DEF SerialInv
<1>2. /\ RecorderTypeOK
      /\ index \in Slot /\ done \in Nat /\ Len(calls) \in Nat
      /\ pc \in [CPU -> {"run", "load", "store"} \cup Field]
      /\ ring \in [Slot -> Cell]
  BY DEF TypeInv, TypeOK, RecorderTypeOK
<1>3. ASSUME \A d \in CPU \ {c} : ~Recording(d)
      PROVE  \A d \in CPU \ {c}, f \in Field : ~Stored(d, f)
  BY <1>3, StoredFields DEF Recording
<1>4. CASE PickNext(c)
  <2>1. \A d \in CPU : ~Recording(d)
    BY <1>4 DEF PickNext
  <2>2. Len(calls) = done /\ Len(calls') = done + 1
    BY <1>1, <1>2, <1>4, <2>1 DEF PickNext, Exclusive, Idle, RecorderTypeOK
  <2>3. pc' = [pc EXCEPT ![c] = "cpu"] /\ UNCHANGED <<ring, index, done>>
    BY <1>4 DEF PickNext
  <2>4. \A d \in CPU : Recording(d)' <=> d = c
    BY <1>2, <2>1, <2>3 DEF Recording
  <2>5. \A d \in CPU, f \in Field : ~Stored(d, f) /\ ~Stored(d, f)'
    BY <1>2, <2>1, <2>3, StoredFields, StoredFieldsPrimed DEF Recording
  <2>6. Exclusive'
    BY <1>2, <1>4, <2>2, <2>3, <2>4 DEF PickNext, Exclusive, Idle, RecorderTypeOK
  <2>7. \A s \in Slot, f \in Field : ring'[s][f] = Nth(AgeOf(s))'
    BY <1>1, <2>3, <2>5 DEF Nth, AgeOf
  <2> QED
    BY <2>5, <2>6, <2>7 DEF SerialInv
<1>5. ASSUME Recording(c)
      PROVE  /\ \A d \in CPU \ {c} : ~Recording(d)
             /\ Len(calls) = done + 1 /\ call[c] = done + 1 /\ slot[c] = index
             /\ pc[c] = "store" => tmp[c] = index
             /\ \A d \in CPU \ {c}, f \in Field : ~Stored(d, f)
  BY <1>1, <1>3, <1>5 DEF Exclusive
<1>6. CASE StoreField(c)
  <2>1. Recording(c) /\ pc[c] \in Field
    BY <1>6 DEF StoreField, Recording, Field
  <2>2. /\ ring' = [ring EXCEPT ![index] = [@ EXCEPT ![pc[c]] = done + 1]]
        /\ pc' = [pc EXCEPT ![c] = AfterStore[pc[c]]]
        /\ UNCHANGED <<calls, call, slot, tmp, index, done>>
    BY <1>5, <1>6, <2>1 DEF StoreField
  <2>3. AfterStore[pc[c]] \in {"prev", "next", "load"}
    BY <2>1 DEF AfterStore, Field
  <2>4. \A d \in CPU : Recording(d)' <=> d = c
    BY <1>2, <1>5, <2>1, <2>2, <2>3 DEF Recording
  <2>5. Exclusive'
    BY <1>2, <1>5, <2>1, <2>2, <2>3, <2>4 DEF Exclusive, Idle
  <2>6. \A f \in Field : Stored(c, f)' <=> Stored(c, f) \/ f = pc[c]
    <3>1. pc'[c] = AfterStore[pc[c]]
      BY <1>2, <2>2
    <3>2. CASE pc[c] = "cpu"
      BY <3>1, <3>2, StoredFields, StoredFieldsPrimed DEF AfterStore, Field
    <3>3. CASE pc[c] = "prev"
      BY <3>1, <3>3, StoredFields, StoredFieldsPrimed DEF AfterStore, Field
    <3>4. CASE pc[c] = "next"
      BY <3>1, <3>4, StoredFields, StoredFieldsPrimed DEF AfterStore, Field
    <3> QED
      BY <2>1, <3>2, <3>3, <3>4 DEF Field
  <2>7. \A d \in CPU \ {c}, f \in Field : ~Stored(d, f)'
    BY <1>2, <2>2, <2>4, StoredFieldsPrimed DEF Recording
  <2>8. \A s \in Slot, f \in Field :
          ring'[s][f] = IF s = index /\ f = pc[c] THEN done + 1 ELSE ring[s][f]
    BY <1>2, <2>1, <2>2 DEF Cell
  <2>9. \A s \in Slot : Nth(AgeOf(s))' = Nth(AgeOf(s))
    BY <2>2 DEF Nth, AgeOf
  <2>10. \A s \in Slot, f \in Field :
           ring'[s][f] = IF s = index' /\ \E d \in CPU : Stored(d, f)'
                           THEN done' + 1 ELSE Nth(AgeOf(s))'
    BY <1>1, <1>5, <2>1, <2>2, <2>6, <2>7, <2>8, <2>9
  <2> QED
    BY <2>5, <2>10 DEF SerialInv
<1>7. CASE LoadIndex(c)
  <2>1. Recording(c) /\ pc[c] = "load"
    BY <1>7 DEF LoadIndex, Recording
  <2>2. /\ tmp' = [tmp EXCEPT ![c] = index]
        /\ pc' = [pc EXCEPT ![c] = "store"]
        /\ UNCHANGED <<calls, call, slot, ring, index, done>>
    BY <1>5, <1>7, <2>1 DEF LoadIndex
  <2>3. \A d \in CPU : Recording(d)' <=> d = c
    BY <1>2, <1>5, <2>1, <2>2 DEF Recording
  <2>4. Exclusive'
    BY <1>2, <1>5, <2>1, <2>2, <2>3 DEF Exclusive, Idle, RecorderTypeOK
  <2>5. \A f \in Field : Stored(c, f) /\ Stored(c, f)'
    BY <1>2, <2>1, <2>2, StoredFields, StoredFieldsPrimed
  <2>6. \A s \in Slot : Nth(AgeOf(s))' = Nth(AgeOf(s))
    BY <2>2 DEF Nth, AgeOf
  <2>7. \A d \in CPU \ {c}, f \in Field : ~Stored(d, f)'
    BY <1>2, <2>3, StoredFieldsPrimed DEF Recording
  <2> QED
    BY <1>1, <2>2, <2>4, <2>5, <2>6, <2>7 DEF SerialInv
<1>8. CASE StoreIndex(c)
  <2>1. Recording(c) /\ pc[c] = "store"
    BY <1>8 DEF StoreIndex, NextIndex, Recording
  <2>2. /\ index' = (index + 1) % N /\ done' = done + 1
        /\ pc' = [pc EXCEPT ![c] = "run"]
        /\ UNCHANGED <<calls, ring>>
    BY <1>5, <1>8, <2>1 DEF StoreIndex, NextIndex
  <2>3. \A d \in CPU : ~Recording(d)'
    BY <1>2, <1>5, <2>1, <2>2 DEF Recording
  <2>4. Exclusive'
    BY <1>5, <2>1, <2>2, <2>3 DEF Exclusive, Idle
  <2>5. \A d \in CPU, f \in Field : ~Stored(d, f)'
    BY <1>2, <2>3, StoredFieldsPrimed DEF Recording
  <2>6. \A f \in Field : Stored(c, f)
    BY <2>1, StoredFields
  <2>7. \A s \in Slot, f \in Field : ring'[s][f] = Nth(AgeOf(s))'
    <3> TAKE s \in Slot, f \in Field
    <3>1. /\ AgeOf(s) \in 1 .. N
          /\ AgeOf(s)' = IF s = index THEN 1 ELSE AgeOf(s) + 1
      BY <1>2, <2>2, AgeShift
    <3>2. CASE s = index
      BY <1>1, <1>2, <2>2, <2>6, <3>1, <3>2 DEF Nth
    <3>3. CASE s # index
      BY <1>1, <1>2, <2>2, <3>1, <3>3, NAssumption DEF Nth
    <3> QED
      BY <3>2, <3>3
  <2> QED
    BY <2>4, <2>5, <2>7 DEF SerialInv
<1> QED
  BY <1>4, <1>6, <1>7, <1>8 DEF Record

LEMMA StutterKeepsSerial == SerialInv /\ UNCHANGED recVars => SerialInv'
<1> SUFFICES ASSUME SerialInv, UNCHANGED recVars PROVE SerialInv'
  OBVIOUS
<1>1. /\ raced' = raced /\ index' = index /\ done' = done /\ ring' = ring
      /\ Exclusive' = Exclusive
  BY DEF recVars, Exclusive, Idle, Recording
<1>2. \A c \in CPU, f \in Field : Stored(c, f)' = Stored(c, f)
  BY DEF recVars, Stored
<1>3. \A s \in Slot : Nth(AgeOf(s))' = Nth(AgeOf(s))
  BY <1>1 DEF Nth, AgeOf
<1> QED
  BY <1>1, <1>2, <1>3 DEF SerialInv

(* As long as one CPU at a time records, the ring is the last N calls,     *)
(* whatever the number of slots, CPUs and calls.                           *)
THEOREM SerialRing == Spec => []SerialInv
<1>1. TypeInv /\ SerialInv /\ [Next]_vars => SerialInv'
  BY NextSplit, RecordKeepsSerial, ReaderKeepsRecorder, StutterKeepsSerial DEF vars
<1> QED
  BY <1>1, InitSerial, TypeCorrect, PTL DEF Spec

COROLLARY RingHolds == Spec => []RingHoldsLastCalls
<1>1. SerialInv => RingHoldsLastCalls
  BY StoredFields DEF SerialInv, RingHoldsLastCalls, Idle, Recording
<1> QED
  BY <1>1, SerialRing, PTL

-----------------------------------------------------------------------------
(* What show prints while one CPU at a time records. *)

(* Under SerialInv no field is newer than the last call, and the field at  *)
(* the slot k steps after the index is at most N - k calls old.            *)
LEMMA FieldBounds ==
  ASSUME TypeInv, SerialInv, ~raced, NEW f \in Field
  PROVE  /\ done \in Nat /\ Len(calls) \in Nat /\ done <= Len(calls)
         /\ \A s \in Slot : ring[s][f] \in Nat /\ ring[s][f] <= Len(calls)
         /\ \A k \in 0 .. N - 1 : ring[(index + k) % N][f] + N >= done + k + 1
<1>1. /\ done \in Nat /\ Len(calls) \in Nat /\ index \in Slot
      /\ ring \in [Slot -> Cell]
  BY DEF TypeInv, TypeOK, RecorderTypeOK
<1>2. /\ done <= Len(calls)
      /\ \A c \in CPU : Stored(c, f) => done + 1 <= Len(calls)
  BY <1>1, StoredFields DEF SerialInv, Exclusive, Idle, Recording
<1>3. \A s \in Slot : AgeOf(s) \in 1 .. N /\ Nth(AgeOf(s)) <= done
  BY <1>1, NAssumption DEF AgeOf, Nth, Slot
<1>4. \A s \in Slot : ring[s][f] \in Nat /\ ring[s][f] <= Len(calls)
  BY <1>1, <1>2, <1>3 DEF SerialInv, Cell
<1>5. ASSUME NEW k \in 0 .. N - 1
      PROVE  ring[(index + k) % N][f] + N >= done + k + 1
  <2> DEFINE s == (index + k) % N
  <2>1. k \in 0 .. N
    BY NAssumption
  <2>2. s \in Slot /\ s = IF index + k < N THEN index + k ELSE index + k - N
    BY <1>1, <2>1, Wrap
  <2> HIDE DEF s
  <2>3. AgeOf(s) = N - k
    BY <1>1, <2>2, NAssumption DEF AgeOf, Slot
  <2>4. ring[s][f] = done + 1 \/ ring[s][f] = Nth(N - k)
    BY <2>2, <2>3 DEF SerialInv
  <2>5. ring[s][f] + N >= done + k + 1
    BY <1>1, <2>4, NAssumption DEF Nth
  <2> QED
    BY <2>5 DEF s
<1> QED
  BY <1>1, <1>2, <1>4, <1>5

LEMMA RecordKeepsShow ==
  ASSUME TypeInv, SerialInv, SerialInv', TypeInv', ShowInv, NEW c \in CPU, Record(c)
  PROVE  ShowInv'
<1> SUFFICES ASSUME ~raced' PROVE ShowInv'
  BY DEF ShowInv
<1>1. ~raced
  BY DEF Record, PickNext, StoreField, LoadIndex, StoreIndex, NextIndex, TypeInv, TypeOK, RecorderTypeOK
<1>2. UNCHANGED showVars
  BY DEF Record, PickNext, StoreField, LoadIndex, StoreIndex, NextIndex
<1>3. done' \in Nat /\ done \in Nat /\ done <= done'
  BY DEF Record, PickNext, StoreField, LoadIndex, StoreIndex, NextIndex, TypeInv, TypeOK, RecorderTypeOK
<1>4. Len(calls) \in Nat /\ Len(calls') \in Nat /\ Len(calls) <= Len(calls')
  <2>1. calls' = calls \/ \E x : calls' = Append(calls, x)
    BY DEF Record, PickNext, StoreField, LoadIndex, StoreIndex, NextIndex
  <2> QED
    BY <2>1 DEF TypeInv, TypeOK, RecorderTypeOK
<1>5. base \in Nat /\ i \in 0 .. N /\ N \in Nat /\ rslot \in Slot
      /\ out \in Seq(Cell) /\ line \in Cell
  BY NAssumption DEF TypeInv, TypeOK, ReaderTypeOK
<1>6. \A s \in Slot, f \in Field : ring'[s][f] = ring[s][f] \/ ring'[s][f] = done + 1
  <2>1. CASE StoreField(c)
    <3>1. call[c] = done + 1 /\ slot[c] \in Slot
      BY <1>1, <2>1 DEF SerialInv, Exclusive, StoreField, Recording, Field,
                        TypeInv, TypeOK, RecorderTypeOK
    <3> QED
      BY <2>1, <3>1 DEF StoreField, TypeInv, TypeOK, RecorderTypeOK, Cell
  <2>2. CASE ~StoreField(c)
    BY <2>2 DEF Record, PickNext, LoadIndex, StoreIndex, NextIndex
  <2> QED
    BY <2>1, <2>2
<1>7. base <= done /\ (InShow => Len(out) = i)
  BY <1>1 DEF ShowInv
<1>8. \A k \in 1 .. Len(out), f \in Field :
        out[k][f] + N >= base + k /\ out[k][f] <= Len(calls')
  <2> TAKE k \in 1 .. Len(out), f \in Field
  <2>1. out[k][f] \in Nat
    BY <1>5 DEF Cell
  <2> QED
    BY <1>1, <1>4, <2>1 DEF ShowInv
<1>9. \A f \in Printed : line[f] + N >= base + i + 1 /\ line[f] <= Len(calls')
  <2> TAKE f \in Printed
  <2>1. line[f] \in Nat
    BY <1>5 DEF Printed, Cell, Field
  <2> QED
    BY <1>1, <1>4, <2>1 DEF ShowInv
<1>10. ASSUME rd \in Field, NEW f \in Field
       PROVE  ring'[rslot][f] + N >= base + i + 1
  <2>1. i < N
    BY <1>10 DEF TypeInv, LoopInv
  <2>2. ring[rslot][f] + N >= base + i + 1
    BY <1>1, <1>10 DEF ShowInv
  <2> QED
    BY <1>3, <1>5, <1>6, <1>7, <2>1, <2>2
<1>11. /\ base' = base /\ out' = out /\ i' = i /\ line' = line /\ rslot' = rslot
       /\ rd' = rd /\ Printed' = Printed /\ InShow' = InShow
  BY <1>2 DEF showVars, Printed, InShow
<1>12. base' <= done'
  BY <1>3, <1>5, <1>7, <1>11
<1> QED
  BY <1>7, <1>8, <1>9, <1>10, <1>11, <1>12 DEF ShowInv

LEMMA ReaderKeepsShow ==
  ASSUME TypeInv, SerialInv, ShowInv, ReaderOrModule
  PROVE  ShowInv'
<1> SUFFICES ASSUME ~raced' PROVE ShowInv'
  BY DEF ShowInv
<1>1. UNCHANGED recVars
  BY ReaderKeepsRecorder
<1>2. ~raced
  BY <1>1 DEF recVars
<1>3. /\ base <= done /\ (InShow => Len(out) = i)
      /\ \A k \in 1 .. Len(out), f \in Field :
           out[k][f] + N >= base + k /\ out[k][f] <= Len(calls)
      /\ \A f \in Printed :
           line[f] + N >= base + i + 1 /\ line[f] <= Len(calls)
      /\ rd \in Field => \A f \in Field : ring[rslot][f] + N >= base + i + 1
  BY <1>2 DEF ShowInv
<1>4. /\ base \in Nat /\ i \in 0 .. N /\ N \in Nat /\ rslot \in Slot /\ index \in Slot
      /\ done \in Nat /\ out \in Seq(Cell) /\ line \in Cell /\ ring \in [Slot -> Cell]
  BY NAssumption DEF TypeInv, TypeOK, RecorderTypeOK, ReaderTypeOK
<1>5. calls' = calls /\ done' = done /\ ring' = ring
  BY <1>1 DEF recVars
<1>6. CASE Open
  BY <1>3, <1>5, <1>6 DEF Open, ShowInv, InShow, Printed, Field
<1>7. CASE StartShow
  BY <1>4, <1>5, <1>7 DEF StartShow, ShowInv, InShow, Printed, Field
<1>8. CASE ReadIndex
  <2>1. /\ rd' = "cpu" /\ rslot' = (index + i) % N
        /\ UNCHANGED <<i, out, line, base>> /\ i \in 0 .. N - 1
        /\ Len(out) = i
    BY <1>3, <1>4, <1>8 DEF ReadIndex, EntrySlot, InShow
  <2>2. \A f \in Field : ring[rslot'][f] + N >= base + i + 1
    <3> TAKE f \in Field
    <3>1. ring[rslot'][f] + N >= done + i + 1
      BY <1>2, <2>1, FieldBounds
    <3>2. rslot' \in Slot
      BY <1>4, <2>1, Wrap
    <3> QED
      BY <1>3, <1>4, <3>1, <3>2 DEF Cell
  <2> QED
    BY <1>3, <1>5, <2>1, <2>2 DEF ShowInv, Printed, Field
<1>9. CASE ReadField
  <2> DEFINE v == ring[rslot][rd]
             new == [line EXCEPT ![rd] = v]
  <2>1. rd \in Field /\ UNCHANGED <<rslot, base>> /\ Len(out) = i
    BY <1>3, <1>9 DEF ReadField, InShow
  <2>2. v \in Nat /\ v + N >= base + i + 1 /\ v <= Len(calls)
    BY <1>2, <1>3, <1>4, <2>1, FieldBounds
  <2>3. new \in Cell /\ \A f \in Field : new[f] = IF f = rd THEN v ELSE line[f]
    BY <1>4, <2>1, <2>2 DEF Cell
  <2>4. \A f \in Printed \cup {rd} :
          new[f] + N >= base + i + 1 /\ new[f] <= Len(calls)
    BY <1>3, <2>1, <2>2, <2>3 DEF Printed, Field
  <2> HIDE DEF v, new
  <2>5. CASE rd = "next"
    <3>1. out' = Append(out, new) /\ i' = i + 1 /\ rd' = "index"
      BY <1>9, <2>5 DEF ReadField, new, v
    <3>2. /\ Len(out') = i + 1 /\ out'[i + 1] = new
          /\ \A k \in 1 .. i : out'[k] = out[k]
      BY <1>4, <2>1, <2>3, <3>1
    <3>3. \A f \in Field : new[f] + N >= base + i + 1 /\ new[f] <= Len(calls)
      BY <2>4, <2>5 DEF Printed, Field
    <3>4. \A k \in 1 .. Len(out'), f \in Field :
            out'[k][f] + N >= base + k /\ out'[k][f] <= Len(calls)
      <4> TAKE k \in 1 .. Len(out'), f \in Field
      <4>1. k \in 1 .. i \/ k = i + 1
        BY <1>4, <3>2
      <4>2. CASE k \in 1 .. i
        <5>1. out'[k] = out[k] /\ k \in 1 .. Len(out)
          BY <2>1, <3>2, <4>2
        <5> QED
          BY <1>3, <5>1
      <4>3. CASE k = i + 1
        <5>1. out'[k] = new /\ base + k = base + i + 1
          BY <1>4, <3>2, <4>3
        <5> QED
          BY <3>3, <5>1
      <4> QED
        BY <4>1, <4>2, <4>3
    <3> QED
      BY <1>3, <1>5, <2>1, <3>1, <3>2, <3>4 DEF ShowInv, Printed, Field
  <2>6. CASE rd # "next"
    <3>1. line' = new /\ rd' = AfterStore[rd] /\ UNCHANGED <<i, out>>
      BY <1>9, <2>6 DEF ReadField, new, v
    <3>2. Printed' = Printed \cup {rd} /\ rd' \in Field
      BY <2>1, <2>6, <3>1 DEF Printed, AfterStore, Field
    <3> QED
      BY <1>3, <1>5, <2>1, <2>4, <3>1, <3>2 DEF ShowInv
  <2> QED
    BY <2>5, <2>6
<1>10. CASE FinishShow
  <2>1. CASE room < N
    BY <1>4, <1>5, <1>10, <2>1 DEF FinishShow, GrownRoom, ShowInv, InShow, Printed, Field
  <2>2. CASE ~(room < N)
    BY <1>3, <1>5, <1>10, <2>2 DEF FinishShow, GrownRoom, ShowInv, InShow, Printed, Field
  <2> QED
    BY <2>1, <2>2
<1>11. CASE Close \/ ModuleExited
  BY <1>4, <1>5, <1>11 DEF Close, ModuleExited, Release, ShowInv, InShow, Printed, Field
<1>12. CASE ModuleInit \/ ModuleExit
  BY <1>3, <1>5, <1>12
     DEF ModuleInit, ModuleExit, showVars, ShowInv, InShow, Printed
<1> QED
  BY <1>6, <1>7, <1>8, <1>9, <1>10, <1>11, <1>12 DEF ReaderOrModule, Show

LEMMA InitShow == Init => ShowInv
BY DEF Init, ShowInv, InShow, Printed, Field

LEMMA StutterKeepsShow == ShowInv /\ UNCHANGED vars => ShowInv'
BY DEF ShowInv, InShow, Printed, vars, recVars, showVars

THEOREM ShowBounded == Spec => []ShowInv
<1>1. /\ TypeInv /\ SerialInv /\ ShowInv /\ TypeInv' /\ SerialInv' /\ [Next]_vars
      => ShowInv'
  BY NextSplit, RecordKeepsShow, ReaderKeepsShow, StutterKeepsShow
<1> QED
  BY <1>1, InitShow, TypeCorrect, SerialRing, PTL DEF Spec

(* While one CPU at a time records, /proc/hw1 shows nothing older than the *)
(* ring of the moment the show began.                                      *)
COROLLARY ShowNotStale == Spec => []ShowIsNotStale
<1>1. ShowInv => ShowIsNotStale
  BY DEF ShowInv, ShowIsNotStale
<1> QED
  BY <1>1, ShowBounded, PTL

-----------------------------------------------------------------------------
(* The inductive form of QuietShowIsLog: as long as no call has been made  *)
(* since this run of show began, what is printed so far, the fields of the *)
(* entry under way and the slot they come from are those of the log.       *)
Quiet == ~raced /\ base = Len(calls)

QuietInv ==
  Quiet =>
    /\ rd = "closed" => out = <<>>
    /\ rd = "open" /\ i = N => out = <<>> \/ Len(out) = N
    /\ \A k \in 1 .. Len(out), f \in Field : out[k][f] = Nth(N + 1 - k)
    /\ \A f \in Printed : line[f] = Nth(N - i)
    /\ rd \in Field => rslot = EntrySlot(i)

(* While it is quiet no CPU is recording, and every slot holds the call of *)
(* its age; the i-th entry that show prints is N - i old.                  *)
LEMMA QuietRing ==
  ASSUME TypeInv, SerialInv, ShowInv, Quiet
  PROVE  /\ Idle /\ base = done
         /\ \A k \in 0 .. N - 1, f \in Field : ring[EntrySlot(k)][f] = Nth(N - k)
<1>1. base <= done /\ Exclusive
  BY DEF ShowInv, SerialInv, Quiet
<1>2. done \in Nat /\ base \in Nat /\ Len(calls) = base /\ index \in Slot
  <2>1. done \in Nat /\ index \in Slot
    BY DEF TypeInv, TypeOK, RecorderTypeOK
  <2>2. base \in Nat
    BY DEF TypeInv, TypeOK, ReaderTypeOK
  <2> QED
    BY <2>1, <2>2 DEF Quiet
<1>3. Idle
  <2>1. \A c \in CPU : Recording(c) => Len(calls) = done + 1
    BY <1>1 DEF Exclusive
  <2>2. Len(calls) # done + 1
    BY <1>1, <1>2
  <2> QED
    BY <2>1, <2>2 DEF Idle
<1>4. base = done
  BY <1>1, <1>2, <1>3 DEF Exclusive
<1>5. ASSUME NEW k \in 0 .. N - 1, NEW f \in Field
      PROVE  ring[EntrySlot(k)][f] = Nth(N - k)
  <2> DEFINE s == EntrySlot(k)
  <2>1. k \in 0 .. N /\ N \in Nat /\ k \in Nat /\ index \in 0 .. N - 1
    BY <1>2, NAssumption DEF Slot
  <2>2. s = (IF index + k < N THEN index + k ELSE index + k - N) /\ s \in Slot
    BY <1>2, <2>1, Wrap DEF EntrySlot
  <2> HIDE DEF s
  <2>3. AgeOf(s) = N - k
    BY <2>1, <2>2 DEF AgeOf
  <2>4. ~\E c \in CPU : Stored(c, f)
    <3> SUFFICES ASSUME NEW c \in CPU PROVE ~Stored(c, f)
      OBVIOUS
    <3>1. pc[c] = "run"
      BY <1>3 DEF Idle, Recording
    <3> QED
      BY <3>1 DEF Stored, Field
  <2>5. ring[s][f] = Nth(AgeOf(s))
    BY <2>2, <2>4 DEF SerialInv, Quiet
  <2> QED
    BY <2>3, <2>5 DEF s
<1> QED
  BY <1>3, <1>4, <1>5

LEMMA RecordKeepsQuiet ==
  ASSUME TypeInv, SerialInv, ShowInv, QuietInv, NEW c \in CPU, Record(c)
  PROVE  QuietInv'
<1> SUFFICES ASSUME Quiet' PROVE FALSE
  BY DEF QuietInv
<1>1. UNCHANGED base /\ ~raced
  BY DEF Record, PickNext, StoreField, LoadIndex, StoreIndex, NextIndex, showVars, Quiet,
         TypeInv, TypeOK, RecorderTypeOK
<1>2. base <= done /\ Exclusive
  BY <1>1 DEF ShowInv, SerialInv
<1>3. calls \in Seq(Call) /\ done \in Nat /\ base \in Nat
  BY DEF TypeInv, TypeOK, RecorderTypeOK, ReaderTypeOK
<1>4. CASE PickNext(c)
  <2>1. Len(calls') = Len(calls) + 1 /\ Len(calls) \in Nat
    <3>1. PICK t \in Task :
            calls' = Append(calls, [cpu |-> c, prev |-> curr[c], next |-> t])
      BY <1>4 DEF PickNext
    <3> QED
      BY <1>3, <3>1
  <2>2. ~raced' => Idle
    BY <1>4 DEF PickNext, Idle
  <2>3. Len(calls) = done
    <3>1. Idle
      BY <2>2 DEF Quiet
    <3> QED
      BY <1>2, <3>1 DEF Exclusive
  <2>4. base' = Len(calls')
    BY DEF Quiet
  <2>5. base = done + 1
    BY <1>1, <2>1, <2>3, <2>4
  <2> QED
    BY <1>2, <1>3, <2>5
<1>5. CASE ~PickNext(c)
  <2>1. Recording(c) /\ UNCHANGED calls
    BY <1>5 DEF Record, StoreField, LoadIndex, StoreIndex, NextIndex, Recording, Field
  <2>2. Quiet
    BY <1>1, <2>1 DEF Quiet
  <2> QED
    BY <2>1, <2>2, QuietRing DEF Idle
<1> QED
  BY <1>4, <1>5

LEMMA ReaderKeepsQuiet ==
  ASSUME TypeInv, SerialInv, ShowInv, QuietInv, ReaderOrModule
  PROVE  QuietInv'
<1>1. UNCHANGED recVars
  BY ReaderKeepsRecorder
<1>2. \A a : Nth(a)' = Nth(a)
  BY <1>1 DEF Nth, recVars
<1>3. \A k : EntrySlot(k)' = EntrySlot(k)
  BY <1>1 DEF EntrySlot, recVars
<1> SUFFICES ASSUME Quiet'
             PROVE  /\ rd' = "closed" => out' = <<>>
                    /\ rd' = "open" /\ i' = N => out' = <<>> \/ Len(out') = N
                    /\ \A k \in 1 .. Len(out'), f \in Field :
                         out'[k][f] = Nth(N + 1 - k)
                    /\ \A f \in Printed' : line'[f] = Nth(N - i')
                    /\ rd' \in Field => rslot' = EntrySlot(i')
  BY <1>2, <1>3 DEF QuietInv
<1>4. /\ i \in 0 .. N /\ N \in Nat \ {0} /\ out \in Seq(Cell) /\ line \in Cell
      /\ ring \in [Slot -> Cell] /\ rslot \in Slot
  BY NAssumption DEF TypeInv, TypeOK, RecorderTypeOK, ReaderTypeOK
<1>5. CASE UNCHANGED base
  <2>1. Quiet /\ ~raced
    BY <1>1, <1>5 DEF Quiet, recVars
  <2>2. /\ rd = "closed" => out = <<>>
        /\ rd = "open" /\ i = N => out = <<>> \/ Len(out) = N
        /\ \A k \in 1 .. Len(out), f \in Field : out[k][f] = Nth(N + 1 - k)
        /\ \A f \in Printed : line[f] = Nth(N - i)
        /\ rd \in Field => rslot = EntrySlot(i)
        /\ InShow => Len(out) = i
    BY <2>1 DEF QuietInv, ShowInv
  <2>3. \A k \in 0 .. N - 1, f \in Field : ring[EntrySlot(k)][f] = Nth(N - k)
    BY <2>1, QuietRing
  <2>4. CASE Open
    BY <1>4, <2>2, <2>4 DEF Open, Printed, Field, TypeInv
  <2>5. CASE ReadIndex
    BY <2>2, <2>5 DEF ReadIndex, Printed, Field
  <2>6. CASE ReadField
    <3>1. rd \in Field /\ i \in 0 .. N - 1 /\ rslot = EntrySlot(i) /\ Len(out) = i
      BY <1>4, <2>2, <2>6 DEF ReadField, InShow, TypeInv, LoopInv
    <3> DEFINE new == [line EXCEPT ![rd] = ring[rslot][rd]]
    <3>2. new \in Cell /\ \A f \in Field : new[f] = IF f = rd THEN ring[rslot][rd] ELSE line[f]
      BY <1>4, <3>1 DEF Cell
    <3>3. \A f \in Printed \cup {rd} : new[f] = Nth(N - i)
      BY <2>2, <2>3, <3>1, <3>2 DEF Printed, Field
    <3> HIDE DEF new
    <3>4. CASE rd = "next"
      <4>1. out' = Append(out, new) /\ i' = i + 1 /\ rd' = "index"
        BY <2>6, <3>4 DEF ReadField, new
      <4>2. \A f \in Field : new[f] = Nth(N - i)
        BY <3>3, <3>4 DEF Printed, Field
      <4>3. /\ Len(out') = i + 1 /\ out'[i + 1] = new
            /\ \A k \in 1 .. i : out'[k] = out[k]
        BY <1>4, <3>1, <3>2, <4>1
      <4>4. \A k \in 1 .. Len(out'), f \in Field : out'[k][f] = Nth(N + 1 - k)
        <5> TAKE k \in 1 .. Len(out'), f \in Field
        <5>1. CASE k \in 1 .. i
          BY <2>2, <3>1, <4>3, <5>1
        <5>2. CASE k = i + 1
          <6>1. N + 1 - k = N - i
            BY <1>4, <5>2
          <6> QED
            BY <4>2, <4>3, <5>2, <6>1
        <5> QED
          BY <1>4, <4>3, <5>1, <5>2
      <4> QED
        BY <4>1, <4>4 DEF Printed, Field
    <3>5. CASE rd # "next"
      <4>1. line' = new /\ rd' = AfterStore[rd] /\ UNCHANGED <<i, out, rslot>>
        BY <2>6, <3>5 DEF ReadField, new
      <4>2. Printed' = Printed \cup {rd} /\ rd' \in Field
        BY <3>1, <3>5, <4>1 DEF Printed, AfterStore, Field
      <4> QED
        BY <2>2, <3>1, <3>3, <4>1, <4>2 DEF Field
    <3> QED
      BY <3>4, <3>5
  <2>7. CASE FinishShow
    <3>1. CASE room < N
      BY <1>4, <2>7, <3>1 DEF FinishShow, Printed, Field
    <3>2. CASE ~(room < N)
      BY <1>4, <2>2, <2>7, <3>2 DEF FinishShow, InShow, Printed, Field
    <3> QED
      BY <3>1, <3>2
  <2>8. CASE StartShow
    BY <1>4, <2>8 DEF StartShow, Printed, Field
  <2>9. CASE Close \/ ModuleExited
    BY <1>4, <2>9 DEF Close, ModuleExited, Release, Printed, Field
  <2>10. CASE ModuleInit \/ ModuleExit
    BY <2>2, <2>10 DEF ModuleInit, ModuleExit, showVars, Printed
  <2> QED
    BY <2>4, <2>5, <2>6, <2>7, <2>8, <2>9, <2>10 DEF ReaderOrModule, Show
<1>6. CASE ~UNCHANGED base
  <2>1. StartShow \/ FinishShow \/ Close \/ ModuleExited
    BY <1>6 DEF ReaderOrModule, Show, Open, ReadIndex, ReadField, ModuleInit, ModuleExit,
                showVars
  <2>2. out' = <<>> /\ rd' \notin Field /\ (rd' = "index" \/ i' = 0)
    BY <1>6, <2>1 DEF StartShow, FinishShow, Close, ModuleExited, Release, Field
  <2>3. Printed' = {}
    BY <2>2 DEF Printed, Field
  <2> QED
    BY <1>4, <2>2, <2>3
<1> QED
  BY <1>5, <1>6

LEMMA QuietHolds == Spec => []QuietInv
<1>1. Init => QuietInv
  BY NAssumption DEF Init, QuietInv, Printed, Field
<1>2. QuietInv /\ UNCHANGED vars => QuietInv'
  BY DEF QuietInv, Quiet, Printed, Nth, EntrySlot, vars, recVars, showVars
<1>3. TypeInv /\ SerialInv /\ ShowInv /\ QuietInv /\ [Next]_vars => QuietInv'
  BY <1>2, NextSplit, RecordKeepsQuiet, ReaderKeepsQuiet
<1> QED
  BY <1>1, <1>3, TypeCorrect, SerialRing, ShowBounded, PTL DEF Spec

(* A show during which no CPU records prints the last N calls, oldest      *)
(* first, however often seq_file ran it before the buffer was large enough. *)
THEOREM QuietShowHolds == Spec => []QuietShowIsLog
<1>1. TypeInv /\ ShowInv /\ QuietInv => QuietShowIsLog
  <2> SUFFICES ASSUME TypeInv, ShowInv, QuietInv, ~raced, rd \in {"index", "open"}, i = N,
                      out # <<>>, base = Len(calls)
               PROVE  /\ Len(out) = N
                      /\ \A k \in 1 .. N, f \in Field : out[k][f] = Nth(N + 1 - k)
    BY DEF QuietShowIsLog
  <2>1. Len(out) = N
    BY DEF QuietInv, Quiet, ShowInv, InShow
  <2> QED
    BY <2>1 DEF QuietInv, Quiet
<1> QED
  BY <1>1, QuietHolds, TypeCorrect, ShowBounded, PTL

-----------------------------------------------------------------------------
(* Until two CPUs record at once the tracer implements ScheduleLog, and so *)
(* inherits the chain that the report reads off its output.                *)

(* A recorder's call in the history is its own. *)
OwnCallInv ==
  \A c \in CPU : Recording(c) =>
    calls[call[c]].cpu = c /\ calls[call[c]].prev = curr[c]

LEMMA RecordKeepsOwnCalls ==
  ASSUME TypeInv, OwnCallInv, NEW c \in CPU, Record(c)
  PROVE  OwnCallInv'
<1>1. /\ calls \in Seq(Call) /\ pc \in [CPU -> {"run", "load", "store"} \cup Field]
      /\ curr \in [CPU -> Task] /\ call \in [CPU -> Nat] /\ CallInv
  BY DEF TypeInv, TypeOK, RecorderTypeOK
<1>2. CASE PickNext(c)
  <2>1. PICK t \in Task : calls' = Append(calls, [cpu |-> c, prev |-> curr[c], next |-> t])
    BY <1>2 DEF PickNext
  <2>2. [cpu |-> c, prev |-> curr[c], next |-> t] \in Call
    BY <1>1 DEF Call
  <2>3. /\ calls'[Len(calls) + 1] = [cpu |-> c, prev |-> curr[c], next |-> t]
        /\ \A k \in 1 .. Len(calls) : calls'[k] = calls[k]
    BY <1>1, <2>1, <2>2
  <2>4. \A d \in CPU \ {c} : Recording(d)' => Recording(d) /\ call'[d] = call[d]
    BY <1>1, <1>2 DEF PickNext, Recording
  <2>5. call'[c] = Len(calls) + 1 /\ UNCHANGED curr
    BY <1>1, <1>2 DEF PickNext
  <2>6. ASSUME NEW d \in CPU \ {c}, Recording(d)'
        PROVE  calls'[call'[d]].cpu = d /\ calls'[call'[d]].prev = curr'[d]
    BY <1>1, <2>3, <2>4, <2>5, <2>6 DEF OwnCallInv, CallInv
  <2>7. calls'[call'[c]].cpu = c /\ calls'[call'[c]].prev = curr'[c]
    BY <2>3, <2>5
  <2> QED
    BY <2>6, <2>7 DEF OwnCallInv
<1>3. CASE StoreField(c) \/ LoadIndex(c)
  <2>1. /\ UNCHANGED <<calls, call, curr>> /\ \A d \in CPU : Recording(d)' => Recording(d)
    BY <1>1, <1>3 DEF StoreField, LoadIndex, Recording, Field
  <2> QED
    BY <2>1 DEF OwnCallInv
<1>4. CASE StoreIndex(c)
  <2>1. /\ UNCHANGED calls /\ ~Recording(c)'
        /\ \A d \in CPU \ {c} : /\ Recording(d)' => Recording(d)
                                /\ call'[d] = call[d] /\ curr'[d] = curr[d]
    BY <1>1, <1>4 DEF StoreIndex, NextIndex, Recording
  <2> QED
    BY <2>1 DEF OwnCallInv
<1> QED
  BY <1>2, <1>3, <1>4 DEF Record

LEMMA OwnCalls == Spec => []OwnCallInv
<1>1. Init => OwnCallInv
  BY DEF Init, OwnCallInv, Recording
<1>2. OwnCallInv /\ UNCHANGED recVars => OwnCallInv'
  BY DEF OwnCallInv, Recording, recVars
<1>3. TypeInv /\ OwnCallInv /\ [Next]_vars => OwnCallInv'
  BY <1>2, NextSplit, RecordKeepsOwnCalls, ReaderKeepsRecorder DEF vars
<1> QED
  BY <1>1, <1>3, TypeCorrect, PTL DEF Spec

-----------------------------------------------------------------------------
MappedLog == [a \in 1 .. N - 1 |-> SwitchIn(SlotOfAge(a))]

(* The slots of the log are the slots other than the index. *)
LEMMA LogSlots ==
  ASSUME index \in Slot, NEW a \in 1 .. N - 1
  PROVE  SlotOfAge(a) \in Slot /\ SlotOfAge(a) # index
BY NAssumption DEF SlotOfAge, Slot

(* Advancing the index puts the slot just written at age 1.                *)
LEMMA SlotShift ==
  ASSUME index \in Slot, index' = (index + 1) % N, NEW a \in 1 .. N - 1
  PROVE  SlotOfAge(a)' = IF a = 1 THEN index ELSE SlotOfAge(a - 1)
<1>1. 1 \in 0 .. N
  BY NAssumption
<1>2. index' = IF index + 1 < N THEN index + 1 ELSE index + 1 - N
  BY <1>1, Wrap
<1> QED
  BY <1>2, NAssumption DEF SlotOfAge, Slot

(* What a step of CPU c does to the log.                                   *)
LEMMA RecordMaps ==
  ASSUME TypeInv, SerialInv, OwnCallInv, NEW c \in CPU, Record(c), ~raced'
  PROVE  \/ curr' = curr /\ MappedLog' = MappedLog
         \/ \E t \in Task : 
              /\ curr' = [curr EXCEPT ![c] = t]
              /\ MappedLog' =
                   [a \in 1 .. N - 1 |->
                      IF a = 1 THEN [cpu |-> c, prev |-> curr[c], next |-> t]
                               ELSE MappedLog[a - 1]]
<1>1. ~raced
  BY DEF Record, PickNext, StoreField, LoadIndex, StoreIndex, NextIndex, TypeInv, TypeOK, RecorderTypeOK
<1>2. /\ calls \in Seq(Call) /\ ring \in [Slot -> Cell] /\ index \in Slot
      /\ done \in Nat /\ Len(calls) \in Nat /\ curr \in [CPU -> Task]
      /\ slot \in [CPU -> Slot] /\ CallInv
  BY DEF TypeInv, TypeOK, RecorderTypeOK
<1>3. CASE PickNext(c)
  <2>1. PICK x : calls' = Append(calls, x)
    BY <1>3 DEF PickNext
  <2>2. UNCHANGED <<curr, ring, index>>
    BY <1>3 DEF PickNext
  <2>3. /\ DOMAIN calls' = 1 .. Len(calls) + 1 /\ DOMAIN calls = 1 .. Len(calls)
        /\ \A k \in DOMAIN calls : calls'[k] = calls[k]
    BY <1>2, <2>1
  <2>4. \A s \in Slot, f \in Field : 
          ring[s][f] \in DOMAIN calls' <=> ring[s][f] \in DOMAIN calls
    BY <1>1, <1>2, <2>3, FieldBounds
  <2>5. \A s \in Slot : SwitchIn(s)' = SwitchIn(s)
    <3> TAKE s \in Slot
    <3>1. CASE \E f \in Field : ring[s][f] \notin DOMAIN calls
      BY <2>2, <2>4, <3>1 DEF SwitchIn
    <3>2. CASE \A f \in Field : ring[s][f] \in DOMAIN calls
      BY <2>2, <2>3, <2>4, <3>2 DEF SwitchIn, Field
    <3> QED
      BY <3>1, <3>2
  <2>6. \A a \in 1 .. N - 1 : SlotOfAge(a)' = SlotOfAge(a) /\ SlotOfAge(a) \in Slot
    BY <1>2, <2>2, LogSlots DEF SlotOfAge
  <2> QED
    BY <2>2, <2>5, <2>6 DEF MappedLog
<1>4. CASE StoreField(c)
  <2>1. UNCHANGED <<curr, calls, index>>
    BY <1>4 DEF StoreField
  <2>2. slot[c] = index
    BY <1>1, <1>4 DEF StoreField, SerialInv, Exclusive, Recording, Field
  <2>3. \A s \in Slot : s # index => ring'[s] = ring[s]
    BY <1>2, <1>4, <2>2 DEF StoreField
  <2>4. \A s \in Slot : s # index => SwitchIn(s)' = SwitchIn(s)
    BY <2>1, <2>3 DEF SwitchIn
  <2>5. \A a \in 1 .. N - 1 : /\ SlotOfAge(a)' = SlotOfAge(a)
                              /\ SlotOfAge(a) \in Slot /\ SlotOfAge(a) # index
    BY <1>2, <2>1, LogSlots DEF SlotOfAge
  <2> QED
    BY <2>1, <2>4, <2>5 DEF MappedLog
<1>5. CASE LoadIndex(c)
  BY <1>5 DEF LoadIndex, MappedLog, SwitchIn, SlotOfAge
<1>6. CASE StoreIndex(c)
  <2> DEFINE t == calls[call[c]].next
  <2>1. Recording(c) /\ pc[c] = "store"
    BY <1>6 DEF StoreIndex, NextIndex, Recording
  <2>2. call[c] = done + 1 /\ tmp[c] = index /\ call[c] \in DOMAIN calls
    BY <1>1, <1>2, <2>1 DEF SerialInv, Exclusive, CallInv
  <2>3. /\ index' = (index + 1) % N /\ curr' = [curr EXCEPT ![c] = t]
        /\ UNCHANGED <<calls, ring>>
    BY <1>6, <2>2 DEF StoreIndex, NextIndex
  <2>4. \A f \in Field : ring[index][f] = call[c]
    BY <1>1, <1>2, <2>1, <2>2, StoredFields DEF SerialInv
  <2>5. calls[call[c]] \in Call
    BY <1>2, <2>2
  <2>6. t \in Task /\ SwitchIn(index) = [cpu |-> c, prev |-> curr[c], next |-> t]
    <3>1. SwitchIn(index) = [cpu |-> calls[call[c]].cpu, prev |-> calls[call[c]].prev,
                             next |-> t]
      BY <2>2, <2>4 DEF SwitchIn, Field
    <3> QED
      BY <2>1, <2>5, <3>1 DEF OwnCallInv, Call
  <2> HIDE DEF t
  <2>7. \A s \in Slot : SwitchIn(s)' = SwitchIn(s)
    BY <2>3 DEF SwitchIn
  <2>8. ASSUME NEW a \in 1 .. N - 1
        PROVE  MappedLog'[a] = IF a = 1 THEN [cpu |-> c, prev |-> curr[c], next |-> t]
                                        ELSE MappedLog[a - 1]
    <3>1. SlotOfAge(a)' = IF a = 1 THEN index ELSE SlotOfAge(a - 1)
      BY <1>2, <2>3, SlotShift
    <3>2. MappedLog'[a] = SwitchIn(SlotOfAge(a))'
      BY DEF MappedLog
    <3>3. CASE a = 1
      BY <1>2, <2>6, <2>7, <3>1, <3>2, <3>3 DEF SwitchIn
    <3>4. CASE a # 1
      <4>1. a - 1 \in 1 .. N - 1
        BY <3>4, NAssumption
      <4>2. SlotOfAge(a - 1) \in Slot
        BY <1>2, <4>1, LogSlots
      <4>3. SwitchIn(SlotOfAge(a))' = SwitchIn(SlotOfAge(a - 1))
        BY <2>3, <3>1, <3>4 DEF SwitchIn
      <4> QED
        BY <3>2, <3>4, <4>1, <4>3 DEF MappedLog
    <3> QED
      BY <3>3, <3>4
  <2>9. MappedLog' = [a \in 1 .. N - 1 |-> MappedLog'[a]]
    BY DEF MappedLog
  <2> QED
    BY <2>3, <2>6, <2>8, <2>9
<1> QED
  BY <1>3, <1>4, <1>5, <1>6 DEF Record

-----------------------------------------------------------------------------
(* Every step of the tracer is a step of the abstract log, a stutter, or   *)
(* the first at which two CPUs are in the recording code.                  *)
LEMMA StepMaps ==
  ASSUME TypeInv, SerialInv, OwnCallInv, [Next]_vars
  PROVE  [raced' \/ Log!Next]_(Log!logVars)
<1>1. ASSUME NEW c \in CPU, Record(c), ~raced'
      PROVE  [Log!Next]_(Log!logVars)
  <2>1. CASE curr' = curr /\ MappedLog' = MappedLog
    BY <2>1 DEF Log!logVars, MappedLog
  <2>2. ASSUME NEW t \in Task, curr' = [curr EXCEPT ![c] = t],
               MappedLog' = [a \in 1 .. N - 1 |->
                  IF a = 1 THEN [cpu |-> c, prev |-> curr[c], next |-> t]
                           ELSE MappedLog[a - 1]]
        PROVE  Log!SwitchTo(c, t)
    BY <2>2 DEF Log!SwitchTo, Log!Age, MappedLog
  <2> QED
    BY <1>1, <2>1, <2>2, RecordMaps DEF Log!Next
<1>2. UNCHANGED recVars => UNCHANGED Log!logVars
  BY DEF recVars, Log!logVars, SwitchIn, SlotOfAge
<1> QED
  BY <1>1, <1>2, NextSplit, ReaderKeepsRecorder DEF vars

LEMMA InitMaps == Init => Log!Init
<1> SUFFICES ASSUME Init PROVE Log!Init
  OBVIOUS
<1>1. \A s \in Slot : SwitchIn(s) = None
  BY DEF Init, SwitchIn, Zero, Field
<1>2. \A a \in 1 .. N - 1 : SlotOfAge(a) \in Slot
  BY LogSlots, NAssumption DEF Init, Slot
<1> QED
  BY <1>1, <1>2 DEF Init, Log!Init, Log!Age

(* The tracer implements the log of context switches up to the first time  *)
(* two CPUs record at once, for any number of CPUs, tasks and slots.       *)
THEOREM ImplementsLog == Spec => LogUntilRace
<1>1. /\ TypeInv /\ SerialInv /\ OwnCallInv /\ [Next]_vars
      => [raced' \/ Log!Next]_(Log!logVars)
  BY StepMaps
<1> QED
  BY <1>1, InitMaps, TypeCorrect, SerialRing, OwnCalls, PTL DEF Spec, LogUntilRace

-----------------------------------------------------------------------------
(* The chain, of any log and of the log of the tracer.                     *)
Ages == 1 .. N - 1
Appended(log, new) == [a \in Ages |-> IF a = 1 THEN new ELSE log[a - 1]]
Owns(log, d, a) == log[a] # None /\ log[a].cpu = d

Chains(log, run) ==
  \A d \in CPU : \A b \in Ages : Owns(log, d, b) =>
    /\ (\A a \in 1 .. b - 1 : ~Owns(log, d, a)) => log[b].next = run[d]
    /\ \A a \in 1 .. b - 1 :
         Owns(log, d, a) /\ (\A m \in a + 1 .. b - 1 : ~Owns(log, d, m))
           => log[b].next = log[a].prev

(* An atomic append shifts the owners of the log by one age.               *)
LEMMA ShiftsOwners ==
  ASSUME NEW older, NEW newer, NEW new \in Call, newer = Appended(older, new)
  PROVE  /\ \A b \in Ages \ {1}, d \in CPU : Owns(newer, d, b) <=> Owns(older, d, b - 1)
         /\ 1 \in Ages => \A d \in CPU : Owns(newer, d, 1) <=> d = new.cpu
<1>1. new # None
  BY NoneAssumption
<1>2. 1 \in Ages => newer[1] = new
  BY DEF Appended
<1>3. \A b \in Ages \ {1} : newer[b] = older[b - 1]
  BY DEF Appended
<1> QED
  BY <1>1, <1>2, <1>3 DEF Owns

(* An atomic append of what a CPU switches from and to keeps the chain:    *)
(* the claim of the report, for any number of CPUs, tasks and entries.     *)
LEMMA AppendChains ==
  ASSUME NEW older, NEW run \in [CPU -> Task], NEW c \in CPU, NEW t \in Task,
         Chains(older, run)
  PROVE  Chains(Appended(older, [cpu |-> c, prev |-> run[c], next |-> t]), [run EXCEPT ![c] = t])
<1> DEFINE newer == Appended(older, [cpu |-> c, prev |-> run[c], next |-> t])
           ran == [run EXCEPT ![c] = t]
<1>1. /\ \A a \in Ages \ {1} : newer[a] = older[a - 1]
      /\ 1 \in Ages => newer[1] = [cpu |-> c, prev |-> run[c], next |-> t]
      /\ \A d \in CPU : ran[d] = IF d = c THEN t ELSE run[d]
  BY DEF Appended
<1>2. /\ \A a \in Ages \ {1}, d \in CPU : Owns(newer, d, a) <=> Owns(older, d, a - 1)
      /\ 1 \in Ages => \A d \in CPU : Owns(newer, d, 1) <=> d = c
  <2>1. [cpu |-> c, prev |-> run[c], next |-> t] \in Call
    BY DEF Call
  <2> QED
    BY <2>1, ShiftsOwners
<1> HIDE DEF newer, ran
<1> SUFFICES Chains(newer, ran)
  BY DEF newer, ran
<1> SUFFICES ASSUME NEW d \in CPU, NEW b \in Ages, Owns(newer, d, b)
             PROVE  /\ (\A a \in 1 .. b - 1 : ~Owns(newer, d, a))
                         => newer[b].next = ran[d]
                    /\ \A a \in 1 .. b - 1 :
                         Owns(newer, d, a) /\ (\A m \in a + 1 .. b - 1 : ~Owns(newer, d, m))
                           => newer[b].next = newer[a].prev
  BY DEF Chains
<1>3. b \in 1 .. N - 1 /\ b \in Nat /\ 1 \in Ages
  BY NAssumption DEF Ages
<1>4. CASE b = 1
  <2>1. d = c /\ newer[b].next = ran[d]
    BY <1>1, <1>2, <1>3, <1>4
  <2> QED
    BY <2>1, <1>4
<1>5. CASE b # 1
  <2>1. b - 1 \in Ages
    BY <1>3, <1>5, NAssumption DEF Ages
  <2>2. Owns(older, d, b - 1) /\ newer[b] = older[b - 1]
    BY <1>1, <1>2, <1>5
  <2>3. ASSUME NEW a \in 1 .. b - 1, a # 1
        PROVE  /\ a - 1 \in 1 .. (b - 1) - 1
               /\ Owns(newer, d, a) <=> Owns(older, d, a - 1)
               /\ newer[a] = older[a - 1]
    <3>1. a \in Ages \ {1} /\ a - 1 \in 1 .. (b - 1) - 1
      BY <1>3, <2>3, NAssumption DEF Ages
    <3> QED
      BY <1>1, <1>2, <3>1
  <2>4. \A a \in 1 .. (b - 1) - 1 :
          a + 1 \in 1 .. b - 1 /\ a + 1 # 1 /\ (a + 1) - 1 = a
    BY <1>3
  <2>5. ASSUME \A a \in 1 .. b - 1 : ~Owns(newer, d, a)
        PROVE  newer[b].next = ran[d]
    <3>1. 1 \in 1 .. b - 1
      BY <1>3, <1>5
    <3>2. d # c
      BY <1>2, <1>3, <2>5, <3>1
    <3>3. \A a \in 1 .. (b - 1) - 1 : ~Owns(older, d, a)
      <4> TAKE a \in 1 .. (b - 1) - 1
      <4> DEFINE e == a + 1
      <4>1. e \in 1 .. b - 1 /\ e # 1 /\ e - 1 = a
        BY <2>4
      <4> HIDE DEF e
      <4> QED
        BY <2>3, <2>5, <4>1
    <3>4. older[b - 1].next = run[d]
      BY <2>1, <2>2, <3>3 DEF Chains
    <3> QED
      BY <1>1, <2>2, <3>2, <3>4
  <2>6. ASSUME NEW a \in 1 .. b - 1, Owns(newer, d, a),
               \A m \in a + 1 .. b - 1 : ~Owns(newer, d, m)
        PROVE  newer[b].next = newer[a].prev
    <3>1. \A m \in a .. (b - 1) - 1 : ~Owns(older, d, m)
      <4> TAKE m \in a .. (b - 1) - 1
      <4> DEFINE e == m + 1
      <4>1. e \in a + 1 .. b - 1 /\ e \in 1 .. b - 1 /\ e # 1 /\ e - 1 = m
        BY <1>3
      <4> HIDE DEF e
      <4> QED
        BY <2>3, <2>6, <4>1
    <3>2. CASE a = 1
      <4>1. d = c
        BY <1>2, <1>3, <2>6, <3>2
      <4>2. older[b - 1].next = run[d]
        BY <2>1, <2>2, <3>1, <3>2 DEF Chains
      <4>3. newer[1].prev = run[c]
        BY <1>1, <1>3
      <4> QED
        BY <2>2, <3>2, <4>1, <4>2, <4>3
    <3>3. CASE a # 1
      <4>1. a - 1 \in 1 .. (b - 1) - 1 /\ Owns(older, d, a - 1)
            /\ newer[a] = older[a - 1]
        BY <2>3, <2>6, <3>3
      <4>2. (a - 1) + 1 = a
        BY <1>3
      <4>3. older[b - 1].next = older[a - 1].prev
        BY <2>1, <2>2, <3>1, <4>1, <4>2 DEF Chains
      <4> QED
        BY <2>2, <4>1, <4>3
    <3> QED
      BY <3>2, <3>3
  <2> QED
    BY <2>5, <2>6
<1> QED
  BY <1>4, <1>5

LEMMA MappedChain == Log!Chained <=> Chains(MappedLog, curr)
BY DEF Log!Chained, Log!Age, Log!IsOf, Chains, Owns, Ages, MappedLog

LEMMA ChainStart == ASSUME Log!Init PROVE Log!Chained
<1>1. \A c \in CPU, a \in 1 .. N - 1 : ~Log!IsOf(c, a)
  BY DEF Log!Init, Log!IsOf, Log!Age
<1> QED
  BY <1>1 DEF Log!Chained, Log!Age

LEMMA ChainStep ==
  ASSUME curr \in [CPU -> Task], Log!Chained, [Log!Next]_(Log!logVars)
  PROVE  Log!Chained'
<1>1. Chains(MappedLog, curr)
  BY MappedChain
<1>2. Chains(MappedLog', curr')
  <2>1. CASE UNCHANGED Log!logVars
    BY <1>1, <2>1 DEF Log!logVars, MappedLog
  <2>2. ASSUME NEW c \in CPU, NEW t \in Task, Log!SwitchTo(c, t)
        PROVE  Chains(MappedLog', curr')
    <3>1. /\ curr' = [curr EXCEPT ![c] = t]
          /\ MappedLog' = Appended(MappedLog, [cpu |-> c, prev |-> curr[c], next |-> t])
      BY <2>2 DEF Log!SwitchTo, Log!Age, Ages, MappedLog, Appended
    <3> QED
      BY <1>1, <3>1, AppendChains
  <2> QED
    BY <2>1, <2>2 DEF Log!Next
<1>3. Chains(MappedLog, curr)'
  BY <1>2 DEF Chains, Owns, Ages
<1> QED
  BY <1>3, MappedChain, PTL

(* The abstract log holds switches of real CPUs and tasks, or None. *)
THEOREM LogTypes == Log!Spec => []Log!TypeOK
<1> USE DEF Log!TypeOK, Log!Age, Log!Switch
<1>1. Log!Init => Log!TypeOK
  BY DEF Log!Init
<1>2. Log!TypeOK /\ [Log!Next]_(Log!logVars) => Log!TypeOK'
  <2>1. ASSUME Log!TypeOK, NEW c \in CPU, NEW t \in Task, Log!SwitchTo(c, t) PROVE Log!TypeOK'
    <3> DEFINE new == [cpu |-> c, prev |-> curr[c], next |-> t]
               Entry == [cpu : CPU, prev : Task, next : Task] \cup {None}
    <3>1. curr \in [CPU -> Task] /\ curr' = [curr EXCEPT ![c] = t]
      BY <2>1 DEF Log!SwitchTo
    <3>2. MappedLog \in [Ages -> Entry] /\ MappedLog' = Appended(MappedLog, new)
      BY <2>1 DEF Log!SwitchTo, Ages, MappedLog, Appended
    <3>3. new \in Entry
      BY <3>1
    <3>4. \A a \in Ages : a # 1 => a - 1 \in Ages
      BY NAssumption DEF Ages
    <3> HIDE DEF new, Entry
    <3>5. MappedLog' \in [Ages -> Entry]
      BY <3>2, <3>3, <3>4 DEF Appended
    <3> QED
      BY <3>1, <3>5 DEF Ages, MappedLog, Entry
  <2>2. ASSUME Log!TypeOK, UNCHANGED Log!logVars PROVE Log!TypeOK'
    BY <2>2 DEF Log!logVars
  <2> QED
    BY <2>1, <2>2 DEF Log!Next
<1> QED
  BY <1>1, <1>2, PTL DEF Log!Spec

(* The abstract log always chains: what the report claims, of every log    *)
(* that is appended to atomically.                                         *)
THEOREM LogChained == Log!Spec => []Log!Chained
<1>1. Log!Init => Log!Chained
  BY ChainStart
<1>2. Log!TypeOK /\ Log!Chained /\ [Log!Next]_(Log!logVars) => Log!Chained'
  BY ChainStep DEF Log!TypeOK
<1> QED
  BY <1>1, <1>2, LogTypes, PTL DEF Log!Spec

(* Until two CPUs record at once, the ring satisfies what the report takes *)
(* as the sign that the tracer works.                                      *)
THEOREM ChainHolds == Spec => []ChainUntilRace
<1>1. Init => ChainUntilRace
  BY InitMaps, ChainStart DEF ChainUntilRace
<1>2. /\ TypeInv /\ SerialInv /\ OwnCallInv /\ ChainUntilRace /\ [Next]_vars
      => ChainUntilRace'
  <2> SUFFICES ASSUME TypeInv, SerialInv, OwnCallInv, ChainUntilRace, [Next]_vars,
                      ~raced'
               PROVE  Log!Chained'
    BY DEF ChainUntilRace
  <2>1. ~raced
    <3>1. raced' = raced \/ \E c \in CPU : Record(c)
      BY NextSplit, ReaderKeepsRecorder DEF recVars, vars
    <3> QED
      BY <3>1 DEF Record, PickNext, StoreField, LoadIndex, StoreIndex, NextIndex,
                  TypeInv, TypeOK, RecorderTypeOK
  <2>2. [Log!Next]_(Log!logVars)
    BY StepMaps
  <2>3. Log!Chained /\ curr \in [CPU -> Task]
    BY <2>1 DEF ChainUntilRace, TypeInv, TypeOK, RecorderTypeOK
  <2> QED
    BY <2>2, <2>3, ChainStep
<1> QED
  BY <1>1, <1>2, TypeCorrect, SerialRing, OwnCalls, PTL DEF Spec
=============================================================================
