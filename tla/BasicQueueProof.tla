--------------------------- MODULE BasicQueueProof ---------------------------
(***************************************************************************)
(* Theorems about logic_basic_queue_generic, for every set of words and    *)
(* every memory depth of at least four words.                              *)
(***************************************************************************)
EXTENDS BasicQueue, Rows

(***************************************************************************)
(* The strengthening that makes the safety properties inductive: what each *)
(* flag, registered one clock ago, still says about the capacity now.      *)
(***************************************************************************)
ReadyInv == capacity <= MEMORY_DEPTH /\ (rx_tready => capacity < MEMORY_DEPTH)

AlmostEmptyInv == IF almost_empty THEN capacity <= 2 ELSE capacity >= 1

Inv == TypeOK /\ PointersAgree /\ ReadyInv /\ AlmostEmptyInv

-----------------------------------------------------------------------------

(***************************************************************************)
(* A pointer stays in the memory, and advancing it is addition modulo the  *)
(* depth.                                                                  *)
(***************************************************************************)
LEMMA NextPointerType ==
    ASSUME NEW p \in Addresses
    PROVE  NextPointer(p) \in Addresses
BY DepthAssumption DEF NextPointer, Addresses

(***************************************************************************)
(* The stale almost_empty flag and the two low bits of capacity together   *)
(* tell exactly whether the memory is empty.                               *)
(***************************************************************************)
LEMMA EmptyLemma ==
    ASSUME TypeOK, AlmostEmptyInv
    PROVE  empty <=> capacity = 0
<1>1. capacity \in Nat
  BY DepthAssumption DEF TypeOK
<1>2. CASE almost_empty
  <2>1. capacity \in {0, 1, 2}
    BY <1>1, <1>2 DEF AlmostEmptyInv
  <2>2. capacity % 4 = 0 <=> capacity = 0
    BY <2>1
  <2> QED
    BY <1>2, <2>2 DEF empty
<1>3. CASE ~almost_empty
  BY <1>1, <1>3 DEF AlmostEmptyInv, empty
<1> QED
  BY <1>2, <1>3

-----------------------------------------------------------------------------

(***************************************************************************)
(* The registers after power-up, whatever the two drivers do.              *)
(***************************************************************************)
Started ==
    /\ areset_n = FALSE
    /\ rx_tvalid \in BOOLEAN /\ rx_tdata \in DATA /\ tx_tready \in BOOLEAN
    /\ rx_tready = FALSE /\ write_pointer = 0
    /\ almost_empty = TRUE /\ read_pointer = 0
    /\ fsm_state = "IDLE" /\ tx_tvalid = FALSE /\ capacity = 0
    /\ tx_tdata = UNKNOWN /\ read_data = UNKNOWN
    /\ memory = [a \in Addresses |-> UNKNOWN]

\* Registers with their starting values satisfy the invariant.
LEMMA StartedInv == Started => Inv
<1> SUFFICES ASSUME Started PROVE Inv
  OBVIOUS
<1>1. 0 \in Addresses /\ 0 \in 0 .. 2 * MEMORY_DEPTH - 1
  BY DepthAssumption DEF Addresses
<1>2. TypeOK
  BY <1>1 DEF Started, TypeOK, Words
<1>3. PointersAgree /\ ReadyInv /\ AlmostEmptyInv
  BY DepthAssumption DEF Started, PointersAgree, ReadyInv, AlmostEmptyInv
<1> QED
  BY <1>2, <1>3 DEF Inv

\* So do those after power-up.
LEMMA InitInv == Init => Inv
BY StartedInv DEF Init, Started

(***************************************************************************)
(* The memory service keeps the types of the memory and its output.        *)
(***************************************************************************)
LEMMA MemoryType ==
    ASSUME TypeOK, MemoryService
    PROVE  memory' \in [Addresses -> Words] /\ read_data' \in Words
BY DEF TypeOK, MemoryService, Words

(***************************************************************************)
(* The Rx driver only ever drives words.                                   *)
(***************************************************************************)
LEMMA DriveType ==
    ASSUME TypeOK, RxDrive, TxDrive
    PROVE  rx_tvalid' \in BOOLEAN /\ rx_tdata' \in DATA /\ tx_tready' \in BOOLEAN
BY DEF TypeOK, RxDrive, TxDrive

(***************************************************************************)
(* In a clock edge the capacity register moves by what the two enables     *)
(* say, and neither of its two wrap-arounds is ever taken.                 *)
(***************************************************************************)
LEMMA CapacityStep ==
    ASSUME Inv, CapacityService
    PROVE  /\ capacity' = capacity + (IF write_enable THEN 1 ELSE 0)
                                   - (IF read_enable THEN 1 ELSE 0)
           /\ capacity' \in 0 .. MEMORY_DEPTH
<1>1. capacity \in 0 .. MEMORY_DEPTH /\ MEMORY_DEPTH \in Nat /\ MEMORY_DEPTH >= 4
  BY DepthAssumption DEF Inv, TypeOK, ReadyInv
<1>2. write_enable => capacity < MEMORY_DEPTH
  BY DEF Inv, ReadyInv, write_enable
<1>3. read_enable => capacity > 0
  BY <1>1, EmptyLemma DEF Inv, read_enable
<1> QED
  BY <1>1, <1>2, <1>3 DEF CapacityService, NextCapacity, PreviousCapacity

\* A rising edge of aclk keeps the invariant.
LEMMA ClockInv == Inv /\ Clock => Inv'
<1> SUFFICES ASSUME Inv, Clock PROVE Inv'
  OBVIOUS
<1> USE DepthAssumption
<1>1. /\ capacity' = capacity + (IF write_enable THEN 1 ELSE 0)
                              - (IF read_enable THEN 1 ELSE 0)
      /\ capacity' \in 0 .. MEMORY_DEPTH
  BY CapacityStep DEF Clock
<1>2. capacity \in 0 .. MEMORY_DEPTH
  BY DEF Inv, TypeOK, ReadyInv
<1>3. read_enable => capacity > 0
  BY <1>2, EmptyLemma DEF Inv, read_enable
<1>4. TypeOK'
  <2>1. write_pointer' \in Addresses /\ rx_tready' \in BOOLEAN
    BY NextPointerType DEF Inv, TypeOK, Clock, WriteService, almost_full
  <2>2. read_pointer' \in Addresses
    BY NextPointerType DEF Inv, TypeOK, Clock, ReadService
  <2>3. almost_empty' \in BOOLEAN
    BY DEF Clock, ReadService
  <2>4. tx_tvalid' \in BOOLEAN
    BY DEF Inv, TypeOK, Clock, ReadService
  <2>5. fsm_state' \in {"IDLE", "DATA"} /\ tx_tdata' \in Words
    BY DEF Inv, TypeOK, Clock, ReadService, FsmState, TxData
  <2>6. capacity' \in 0 .. 2 * MEMORY_DEPTH - 1
    BY <1>1
  <2> QED
    BY <2>1, <2>2, <2>3, <2>4, <2>5, <2>6, MemoryType, DriveType
    DEF Inv, Clock, TypeOK
<1>5. PointersAgree'
  <2>1. /\ write_pointer' = IF write_enable THEN NextPointer(write_pointer)
                                            ELSE write_pointer
        /\ read_pointer' = IF read_enable THEN NextPointer(read_pointer)
                                          ELSE read_pointer
    BY DEF Clock, WriteService, ReadService
  <2>2. write_pointer \in Addresses /\ read_pointer \in Addresses
    BY DEF Inv, TypeOK
  <2>3. write_enable => capacity < MEMORY_DEPTH
    BY DEF Inv, ReadyInv, write_enable
  <2> QED
    BY <1>1, <1>2, <1>3, <2>1, <2>2, <2>3
    DEF Inv, PointersAgree, NextPointer, Addresses
<1>6. ReadyInv'
  <2>1. rx_tready' = ~(capacity >= MEMORY_DEPTH - 1)
    BY DEF Clock, WriteService, almost_full, ALMOST_FULL
  <2>2. rx_tready' => capacity' < MEMORY_DEPTH
    <3>1. CASE capacity >= MEMORY_DEPTH - 1
      BY <2>1, <3>1
    <3>2. CASE ~(capacity >= MEMORY_DEPTH - 1)
      BY <1>1, <1>2, <3>2
    <3> QED
      BY <3>1, <3>2
  <2> QED
    BY <1>1, <2>2 DEF ReadyInv
<1>7. AlmostEmptyInv'
  <2>1. almost_empty' = (capacity <= 1)
    BY DEF Clock, ReadService, ALMOST_EMPTY
  <2>2. CASE capacity <= 1
    <3>1. almost_empty'
      BY <2>1, <2>2, Zenon
    <3>2. capacity' <= 2
      BY <1>1, <1>2, <2>2
    <3> QED
      BY <3>1, <3>2 DEF AlmostEmptyInv
  <2>3. CASE ~(capacity <= 1)
    <3>1. ~almost_empty'
      BY <2>1, <2>3, Zenon
    <3>2. capacity' >= 1
      BY <1>1, <1>2, <2>3
    <3> QED
      BY <3>1, <3>2 DEF AlmostEmptyInv
  <2> QED
    BY <2>2, <2>3
<1> QED
  BY <1>4, <1>5, <1>6, <1>7 DEF Inv

(***************************************************************************)
(* A clock edge in the reset, and the edge of the reset itself, without    *)
(* what they require of areset_n and of Tx: a module that owns a queue may *)
(* have a reset synchronizer between its reset and that of the queue.      *)
(***************************************************************************)
Held ==
    /\ MemoryService /\ TxData /\ RxDrive /\ TxDrive
    /\ areset_n' \in BOOLEAN
    /\ UNCHANGED <<rx_tready, write_pointer, almost_empty, read_pointer,
                   fsm_state, tx_tvalid, capacity>>

\* So does a step that leaves the pointers alone.
LEMMA HeldInv == Inv /\ Held => Inv'
<1> SUFFICES ASSUME Inv, Held PROVE Inv'
  OBVIOUS
<1>1. tx_tdata' \in Words
  BY DEF Inv, TypeOK, Held, TxData
<1>2. TypeOK'
  BY <1>1, MemoryType, DriveType DEF Inv, TypeOK, Held
<1> QED
  BY <1>2 DEF Inv, Held, PointersAgree, ReadyInv, AlmostEmptyInv

Emptied ==
    /\ areset_n' = FALSE
    /\ rx_tready' = FALSE /\ write_pointer' = 0
    /\ almost_empty' = TRUE /\ read_pointer' = 0
    /\ fsm_state' = "IDLE" /\ tx_tvalid' = FALSE /\ capacity' = 0
    /\ rx_tvalid' \in BOOLEAN /\ tx_tready' \in BOOLEAN
    /\ UNCHANGED <<rx_tdata, tx_tdata, memory, read_data>>

\* So does one that empties the queue.
LEMMA EmptiedInv == Inv /\ Emptied => Inv'
<1> SUFFICES ASSUME Inv, Emptied PROVE Inv'
  OBVIOUS
<1>1. 0 \in Addresses /\ 0 \in 0 .. 2 * MEMORY_DEPTH - 1
  BY DepthAssumption DEF Addresses
<1>2. TypeOK'
  BY <1>1 DEF Inv, TypeOK, Emptied
<1>3. PointersAgree' /\ ReadyInv' /\ AlmostEmptyInv'
  BY DepthAssumption DEF Emptied, PointersAgree, ReadyInv, AlmostEmptyInv
<1> QED
  BY <1>2, <1>3 DEF Inv

\* So does an edge during the reset.
LEMMA ClockInResetInv == Inv /\ ClockInReset => Inv'
BY HeldInv DEF ClockInReset, Held, Inv, TypeOK

\* So does the assertion of the reset.
LEMMA ResetInv == Inv /\ Reset => Inv'
BY EmptiedInv DEF Reset, Emptied

\* So does its release.
LEMMA ReleaseInv == Inv /\ Release => Inv'
BY DEF Inv, Release, inputs, TypeOK, PointersAgree, ReadyInv, AlmostEmptyInv

\* So does a step that changes nothing.
LEMMA StutterInv == Inv /\ UNCHANGED vars => Inv'
BY DEF Inv, vars, inputs, TypeOK, PointersAgree, ReadyInv, AlmostEmptyInv

\* So does every step.
LEMMA NextInv == Inv /\ [Next]_vars => Inv'
BY ClockInv, ClockInResetInv, ResetInv, ReleaseInv, StutterInv DEF Next

(***************************************************************************)
(* The strengthened invariant holds in every reachable state.              *)
(***************************************************************************)
THEOREM Invariance == Spec => []Inv
BY InitInv, NextInv, PTL DEF Spec

-----------------------------------------------------------------------------

(***************************************************************************)
(* Every register keeps its width and every word is a word: in particular  *)
(* no pointer leaves the memory.                                           *)
(***************************************************************************)
THEOREM TypeCorrect == Spec => []TypeOK
<1>1. Inv => TypeOK
  BY DEF Inv
<1> QED
  BY <1>1, Invariance, PTL

(***************************************************************************)
(* The write pointer, the read pointer and the capacity counter never      *)
(* disagree about how many words the memory holds.                         *)
(***************************************************************************)
THEOREM PointersAlwaysAgree == Spec => []PointersAgree
<1>1. Inv => PointersAgree
  BY DEF Inv
<1> QED
  BY <1>1, Invariance, PTL

(***************************************************************************)
(* No write is ever enabled into a full memory, whatever the stalls and    *)
(* the bursts: one reserved place is enough for the stale rx_tready.       *)
(***************************************************************************)
THEOREM NeverOverflows == Spec => []NoOverflow
<1>1. Inv => NoOverflow
  BY DEF Inv, ReadyInv, NoOverflow, write_enable
<1> QED
  BY <1>1, Invariance, PTL

(***************************************************************************)
(* The read service sees the memory as empty exactly when it is.           *)
(***************************************************************************)
THEOREM EmptyIsExact == Spec => []EmptyExact
<1>1. Inv => EmptyExact
  BY EmptyLemma DEF Inv, EmptyExact
<1> QED
  BY <1>1, Invariance, PTL

(***************************************************************************)
(* No read is ever enabled from an empty memory.                           *)
(***************************************************************************)
THEOREM NeverUnderflows == Spec => []NoUnderflow
<1>1. Inv => NoUnderflow
  <2> SUFFICES ASSUME Inv, read_enable PROVE capacity > 0
    BY DEF NoUnderflow
  <2>1. capacity \in Nat
    BY DepthAssumption DEF Inv, TypeOK
  <2> QED
    BY <2>1, EmptyLemma DEF Inv, read_enable
<1> QED
  BY <1>1, Invariance, PTL

-----------------------------------------------------------------------------
\* The refinement: the words inside are a row of two registers and a stretch of
\* the memory.

\* The memory is a ring.
LEMMA MemoryRing ==
    /\ MEMORY_DEPTH \in Nat \ {0}
    /\ Addresses = Ring(MEMORY_DEPTH)
    /\ \A p : NextPointer(p) = After(p, MEMORY_DEPTH)
BY DepthAssumption DEF Addresses, NextPointer, After, Ring

\* The places of the queue, what is fetched from its memory and what comes in.

Port == One(tx_tvalid, tx_tdata)
Read == One(fsm_state = "DATA", read_data)
Stored == Stretch(memory, MEMORY_DEPTH, read_pointer, capacity)
Fetched == One(read_enable, memory[read_pointer])
Remaining ==
    Stretch(memory, MEMORY_DEPTH,
            IF read_enable THEN NextPointer(read_pointer) ELSE read_pointer,
            IF read_enable THEN capacity - 1 ELSE capacity)
Coming == One(rx_tvalid /\ rx_tready, rx_tdata)

\* The words inside, and with the one that is accepted now, as a row.
LEMMA Form ==
    /\ Contents = Row(Row(Port, Read), Stored)
    /\ Fifo!Offered = Row(Row(Row(Port, Read), Stored), Coming)
<1>1. Contents = Row(Row(Port, Read), Stored)
  BY DEF Contents, Port, Read, Stored, Stretch, One, Row
<1>2. Fifo!Accepted = Coming
  BY DEF Fifo!Accepted, Coming, One
<1> QED
  BY <1>1, <1>2 DEF Fifo!Offered, Row

\* The places are sequences of words.
LEMMA Places == Inv =>
    /\ Port \in Seq(Words) /\ Len(Port) <= 1
    /\ Read \in Seq(Words) /\ Len(Read) <= 1
    /\ Stored \in Seq(Words) /\ Len(Stored) = capacity
    /\ Fetched \in Seq(Words)
    /\ Remaining \in Seq(Words)
    /\ Coming \in Seq(Words)
<1> SUFFICES ASSUME Inv
    PROVE  /\ Port \in Seq(Words) /\ Len(Port) <= 1
           /\ Read \in Seq(Words) /\ Len(Read) <= 1
           /\ Stored \in Seq(Words) /\ Len(Stored) = capacity
           /\ Fetched \in Seq(Words)
           /\ Remaining \in Seq(Words)
           /\ Coming \in Seq(Words)
  OBVIOUS
<1>1. /\ tx_tdata \in Words /\ read_data \in Words /\ rx_tdata \in Words
      /\ memory \in [Addresses -> Words] /\ read_pointer \in Addresses
      /\ memory[read_pointer] \in Words
      /\ tx_tvalid \in BOOLEAN /\ (fsm_state = "DATA") \in BOOLEAN
      /\ (rx_tvalid /\ rx_tready) \in BOOLEAN /\ read_enable \in BOOLEAN
  BY DEF Inv, TypeOK, Words, read_enable
<1>2. /\ capacity \in 0 .. MEMORY_DEPTH
      /\ read_enable => capacity - 1 \in 0 .. MEMORY_DEPTH
  <2>1. capacity \in 0 .. MEMORY_DEPTH /\ MEMORY_DEPTH \in Nat
    BY DepthAssumption DEF Inv, TypeOK, ReadyInv
  <2>2. read_enable => capacity # 0
    BY EmptyLemma DEF Inv, read_enable
  <2> QED
    BY <2>1, <2>2
<1>3. Port \in Seq(Words) /\ Len(Port) <= 1
  BY <1>1, OneSeq DEF Port
<1>4. Read \in Seq(Words) /\ Len(Read) <= 1
  BY <1>1, OneSeq DEF Read
<1>5. Stored \in Seq(Words) /\ Len(Stored) = capacity
  <2>1. IsStretch(Words, memory, MEMORY_DEPTH, read_pointer, capacity)
    BY <1>1, <1>2, MemoryRing DEF IsStretch
  <2> QED
    BY <2>1, StretchSeq DEF Stored
<1>6. Fetched \in Seq(Words)
  BY <1>1, OneSeq DEF Fetched
<1>7. Remaining \in Seq(Words)
  <2> DEFINE p == IF read_enable THEN NextPointer(read_pointer) ELSE read_pointer
             c == IF read_enable THEN capacity - 1 ELSE capacity
  <2>1. IsStretch(Words, memory, MEMORY_DEPTH, p, c)
    BY <1>1, <1>2, MemoryRing, NextPointerType DEF IsStretch
  <2> HIDE DEF p, c
  <2>2. Stretch(memory, MEMORY_DEPTH, p, c) \in Seq(Words)
    BY <2>1, StretchSeq
  <2> QED
    BY <2>2 DEF Remaining, p, c
<1>8. Coming \in Seq(Words)
  BY <1>1, OneSeq DEF Coming
<1> QED
  BY <1>3, <1>4, <1>5, <1>6, <1>7, <1>8

\* So is what they hold together.
LEMMA ContentsSeq == Inv => Contents \in Seq(Words)
<1> SUFFICES ASSUME Inv PROVE Contents \in Seq(Words)
  OBVIOUS
<1>1. Port \in Seq(Words) /\ Read \in Seq(Words) /\ Stored \in Seq(Words)
  BY Places
<1>2. Row(Port, Read) \in Seq(Words)
  BY <1>1, RowSeq
<1> QED
  BY <1>1, <1>2, RowSeq, Form

\* What is fetched is the front of what is stored.
LEMMA FetchedFirst == Inv => Stored = Row(Fetched, Remaining)
<1> SUFFICES ASSUME Inv PROVE Stored = Row(Fetched, Remaining)
  OBVIOUS
<1>1. memory \in [Addresses -> Words] /\ read_pointer \in Addresses
  BY DEF Inv, TypeOK
<1>2. CASE read_enable
  <2>1. capacity \in 1 .. MEMORY_DEPTH
    <3>1. capacity \in 0 .. MEMORY_DEPTH /\ MEMORY_DEPTH \in Nat
      BY DepthAssumption DEF Inv, TypeOK, ReadyInv
    <3>2. capacity # 0
      BY <1>2, EmptyLemma DEF Inv, read_enable
    <3> QED
      BY <3>1, <3>2
  <2>2. Stored = Row(<<memory[read_pointer]>>,
                     Stretch(memory, MEMORY_DEPTH, NextPointer(read_pointer),
                             capacity - 1))
    BY <1>1, <2>1, StretchRead, MemoryRing DEF Stored
  <2>3. Fetched = <<memory[read_pointer]>>
    BY <1>2 DEF Fetched, One
  <2>4. Remaining = Stretch(memory, MEMORY_DEPTH, NextPointer(read_pointer),
                            capacity - 1)
    BY <1>2 DEF Remaining
  <2> QED
    BY <2>2, <2>3, <2>4, Zenon
<1>3. CASE ~read_enable
  <2>1. Fetched = <<>> /\ Remaining = Stored
    BY <1>3 DEF Fetched, Remaining, Stored, One
  <2>2. Stored \in Seq(Words)
    BY Places
  <2> QED
    BY <2>1, <2>2, RowEmpty
<1> QED
  BY <1>2, <1>3

\* A word that comes in is written behind what remains.
LEMMA ComingLast == Inv /\ Clock => Stored' = Row(Remaining, Coming)
<1> SUFFICES ASSUME Inv, Clock PROVE Stored' = Row(Remaining, Coming)
  OBVIOUS
<1> DEFINE p == read_pointer'
           c == IF read_enable THEN capacity - 1 ELSE capacity
<1>1. /\ memory \in [Addresses -> Words] /\ write_pointer \in Addresses
      /\ read_pointer \in Addresses /\ p \in Addresses /\ rx_tdata \in Words
      /\ MEMORY_DEPTH \in Nat /\ MEMORY_DEPTH >= 4
  BY ClockInv, DepthAssumption DEF Inv, TypeOK, Words
<1>2. /\ capacity' = capacity + (IF write_enable THEN 1 ELSE 0)
                              - (IF read_enable THEN 1 ELSE 0)
      /\ capacity \in 0 .. MEMORY_DEPTH /\ capacity' \in 0 .. MEMORY_DEPTH
      /\ write_enable => capacity < MEMORY_DEPTH
      /\ read_enable => capacity > 0
  <2>1. capacity \in 0 .. MEMORY_DEPTH
    BY DepthAssumption DEF Inv, TypeOK, ReadyInv
  <2>2. read_enable => capacity > 0
    BY <2>1, EmptyLemma DEF Inv, read_enable
  <2>3. write_enable => capacity < MEMORY_DEPTH
    BY DEF Inv, ReadyInv, write_enable
  <2> QED
    BY <2>1, <2>2, <2>3, CapacityStep DEF Clock
<1>3. p = IF read_enable THEN NextPointer(read_pointer) ELSE read_pointer
  BY DEF Clock, ReadService
<1>4. Remaining = Stretch(memory, MEMORY_DEPTH, p, c)
  BY <1>3 DEF Remaining
<1>5. CASE write_enable
  <2>1. c \in 0 .. MEMORY_DEPTH - 1 /\ capacity' = c + 1
    BY <1>1, <1>2, <1>5
  <2>2. write_pointer = Onward(p, c, MEMORY_DEPTH)
    BY <1>1, <1>2, <1>3 DEF Inv, PointersAgree, NextPointer, Addresses, Onward
  <2>3. memory' = [memory EXCEPT ![write_pointer] = rx_tdata]
    BY <1>5 DEF Clock, MemoryService
  <2>4. Coming = <<rx_tdata>>
    BY <1>5 DEF Coming, One, write_enable
  <2> HIDE DEF p, c
  <2>5. Stretch(memory', MEMORY_DEPTH, p, c + 1)
            = Row(Stretch(memory, MEMORY_DEPTH, p, c), <<rx_tdata>>)
    <3>1. /\ MEMORY_DEPTH \in Nat \ {0}
          /\ memory \in [Ring(MEMORY_DEPTH) -> Words]
          /\ memory' \in [Ring(MEMORY_DEPTH) -> Words]
          /\ p \in Ring(MEMORY_DEPTH) /\ rx_tdata \in Words
      BY <1>1, <2>3, MemoryRing
    <3>2. \A a \in Ring(MEMORY_DEPTH) :
              memory'[a] = IF a = Onward(p, c, MEMORY_DEPTH) THEN rx_tdata
                                                             ELSE memory[a]
      BY <2>2, <2>3, <3>1
    <3> QED
      BY <2>1, <3>1, <3>2, StretchWritten
  <2>6. Stored' = Stretch(memory', MEMORY_DEPTH, p, capacity')
    BY DEF Stored, Stretch, p
  <2> QED
    BY <1>4, <2>1, <2>4, <2>5, <2>6, Zenon
<1>6. CASE ~write_enable
  <2>1. capacity' = c
    BY <1>1, <1>2, <1>6
  <2>2. memory' = memory
    BY <1>6 DEF Clock, MemoryService
  <2>3. Stored' = Stretch(memory', MEMORY_DEPTH, p, capacity')
    BY DEF Stored, Stretch
  <2>4. Coming = <<>>
    BY <1>6 DEF Coming, One, write_enable
  <2>5. Remaining \in Seq(Words)
    BY Places
  <2> HIDE DEF p, c
  <2>6. Stored' = Remaining
    BY <1>4, <2>1, <2>2, <2>3, Zenon
  <2> QED
    BY <2>4, <2>5, <2>6, RowEmpty
<1> QED
  BY <1>5, <1>6

\* The two registers follow the memory as soon as Tx is ready or they are free.
LEMMA Moves == Inv /\ Clock =>
    /\ Port' = IF tx_tready THEN Read ELSE Port
    /\ tx_tready \/ fsm_state = "IDLE" => Read' = Fetched
    /\ ~tx_tready /\ fsm_state = "IDLE" => Read = <<>>
    /\ ~tx_tready /\ fsm_state = "DATA" => Read' = Read /\ Fetched = <<>>
<1> SUFFICES ASSUME Inv, Clock
    PROVE  /\ Port' = IF tx_tready THEN Read ELSE Port
           /\ tx_tready \/ fsm_state = "IDLE" => Read' = Fetched
           /\ ~tx_tready /\ fsm_state = "IDLE" => Read = <<>>
           /\ ~tx_tready /\ fsm_state = "DATA" => Read' = Read /\ Fetched = <<>>
  OBVIOUS
<1>1. /\ fsm_state \in {"IDLE", "DATA"} /\ tx_tready \in BOOLEAN
      /\ tx_tvalid \in BOOLEAN
  BY DEF Inv, TypeOK
<1>2. Port' = IF tx_tready THEN Read ELSE Port
  BY <1>1 DEF Clock, ReadService, TxData, Port, Read, One
<1>3. tx_tready \/ fsm_state = "IDLE" => Read' = Fetched
  BY <1>1 DEF Clock, ReadService, FsmState, MemoryService, Read, Fetched, One,
     read_enable
<1>4. ~tx_tready /\ fsm_state = "IDLE" => Read = <<>>
  BY DEF Read, One
<1>5. ~tx_tready /\ fsm_state = "DATA" => Read' = Read /\ Fetched = <<>>
  BY <1>1 DEF Clock, ReadService, FsmState, MemoryService, Read, Fetched, One,
     read_enable
<1> QED
  BY <1>2, <1>3, <1>4, <1>5

\* There are never more than two words outside a full memory.
LEMMA Bounded == Inv => Len(Contents) <= MEMORY_DEPTH + 2
<1> SUFFICES ASSUME Inv PROVE Len(Contents) <= MEMORY_DEPTH + 2
  OBVIOUS
<1>1. /\ Port \in Seq(Words) /\ Len(Port) <= 1
      /\ Read \in Seq(Words) /\ Len(Read) <= 1
      /\ Stored \in Seq(Words) /\ Len(Stored) = capacity
  BY Places
<1>2. /\ Row(Port, Read) \in Seq(Words)
      /\ Len(Row(Port, Read)) = Len(Port) + Len(Read)
  BY <1>1, RowSeq
<1>3. Len(Contents) = Len(Row(Port, Read)) + Len(Stored)
  BY <1>1, <1>2, RowSeq, Form
<1>4. Len(Port) \in Nat /\ Len(Read) \in Nat /\ MEMORY_DEPTH \in Nat
  BY <1>1, LenProperties, DepthAssumption
<1>5. capacity \in 0 .. MEMORY_DEPTH
  BY DepthAssumption DEF Inv, TypeOK, ReadyInv
<1> QED
  BY <1>1, <1>2, <1>3, <1>4, <1>5

\* A rising edge is a transfer of the FIFO.
LEMMA QueueTransfer == Inv /\ Inv' /\ Clock => Fifo!Transfer
<1> SUFFICES ASSUME Inv, Inv', Clock PROVE Fifo!Transfer
  OBVIOUS
<1> DEFINE all == Row(Row(Row(Port, Read), Stored), Coming)
<1>1. /\ tx_tdata \in Words /\ tx_tvalid \in BOOLEAN /\ tx_tready \in BOOLEAN
      /\ fsm_state \in {"IDLE", "DATA"}
  BY DEF Inv, TypeOK
<1>2. /\ Read \in Seq(Words) /\ Fetched \in Seq(Words)
      /\ Remaining \in Seq(Words) /\ Coming \in Seq(Words)
  BY Places
<1>3. Takes(Words, tx_tvalid, tx_tready, tx_tdata, Read, Stored, Fetched,
            Remaining, Port', Read')
  <2>1. Stored = Row(Fetched, Remaining)
    BY FetchedFirst
  <2>2. Port' = IF tx_tready THEN Read ELSE One(tx_tvalid, tx_tdata)
    BY Moves DEF Port
  <2>3. \/ (tx_tready \/ Read = <<>>) /\ Read' = Fetched
        \/ ~tx_tready /\ Read' = Read /\ Fetched = <<>>
    BY <1>1, Moves
  <2> QED
    BY <1>1, <1>2, <2>1, <2>2, <2>3 DEF Takes
<1>4. /\ tx_tvalid => all # <<>> /\ Head(all) = tx_tdata
      /\ Row(Row(Port', Read'), Row(Remaining, Coming))
             = IF tx_tvalid /\ tx_tready THEN Tail(all) ELSE all
  BY <1>2, <1>3, Taken DEF Port
<1>5. Contents' = Row(Row(Port', Read'), Row(Remaining, Coming))
  <2>1. (Contents = Row(Row(Port, Read), Stored))'
    BY Form, PTL
  <2>2. Stored' = Row(Remaining, Coming)
    BY ComingLast
  <2> QED
    BY <2>1, <2>2 DEF Row
<1>6. Len(Contents') <= MEMORY_DEPTH + 2
  <2>1. (Inv => Len(Contents) <= MEMORY_DEPTH + 2)'
    BY Bounded, PTL
  <2> QED
    BY <2>1
<1>7. tx_tvalid /\ ~tx_tready => tx_tvalid' /\ tx_tdata' = tx_tdata
  BY <1>1 DEF Clock, ReadService, TxData
<1>8. areset_n /\ areset_n'
  BY DEF Clock
<1>9. Fifo!Offered = all
  BY Form
<1> HIDE DEF all
<1> QED
  BY <1>4, <1>5, <1>6, <1>7, <1>8, <1>9 DEF Fifo!Transfer, Fifo!Delivered

(***************************************************************************)
(* What a reset leaves: nothing is ready, shown, fetched or stored.        *)
(***************************************************************************)
InReset ==
    ~areset_n => ~rx_tready /\ ~tx_tvalid /\ fsm_state = "IDLE" /\ capacity = 0

\* It is left until the first clock edge after the release.
LEMMA InResetInvariance == Spec => []InReset
<1>1. Init => InReset
  BY DEF Init, InReset
<1>2. InReset /\ [Next]_vars => InReset'
  BY DEF InReset, Next, Clock, ClockInReset, Reset, Release, vars
<1> QED
  BY <1>1, <1>2, PTL DEF Spec

\* The queue is quiet at power-up, and whenever a step ends in the reset.
LEMMA QuietInReset == InReset /\ ~areset_n => Fifo!Quiet
<1> SUFFICES ASSUME InReset, ~areset_n PROVE Fifo!Quiet
  OBVIOUS
<1>1. ~rx_tready /\ ~tx_tvalid /\ fsm_state = "IDLE" /\ capacity = 0
  BY DEF InReset
<1>2. Stored = <<>>
  BY <1>1 DEF Stored, Stretch
<1>3. Contents = Row(Row(<<>>, <<>>), <<>>)
  BY <1>1, <1>2, Form DEF Port, Read, One
<1>4. <<>> \in Seq(Words)
  OBVIOUS
<1>5. Contents = <<>>
  BY <1>3, <1>4, RowEmpty
<1> QED
  BY <1>1, <1>5 DEF Fifo!Quiet

\* Every step is one of the FIFO or changes nothing it shows.
LEMMA FifoNext ==
    Inv /\ Inv' /\ InReset' /\ [Next]_vars => [Fifo!Next]_(Fifo!vars)
<1> SUFFICES ASSUME Inv, Inv', InReset', [Next]_vars
             PROVE  [Fifo!Next]_(Fifo!vars)
  OBVIOUS
<1>1. CASE Clock
  BY <1>1, QueueTransfer DEF Fifo!Next
<1>2. CASE ClockInReset \/ Reset
  <2>1. ~areset_n'
    BY <1>2 DEF ClockInReset, Reset
  <2>2. (InReset /\ ~areset_n => Fifo!Quiet)'
    BY QuietInReset, PTL
  <2> QED
    BY <2>1, <2>2 DEF Fifo!Next, Fifo!Reset
<1>3. CASE Release
  <2>1. Contents' = Contents
    BY <1>3 DEF Release, inputs, Contents
  <2> QED
    BY <1>3, <2>1 DEF Release, Fifo!Next, Fifo!Release
<1>4. CASE UNCHANGED vars
  <2>1. Contents' = Contents
    BY <1>4 DEF vars, inputs, Contents
  <2> QED
    BY <1>4, <2>1 DEF vars, inputs, Fifo!vars
<1> QED
  BY <1>1, <1>2, <1>3, <1>4 DEF Next

(***************************************************************************)
(* For every memory depth and every set of words the queue is a FIFO of    *)
(* MEMORY_DEPTH + 2 words: whatever the stalls, the bursts, the pointers'  *)
(* wraps and the resets do, no word is lost, duplicated, reordered or      *)
(* withdrawn.                                                              *)
(***************************************************************************)
THEOREM Implements == Spec => RefinesFifo
<1>1. Init => Fifo!Init
  <2>1. Init => InReset /\ ~areset_n
    BY DEF Init, InReset
  <2> QED
    BY <2>1, QuietInReset DEF Fifo!Init
<1> QED
  BY <1>1, FifoNext, Invariance, InResetInvariance, PTL
  DEF Spec, Fifo!Spec, RefinesFifo

=============================================================================
