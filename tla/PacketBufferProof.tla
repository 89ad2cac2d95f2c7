------------------------- MODULE PacketBufferProof -------------------------
(***************************************************************************)
(* Theorems about logic_axi4_stream_packet_buffer, for every capacity and  *)
(* every set of words.  What the queue inside does is taken from           *)
(* BasicQueueProof, on the wires of the packet buffer; what is added is    *)
(* that the two counters at its ports never run ahead of it.               *)
(***************************************************************************)
EXTENDS PacketBuffer, Rows, FiniteSetTheorems, FunctionTheorems

Q == INSTANCE BasicQueueProof
    WITH MEMORY_DEPTH <- 2^CAPACITY_WIDTH,
         areset_n     <- queue_areset_n,
         tx_tready    <- queued_tready,
         tx_tvalid    <- queued_tvalid,
         tx_tdata     <- queued_tdata,
         almost_empty <- queue_almost_empty,
         fsm_state    <- queue_fsm_state

Words == DATA \cup {UNKNOWN}

-----------------------------------------------------------------------------
\* The number of words with tlast in a sequence.

Lasts(s) == Cardinality(LastsIn(s))

\* There are finitely many.
LEMMA LastsFinite ==
    ASSUME NEW S, NEW s \in Seq(S)
    PROVE  /\ LastsIn(s) \subseteq 1 .. Len(s)
           /\ IsFiniteSet(LastsIn(s))
           /\ Lasts(s) \in Nat
<1>1. Len(s) \in Nat /\ DOMAIN s = 1 .. Len(s)
  BY LenProperties
<1>2. LastsIn(s) \subseteq 1 .. Len(s)
  BY <1>1 DEF LastsIn
<1>3. IsFiniteSet(1 .. Len(s))
  BY <1>1, FS_Interval
<1>4. IsFiniteSet(LastsIn(s))
  BY <1>2, <1>3, FS_Subset
<1> QED
  BY <1>2, <1>4, FS_CardinalityType DEF Lasts

\* A word that comes in adds one if it carries tlast.
LEMMA LastsPut ==
    ASSUME NEW S, NEW s \in Seq(S), NEW word \in S
    PROVE  Lasts(Row(s, <<word>>)) = Lasts(s) + (IF word \in LAST THEN 1 ELSE 0)
<1> DEFINE n == Len(s) + 1
           t == s \o <<word>>
<1>1. <<word>> \in Seq(S) /\ Len(<<word>>) = 1 /\ <<word>>[1] = word
  OBVIOUS
<1>2. Len(s) \in Nat /\ DOMAIN s = 1 .. Len(s)
  BY LenProperties
<1>3. /\ t \in Seq(S)
      /\ Len(t) = n
      /\ \A i \in 1 .. n : t[i] = IF i <= Len(s) THEN s[i] ELSE <<word>>[i - Len(s)]
  BY <1>1, ConcatProperties
<1>4. DOMAIN t = 1 .. n
  BY <1>3, LenProperties
<1>5. /\ t[n] = word
      /\ \A i \in 1 .. Len(s) : t[i] = s[i]
  BY <1>1, <1>2, <1>3
<1>6. LastsIn(s) \subseteq 1 .. Len(s) /\ IsFiniteSet(LastsIn(s))
  BY LastsFinite
<1> HIDE DEF t
<1>7. CASE word \in LAST
  <2>1. LastsIn(t) = LastsIn(s) \cup {n}
    BY <1>2, <1>4, <1>5, <1>7 DEF LastsIn
  <2>2. n \notin LastsIn(s)
    BY <1>2, <1>6
  <2>3. Cardinality(LastsIn(s) \cup {n}) = Cardinality(LastsIn(s)) + 1
    BY <1>6, <2>2, FS_AddElement
  <2> QED
    BY <1>7, <2>1, <2>3 DEF Lasts, Row, t
<1>8. CASE word \notin LAST
  <2>1. LastsIn(t) = LastsIn(s)
    BY <1>2, <1>4, <1>5, <1>8 DEF LastsIn
  <2>2. Lasts(s) \in Nat
    BY LastsFinite
  <2> QED
    BY <1>8, <2>1, <2>2 DEF Lasts, Row, t
<1> QED
  BY <1>7, <1>8

\* The word that leaves takes one away if it carries tlast.
LEMMA LastsTaken ==
    ASSUME NEW S, NEW s \in Seq(S), s # <<>>
    PROVE  Lasts(Tail(s)) = Lasts(s) - (IF Head(s) \in LAST THEN 1 ELSE 0)
<1> DEFINE t == Tail(s)
<1>1. /\ t \in Seq(S)
      /\ Len(t) = Len(s) - 1
      /\ \A i \in 1 .. Len(t) : t[i] = s[i + 1]
  BY HeadTailProperties
<1>2. Len(s) \in Nat /\ Len(s) >= 1 /\ DOMAIN s = 1 .. Len(s)
  BY LenProperties, EmptySeq
<1>3. DOMAIN t = 1 .. Len(s) - 1
  BY <1>1, LenProperties
<1>4. Head(s) = s[1]
  BY <1>2
<1>5. LastsIn(s) \subseteq 1 .. Len(s) /\ IsFiniteSet(LastsIn(s))
  BY LastsFinite
<1>6. IsFiniteSet(LastsIn(t))
  BY <1>1, LastsFinite
<1> HIDE DEF t
<1>7. Cardinality(LastsIn(s) \ {1}) = Cardinality(LastsIn(t))
  <2> DEFINE later == [i \in LastsIn(t) |-> i + 1]
  <2>1. later \in [LastsIn(t) -> LastsIn(s) \ {1}]
    <3>1. \A i \in LastsIn(t) : i + 1 \in LastsIn(s) \ {1}
      BY <1>1, <1>2, <1>3 DEF LastsIn
    <3> QED
      BY <3>1
  <2>2. \A i, j \in LastsIn(t) : later[i] = later[j] => i = j
    BY <1>2, <1>3 DEF LastsIn
  <2>3. \A k \in LastsIn(s) \ {1} : \E i \in LastsIn(t) : later[i] = k
    <3> SUFFICES ASSUME NEW k \in LastsIn(s) \ {1}
                 PROVE  \E i \in LastsIn(t) : later[i] = k
      OBVIOUS
    <3>1. k - 1 \in 1 .. Len(s) - 1 /\ k - 1 + 1 = k /\ s[k] \in LAST
      BY <1>2, <1>5 DEF LastsIn
    <3>2. t[k - 1] = s[k]
      BY <1>1, <3>1
    <3>3. k - 1 \in LastsIn(t)
      BY <1>3, <3>1, <3>2 DEF LastsIn
    <3> QED
      BY <3>1, <3>3
  <2> HIDE DEF later
  <2>4. later \in Bijection(LastsIn(t), LastsIn(s) \ {1})
    BY <2>1, <2>2, <2>3, Fun_IsBij
  <2>5. ExistsBijection(LastsIn(t), LastsIn(s) \ {1})
    BY <2>4 DEF ExistsBijection
  <2> QED
    BY <1>6, <2>5, FS_Bijection
<1>8. Cardinality(LastsIn(s) \ {1}) =
          IF 1 \in LastsIn(s) THEN Cardinality(LastsIn(s)) - 1
                              ELSE Cardinality(LastsIn(s))
  BY <1>5, FS_RemoveElement
<1>9. 1 \in LastsIn(s) <=> Head(s) \in LAST
  BY <1>2, <1>4 DEF LastsIn
<1>10. Lasts(s) \in Nat
  BY LastsFinite
<1> QED
  BY <1>7, <1>8, <1>9, <1>10 DEF Lasts, t

-----------------------------------------------------------------------------
\* The inductive invariant.

(***************************************************************************)
(* What the flags of a counter, registered one clock ago, still say about  *)
(* it: at its maximum the counter stops, and at zero too.  Until the first *)
(* clock after a reset, which raises tvalid, almost_empty says nothing.    *)
(***************************************************************************)
FlagsInv(counter, counter_almost_empty, counter_almost_full, counter_tvalid) ==
    /\ counter \in 0 .. CAPACITY
    /\ {counter_almost_empty, counter_almost_full, counter_tvalid} \subseteq BOOLEAN
    /\ counter = CAPACITY => counter_almost_full
    /\ counter_tvalid => IF counter_almost_empty THEN counter <= 2 ELSE counter >= 1
    /\ ~counter_tvalid => counter = 0 /\ queue_chain = Cleared

CountersInv ==
    /\ FlagsInv(transfers, transfers_almost_empty, transfers_almost_full,
                transfers_tvalid)
    /\ FlagsInv(packets, packets_almost_empty, packets_almost_full, packets_tvalid)

(***************************************************************************)
(* The reset synchronizer of the queue: it starts cleared and fills from   *)
(* the top.                                                                *)
(***************************************************************************)
ChainInv ==
    /\ queue_chain \in Chains
    /\ queue_chain[0] => queue_chain[1]
    /\ ~areset_n => queue_chain = Cleared

(***************************************************************************)
(* A cleared almost_empty is late by one clock, in which one packet may    *)
(* have left: one is still there.  While the queue is in reset nothing is  *)
(* shown.                                                                  *)
(***************************************************************************)
GateInv ==
    /\ {areset_n, tx_tready, tx_tvalid, almost_empty, almost_full} \subseteq BOOLEAN
    /\ fsm_state \in {"IDLE", "READ", "FLUSH"}
    /\ tx_tdata \in Words
    /\ ~almost_empty => packets >= 1
    /\ ~queue_areset_n => ~tx_tvalid

Inv ==
    /\ Q!Inv /\ Q!InReset
    /\ ChainInv
    /\ CountersInv
    /\ GateInv
    /\ CountersBehind

-----------------------------------------------------------------------------
\* The queue inside takes steps of a queue.

\* The design rule of the queue.
LEMMA Depth == /\ 2^CAPACITY_WIDTH \in Nat
               /\ 2^CAPACITY_WIDTH >= 4
               /\ UNKNOWN \notin DATA
BY PacketBufferAssumption

\* The chain of the synchronizer has two registers.
LEMMA ChainStages == 0 \in 0 .. STAGES - 1 /\ 1 \in 0 .. STAGES - 1 /\ STAGES - 1 = 1
BY PacketBufferAssumption

\* The queue leaves its reset at a clock edge and then stays out of it.
LEMMA ChainStep == Inv /\ [Next]_vars =>
    /\ ChainInv'
    /\ Clock /\ queue_areset_n => queue_areset_n'
    /\ Reset => ~queue_areset_n'
<1> SUFFICES ASSUME Inv, [Next]_vars
             PROVE  /\ ChainInv'
                    /\ Clock /\ queue_areset_n => queue_areset_n'
                    /\ Reset => ~queue_areset_n'
  OBVIOUS
<1>1. CASE Clock
  <2>1. queue_chain' = [k \in 0 .. STAGES - 1 |-> k = STAGES - 1 \/ queue_chain[k + 1]]
    BY <1>1 DEF Clock, ClockQueue, Shifted
  <2>2. queue_chain' \in Chains
    <3>1. \A k \in 0 .. STAGES - 1 :
              (k = STAGES - 1 \/ queue_chain[k + 1]) \in BOOLEAN
      OBVIOUS
    <3> QED
      BY <2>1, <3>1 DEF Chains
  <2>3. queue_chain[1] => queue_chain'[0]
    <3>1. queue_chain'[0] = (0 = STAGES - 1 \/ queue_chain[0 + 1])
      BY <2>1, ChainStages
    <3>2. 0 + 1 = 1
      OBVIOUS
    <3> QED
      BY <3>1, <3>2, Zenon
  <2>4. queue_chain'[1]
    BY <2>1, ChainStages
  <2>5. areset_n'
    BY <1>1 DEF Clock
  <2>6. Clock /\ queue_areset_n => queue_areset_n'
    BY <2>3 DEF Inv, ChainInv, queue_areset_n, Synced
  <2>7. ~Reset
    BY <1>1 DEF Clock, Reset
  <2> QED
    BY <2>2, <2>4, <2>5, <2>6, <2>7 DEF ChainInv
<1>2. CASE Reset
  <2>1. queue_chain' = Cleared
    BY <1>2 DEF Reset, ResetRegisters
  <2>2. Cleared \in Chains /\ ~Cleared[0]
    BY ChainStages DEF Cleared, Chains
  <2>3. ~Clock
    BY <1>2 DEF Clock, Reset
  <2> QED
    BY <2>1, <2>2, <2>3 DEF ChainInv, queue_areset_n, Synced
<1>3. CASE Release \/ UNCHANGED vars
  <2>1. queue_chain' = queue_chain /\ (areset_n' \/ areset_n' = areset_n)
    BY <1>3 DEF Release, vars
  <2>2. Clock /\ queue_areset_n => queue_areset_n'
    BY <2>1 DEF queue_areset_n, Synced
  <2>3. ~Reset
    BY <1>3 DEF Release, Reset, vars, Inv, GateInv
  <2> QED
    BY <2>1, <2>2, <2>3 DEF Inv, ChainInv
<1> QED
  BY <1>1, <1>2, <1>3 DEF Next

\* A clock edge is a clock edge of the queue, out of its reset ...
LEMMA QueueClocks == Inv /\ Clock /\ queue_areset_n => Q!Clock
<1> SUFFICES ASSUME Inv, Clock, queue_areset_n PROVE Q!Clock
  OBVIOUS
<1>1. queue_areset_n' = queue_areset_n
  <2>1. queue_areset_n'
    BY ChainStep DEF Next
  <2>2. queue_areset_n \in BOOLEAN /\ queue_areset_n' \in BOOLEAN
    <3>1. ChainInv /\ ChainInv'
      BY ChainStep DEF Inv, Next
    <3> QED
      BY <3>1, ChainStages DEF ChainInv, Chains, queue_areset_n, Synced
  <2> QED
    BY <2>1, <2>2
<1>2. queued_tready' \in BOOLEAN
  BY DEF queued_tready
<1>3. Queue!WriteService /\ Queue!ReadService /\ Queue!CapacityService
      /\ Queue!MemoryService /\ Queue!RxDrive
  BY DEF Clock, ClockQueue, RxDrive
<1>4. Q!WriteService
  BY <1>3 DEF Queue!WriteService, Q!WriteService, Queue!almost_full,
     Q!almost_full,
     Queue!write_enable, Q!write_enable, Queue!NextPointer, Q!NextPointer,
     Queue!ALMOST_FULL, Q!ALMOST_FULL
<1>5. Q!ReadService
  BY <1>3 DEF Queue!ReadService, Q!ReadService, Queue!ALMOST_EMPTY,
     Q!ALMOST_EMPTY,
     Queue!read_enable, Q!read_enable, Queue!NextPointer, Q!NextPointer,
     Queue!FsmState, Q!FsmState, Queue!TxData, Q!TxData, Queue!empty, Q!empty
<1>6. Q!CapacityService
  BY <1>3 DEF Queue!CapacityService, Q!CapacityService,
     Queue!read_enable, Q!read_enable, Queue!write_enable, Q!write_enable,
     Queue!NextCapacity, Q!NextCapacity, Queue!PreviousCapacity, Q!PreviousCapacity,
     Queue!empty, Q!empty
<1>7. Q!MemoryService
  BY <1>3 DEF Queue!MemoryService, Q!MemoryService,
     Queue!read_enable, Q!read_enable, Queue!write_enable, Q!write_enable,
     Queue!empty, Q!empty
<1>8. Q!RxDrive
  BY <1>3 DEF Queue!RxDrive, Q!RxDrive
<1> QED
  BY <1>1, <1>2, <1>4, <1>5, <1>6, <1>7, <1>8 DEF Q!Clock, Q!TxDrive

\* ... and in it.
LEMMA QueueHeld == Inv /\ Clock /\ ~queue_areset_n => Q!Held
<1> SUFFICES ASSUME Inv, Clock, ~queue_areset_n PROVE Q!Held
  OBVIOUS
<1>1. queue_areset_n' \in BOOLEAN
  <2>1. ChainInv'
    BY ChainStep DEF Next
  <2> QED
    BY <2>1, ChainStages DEF ChainInv, Chains, queue_areset_n, Synced
<1>2. queued_tready' \in BOOLEAN
  BY DEF queued_tready
<1>3. Queue!MemoryService /\ Queue!TxData /\ Queue!RxDrive
      /\ UNCHANGED queueRegisters
  BY DEF Clock, ClockQueue, RxDrive
<1>4. Q!MemoryService
  BY <1>3 DEF Queue!MemoryService, Q!MemoryService,
     Queue!read_enable, Q!read_enable, Queue!write_enable, Q!write_enable,
     Queue!empty, Q!empty
<1>5. Q!TxData /\ Q!RxDrive
  BY <1>3 DEF Queue!TxData, Q!TxData, Queue!RxDrive, Q!RxDrive
<1> QED
  BY <1>1, <1>2, <1>3, <1>4, <1>5 DEF Q!Held, Q!TxDrive, queueRegisters

\* A reset of the packet buffer empties the queue at once.
LEMMA QueueEmptied == Inv /\ Reset => Q!Emptied
<1> SUFFICES ASSUME Inv, Reset PROVE Q!Emptied
  OBVIOUS
<1>1. queue_areset_n' = FALSE
  BY ChainStages DEF Reset, ResetRegisters, queue_areset_n, Synced, Cleared
<1>2. queued_tready' \in BOOLEAN
  BY DEF queued_tready
<1> QED
  BY <1>1, <1>2 DEF Q!Emptied, Reset, ResetRegisters, dataRegisters

\* The other steps do not touch it.
LEMMA QueueUnchanged == Release \/ UNCHANGED vars => UNCHANGED Q!vars
BY DEF Release, vars, inputs, queueRegisters, counterRegisters, gateRegisters,
   dataRegisters, Q!vars, Q!inputs, queued_tready, Open, empty, queue_areset_n, Synced

\* So its invariant is kept.
LEMMA QueueInv == Inv /\ [Next]_vars => Q!Inv' /\ Q!InReset'
<1> SUFFICES ASSUME Inv, [Next]_vars PROVE Q!Inv' /\ Q!InReset'
  OBVIOUS
<1>1. CASE Clock /\ queue_areset_n
  <2>1. Q!Clock
    BY <1>1, QueueClocks
  <2>2. Q!Inv'
    BY <2>1, Q!ClockInv, Depth DEF Inv
  <2>3. queue_areset_n'
    BY <1>1, ChainStep
  <2> QED
    BY <2>2, <2>3 DEF Q!InReset
<1>2. CASE Clock /\ ~queue_areset_n
  <2>1. Q!Held
    BY <1>2, QueueHeld
  <2>2. Q!Inv'
    BY <2>1, Q!HeldInv, Depth DEF Inv
  <2> QED
    BY <1>2, <2>1, <2>2 DEF Inv, Q!InReset, Q!Held
<1>3. CASE Reset
  <2>1. Q!Emptied
    BY <1>3, QueueEmptied
  <2>2. Q!Inv'
    BY <2>1, Q!EmptiedInv, Depth DEF Inv
  <2> QED
    BY <2>1, <2>2 DEF Q!InReset, Q!Emptied
<1>4. CASE Release \/ UNCHANGED vars
  <2>1. UNCHANGED Q!vars
    BY <1>4, QueueUnchanged
  <2>2. Q!Inv'
    BY <2>1, Q!StutterInv, Depth DEF Inv
  <2> QED
    BY <2>1, <2>2 DEF Inv, Q!InReset, Q!vars
<1> QED
  BY <1>1, <1>2, <1>3, <1>4 DEF Next

-----------------------------------------------------------------------------
\* The words in the queue.

Arriving == One(Written, rx_tdata)
QueueOffered == Row(Queued, Arriving)

\* They are a sequence of words, and so they are with the word that arrives.
LEMMA QueuedSeq == Inv =>
    /\ Queued \in Seq(Words)
    /\ Arriving \in Seq(Words)
    /\ QueueOffered \in Seq(Words)
    /\ Written \in BOOLEAN /\ rx_tdata \in Words /\ queued_tdata \in Words
<1> SUFFICES ASSUME Inv
             PROVE  /\ Queued \in Seq(Words)
                    /\ Arriving \in Seq(Words)
                    /\ QueueOffered \in Seq(Words)
                    /\ Written \in BOOLEAN /\ rx_tdata \in Words
                    /\ queued_tdata \in Words
  OBVIOUS
<1>1. Q!Contents \in Seq(Q!Words)
  BY Q!ContentsSeq, Depth DEF Inv
<1>2. Q!Words = Words
  BY DEF Q!Words, Words
<1>3. Queued = Q!Contents
  BY DEF Queued, Queue!Contents, Q!Contents
<1>4. Q!TypeOK
  BY DEF Inv, Q!Inv
<1>5. /\ rx_tdata \in Words /\ queued_tdata \in Words
      /\ Written \in BOOLEAN
  BY <1>2, <1>4 DEF Q!TypeOK, Words, Written
<1>6. Queued \in Seq(Words)
  BY <1>1, <1>2, <1>3, Zenon
<1>7. Arriving \in Seq(Words)
  BY <1>5, OneSeq DEF Arriving
<1> QED
  BY <1>5, <1>6, <1>7, RowSeq DEF QueueOffered

\* While the queue is in reset nothing comes in, is inside or goes out.
LEMMA QueueQuiet == Inv /\ ~queue_areset_n => Queued = <<>> /\ ~Written /\ ~Read
<1> SUFFICES ASSUME Inv, ~queue_areset_n PROVE Queued = <<>> /\ ~Written /\ ~Read
  OBVIOUS
<1>1. Q!Fifo!Quiet
  BY Q!QuietInReset, Depth DEF Inv
<1>2. Queued = Q!Contents
  BY DEF Queued, Queue!Contents, Q!Contents
<1> QED
  BY <1>1, <1>2 DEF Q!Fifo!Quiet, Written, Read

\* A clock edge takes the word that is read from the front, if there is one, and
\* puts the one that arrives at the end.
LEMMA QueueMoves == Inv /\ Clock =>
    /\ Read => QueueOffered # <<>> /\ Head(QueueOffered) = queued_tdata
    /\ Queued' = IF Read THEN Tail(QueueOffered) ELSE QueueOffered
    /\ Len(Queued') <= 2^CAPACITY_WIDTH + 2
<1> SUFFICES ASSUME Inv, Clock
    PROVE  /\ Read => QueueOffered # <<>> /\ Head(QueueOffered) = queued_tdata
           /\ Queued' = IF Read THEN Tail(QueueOffered) ELSE QueueOffered
           /\ Len(Queued') <= 2^CAPACITY_WIDTH + 2
  OBVIOUS
<1>1. Queued = Q!Contents /\ Queued' = Q!Contents'
  BY DEF Queued, Queue!Contents, Q!Contents
<1>2. Q!Fifo!Offered = QueueOffered
  BY <1>1 DEF Q!Fifo!Offered, Q!Fifo!Accepted, QueueOffered, Row, Arriving,
     One,
     Written
<1>3. CASE queue_areset_n
  <2>1. Q!Clock
    BY <1>3, QueueClocks
  <2>2. Q!Inv'
    BY QueueInv DEF Next
  <2>3. Q!Fifo!Transfer
    BY <2>1, <2>2, Q!QueueTransfer, Depth DEF Inv
  <2>4. /\ queued_tvalid => QueueOffered # <<>> /\ queued_tdata = Head(QueueOffered)
        /\ Q!Contents' = IF queued_tvalid /\ queued_tready
                         THEN Tail(QueueOffered) ELSE QueueOffered
        /\ Len(Q!Contents') <= 2^CAPACITY_WIDTH + 2
    BY <1>2, <2>3 DEF Q!Fifo!Transfer, Q!Fifo!Delivered
  <2> QED
    BY <1>1, <2>4 DEF Read
<1>4. CASE ~queue_areset_n
  <2>1. Queued = <<>> /\ ~Written /\ ~Read
    BY <1>4, QueueQuiet
  <2>2. Q!Held
    BY <1>4, QueueHeld
  <2>3. queue_fsm_state = "IDLE" /\ ~queued_tvalid /\ capacity = 0
    BY <1>4 DEF Inv, Q!InReset
  <2>4. queue_fsm_state' = "IDLE" /\ ~queued_tvalid' /\ capacity' = 0
    BY <2>2, <2>3 DEF Q!Held
  <2>5. Queued' = <<>> \o <<>> \o <<>>
    BY <2>4 DEF Queued, Queue!Contents
  <2>6. <<>> \in Seq(Words) /\ Len(<<>>) = 0
    BY EmptySeq
  <2>7. Queued' = <<>>
    BY <2>5, <2>6, ConcatEmptySeq
  <2>8. QueueOffered = <<>>
    BY <2>1, <2>6, RowEmpty DEF QueueOffered, Arriving, One
  <2> QED
    BY <2>1, <2>6, <2>7, <2>8, Depth
<1> QED
  BY <1>3, <1>4

\* So the numbers of words and of last words change by what passes the ports.
LEMMA QueueCounts == Inv /\ Clock =>
    /\ Len(Queued') = Len(Queued) + (IF Written THEN 1 ELSE 0)
                                  - (IF Read THEN 1 ELSE 0)
    /\ Lasts(Queued') = Lasts(Queued)
                            + (IF Written /\ rx_tdata \in LAST THEN 1 ELSE 0)
                            - (IF Read /\ queued_tdata \in LAST THEN 1 ELSE 0)
    /\ {Len(Queued), Len(Queued'), Lasts(Queued), Lasts(Queued')} \subseteq Nat
<1> SUFFICES ASSUME Inv, Clock
    PROVE  /\ Len(Queued') = Len(Queued) + (IF Written THEN 1 ELSE 0)
                                         - (IF Read THEN 1 ELSE 0)
           /\ Lasts(Queued') = Lasts(Queued)
                            + (IF Written /\ rx_tdata \in LAST THEN 1 ELSE 0)
                            - (IF Read /\ queued_tdata \in LAST THEN 1 ELSE 0)
           /\ {Len(Queued), Len(Queued'), Lasts(Queued), Lasts(Queued')} \subseteq Nat
  OBVIOUS
<1>1. /\ Queued \in Seq(Words) /\ Arriving \in Seq(Words)
      /\ QueueOffered \in Seq(Words)
      /\ Written \in BOOLEAN /\ rx_tdata \in Words
  BY QueuedSeq
<1>2. /\ Read => QueueOffered # <<>> /\ Head(QueueOffered) = queued_tdata
      /\ Queued' = IF Read THEN Tail(QueueOffered) ELSE QueueOffered
  BY QueueMoves
<1>3. /\ Len(QueueOffered) = Len(Queued) + (IF Written THEN 1 ELSE 0)
      /\ Lasts(QueueOffered) =
             Lasts(Queued) + (IF Written /\ rx_tdata \in LAST THEN 1 ELSE 0)
  <2>1. CASE Written
    <3>1. Arriving = <<rx_tdata>> /\ Len(Arriving) = 1
      BY <2>1 DEF Arriving, One
    <3>2. Len(QueueOffered) = Len(Queued) + 1
      BY <1>1, <3>1, RowSeq DEF QueueOffered
    <3>3. Lasts(QueueOffered) = Lasts(Queued) + (IF rx_tdata \in LAST THEN 1 ELSE 0)
      BY <1>1, <3>1, LastsPut DEF QueueOffered
    <3> QED
      BY <2>1, <3>2, <3>3
  <2>2. CASE ~Written
    <3>1. Arriving = <<>>
      BY <2>2 DEF Arriving, One
    <3>2. QueueOffered = Queued
      BY <1>1, <3>1, RowEmpty DEF QueueOffered
    <3>3. Len(Queued) \in Nat /\ Lasts(Queued) \in Nat
      BY <1>1, LenProperties, LastsFinite
    <3> QED
      BY <2>2, <3>2, <3>3
  <2> QED
    BY <2>1, <2>2
<1>4. /\ Len(Queued') = Len(QueueOffered) - (IF Read THEN 1 ELSE 0)
      /\ Lasts(Queued') = Lasts(QueueOffered)
                            - (IF Read /\ queued_tdata \in LAST THEN 1 ELSE 0)
      /\ Queued' \in Seq(Words)
  <2>1. CASE Read
    <3>1. Tail(QueueOffered) \in Seq(Words)
          /\ Len(Tail(QueueOffered)) = Len(QueueOffered) - 1
      BY <1>1, <1>2, <2>1, HeadTailProperties
    <3>2. Lasts(Tail(QueueOffered)) = Lasts(QueueOffered)
              - (IF Head(QueueOffered) \in LAST THEN 1 ELSE 0)
      BY <1>1, <1>2, <2>1, LastsTaken
    <3>3. Queued' = Tail(QueueOffered) /\ Head(QueueOffered) = queued_tdata
      BY <1>2, <2>1
    <3> QED
      BY <2>1, <3>1, <3>2, <3>3
  <2>2. CASE ~Read
    <3>1. Queued' = QueueOffered
      BY <1>2, <2>2
    <3>2. Len(QueueOffered) \in Nat /\ Lasts(QueueOffered) \in Nat
      BY <1>1, LenProperties, LastsFinite
    <3> QED
      BY <1>1, <2>2, <3>1, <3>2
  <2> QED
    BY <2>1, <2>2
<1>5. /\ Len(Queued) \in Nat /\ Lasts(Queued) \in Nat
      /\ Len(Queued') \in Nat /\ Lasts(Queued') \in Nat
  BY <1>1, <1>4, LenProperties, LastsFinite
<1>6. Len(QueueOffered) \in Nat /\ Lasts(QueueOffered) \in Nat
  BY <1>1, LenProperties, LastsFinite
<1>7. Len(Queued') = Len(Queued) + (IF Written THEN 1 ELSE 0)
                                 - (IF Read THEN 1 ELSE 0)
  BY <1>3, <1>4, <1>5, <1>6
<1>8. Lasts(Queued') = Lasts(Queued)
                            + (IF Written /\ rx_tdata \in LAST THEN 1 ELSE 0)
                            - (IF Read /\ queued_tdata \in LAST THEN 1 ELSE 0)
  <2> DEFINE in == IF Written /\ rx_tdata \in LAST THEN 1 ELSE 0
             out == IF Read /\ queued_tdata \in LAST THEN 1 ELSE 0
  <2>1. in \in {0, 1} /\ out \in {0, 1}
    OBVIOUS
  <2>2. Lasts(QueueOffered) = Lasts(Queued) + in
        /\ Lasts(Queued') = Lasts(QueueOffered) - out
    BY <1>3, <1>4
  <2> HIDE DEF in, out
  <2>3. Lasts(Queued') = Lasts(Queued) + in - out
    BY <1>5, <1>6, <2>1, <2>2
  <2> QED
    BY <2>3 DEF in, out
<1> QED
  BY <1>5, <1>7, <1>8

-----------------------------------------------------------------------------
\* The counters.

\* The next value of a counter, as TransferCounter has it with Tx ready.
Counted(c, ae, af, put, taken) ==
    CASE put /\ ~taken /\ ~(af /\ c % 4 = CAPACITY % 4) ->
             (IF c = COUNTER_SIZE - 1 THEN 0 ELSE c + 1)
      [] ~put /\ taken /\ ~(ae /\ c % 4 = 0) ->
             (IF c = 0 THEN COUNTER_SIZE - 1 ELSE c - 1)
      [] OTHER -> c

(***************************************************************************)
(* What a clock edge makes of a counter c that stays behind the number n   *)
(* of what it counts, when its flags say what they should: it stops at its *)
(* maximum and at zero, moves by at most one, and stays behind.            *)
(***************************************************************************)
LEMMA CounterStep ==
    ASSUME NEW c \in 0 .. CAPACITY, NEW n \in Nat, c <= n,
           NEW ae \in BOOLEAN, NEW af \in BOOLEAN,
           NEW put \in BOOLEAN, NEW taken \in BOOLEAN,
           c = CAPACITY => af,
           IF ae THEN c <= 2 ELSE c >= 1,
           taken /\ ~put => n >= 1
    PROVE  LET d == Counted(c, ae, af, put, taken)
           IN  /\ d \in 0 .. CAPACITY
               /\ d = CAPACITY => c >= CAPACITY - 1
               /\ IF c <= 1 THEN d <= 2 ELSE d >= 1
               /\ d <= n + (IF put THEN 1 ELSE 0) - (IF taken THEN 1 ELSE 0)
<1> DEFINE d == Counted(c, ae, af, put, taken)
<1>0. d = CASE put /\ ~taken /\ ~(af /\ c % 4 = CAPACITY % 4) ->
                  (IF c = COUNTER_SIZE - 1 THEN 0 ELSE c + 1)
           [] ~put /\ taken /\ ~(ae /\ c % 4 = 0) ->
                  (IF c = 0 THEN COUNTER_SIZE - 1 ELSE c - 1)
           [] OTHER -> c
  BY DEF Counted
<1> SUFFICES /\ d \in 0 .. CAPACITY
             /\ d = CAPACITY => c >= CAPACITY - 1
             /\ IF c <= 1 THEN d <= 2 ELSE d >= 1
             /\ d <= n + (IF put THEN 1 ELSE 0) - (IF taken THEN 1 ELSE 0)
  OBVIOUS
<1> HIDE DEF d
<1>1. /\ CAPACITY \in Nat /\ CAPACITY >= 4
      /\ COUNTER_SIZE \in Nat /\ CAPACITY < COUNTER_SIZE
  BY PacketBufferAssumption
<1>2. CASE put /\ ~taken
  <2>1. CASE c = CAPACITY
    <3>1. d = c
      BY <1>0, <1>2, <2>1
    <3> QED
      BY <1>1, <1>2, <2>1, <3>1
  <2>2. CASE c # CAPACITY
    <3>1. c \in Nat /\ c < CAPACITY /\ c # COUNTER_SIZE - 1
      BY <1>1, <2>2
    <3> DEFINE full == af /\ c % 4 = CAPACITY % 4
    <3>2. d = IF ~full THEN c + 1 ELSE c
      BY <1>0, <1>2, <3>1
    <3> HIDE DEF full
    <3>3. d = c \/ d = c + 1
      BY <3>2
    <3> QED
      BY <1>1, <1>2, <3>1, <3>3
  <2> QED
    BY <2>1, <2>2
<1>3. CASE ~put /\ taken
  <2>1. CASE c = 0
    <3>1. ae /\ c % 4 = 0
      BY <1>1, <2>1
    <3>2. d = c
      BY <1>0, <1>3, <3>1
    <3> QED
      BY <1>1, <1>3, <2>1, <3>2
  <2>2. CASE c # 0
    <3>1. c \in 1 .. CAPACITY
      BY <1>1, <2>2
    <3>2. ~(ae /\ c % 4 = 0)
      <4>1. CASE ae
        <5>1. c \in {1, 2}
          BY <1>1, <3>1, <4>1
        <5> QED
          BY <5>1
      <4>2. CASE ~ae
        BY <4>2
      <4> QED
        BY <4>1, <4>2
    <3>3. d = c - 1
      BY <1>0, <1>3, <2>2, <3>2
    <3> QED
      BY <1>1, <1>3, <3>1, <3>3
  <2> QED
    BY <2>1, <2>2
<1>4. CASE (put <=> taken)
  <2>1. d = c
    BY <1>0, <1>4
  <2> QED
    BY <1>1, <1>4, <2>1
<1> QED
  BY <1>2, <1>3, <1>4

(***************************************************************************)
(* So at a clock edge, which also refreshes the flags, a counter keeps     *)
(* what its flags say.  Until the first one after a reset almost_empty may *)
(* be wrong, but then the queue is still in its reset and nothing passes.  *)
(***************************************************************************)
LEMMA WatchStep ==
    ASSUME NEW c, NEW ae, NEW af, NEW valid, FlagsInv(c, ae, af, valid),
           NEW n \in Nat, c <= n,
           NEW put \in BOOLEAN, NEW taken \in BOOLEAN,
           ~valid => ~put /\ ~taken,
           taken /\ ~put => n >= 1
    PROVE  LET d == Counted(c, ae, af, put, taken)
           IN  /\ d \in 0 .. CAPACITY
               /\ d = CAPACITY => c >= CAPACITY - 1
               /\ IF c <= 1 THEN d <= 2 ELSE d >= 1
               /\ d <= n + (IF put THEN 1 ELSE 0) - (IF taken THEN 1 ELSE 0)
<1> DEFINE d == Counted(c, ae, af, put, taken)
<1>1. /\ c \in 0 .. CAPACITY /\ ae \in BOOLEAN /\ af \in BOOLEAN
      /\ valid \in BOOLEAN
      /\ c = CAPACITY => af
  BY DEF FlagsInv
<1>2. CASE valid
  <2>1. IF ae THEN c <= 2 ELSE c >= 1
    BY <1>2 DEF FlagsInv
  <2> QED
    BY <1>1, <2>1, CounterStep
<1>3. CASE ~valid
  <2>1. ~put /\ ~taken
    BY <1>3
  <2>2. c = 0 /\ d = 0
    BY <1>3, <2>1 DEF FlagsInv, Counted
  <2> QED
    BY <1>1, <2>1, <2>2, PacketBufferAssumption
<1> QED
  BY <1>1, <1>2, <1>3

\* Refreshed flags say what they should.
LEMMA Refreshed ==
    ASSUME NEW c \in 0 .. CAPACITY, NEW d \in 0 .. CAPACITY,
           d = CAPACITY => c >= CAPACITY - 1,
           IF c <= 1 THEN d <= 2 ELSE d >= 1,
           NEW ae, NEW af, NEW valid,
           ae = (c <= 1), af = (c >= CAPACITY - 1), valid = TRUE
    PROVE  FlagsInv(d, ae, af, valid)
<1>1. ae \in BOOLEAN /\ af \in BOOLEAN /\ valid \in BOOLEAN
  OBVIOUS
<1>2. ae <=> c <= 1
  BY Zenon
<1>3. af <=> c >= CAPACITY - 1
  BY Zenon
<1> QED
  BY <1>1, <1>2, <1>3 DEF FlagsInv

\* The counter of words.
LEMMA TransfersStep == Inv /\ Clock =>
    /\ FlagsInv(transfers, transfers_almost_empty, transfers_almost_full,
                transfers_tvalid)'
    /\ transfers' <= Len(Queued')
<1> SUFFICES ASSUME Inv, Clock
    PROVE  /\ FlagsInv(transfers, transfers_almost_empty, transfers_almost_full,
                       transfers_tvalid)'
           /\ transfers' <= Len(Queued')
  OBVIOUS
<1>1. FlagsInv(transfers, transfers_almost_empty, transfers_almost_full,
               transfers_tvalid)
      /\ transfers <= Len(Queued)
  BY DEF Inv, CountersInv, CountersBehind
<1>2. /\ Len(Queued') = Len(Queued) + (IF Written THEN 1 ELSE 0)
                                    - (IF Read THEN 1 ELSE 0)
      /\ Len(Queued) \in Nat /\ Len(Queued') \in Nat
  BY QueueCounts
<1>3. Written \in BOOLEAN /\ Read \in BOOLEAN
  BY DEF Written, Read
<1>4. ~transfers_tvalid => ~Written /\ ~Read
  BY <1>1, QueueQuiet, ChainStages
  DEF FlagsInv, queue_areset_n, Synced, Cleared
<1>5. Read /\ ~Written => Len(Queued) >= 1
  BY <1>2
<1> DEFINE d == Counted(transfers, transfers_almost_empty, transfers_almost_full,
                        Written, Read)
<1>6. transfers' = d
  BY DEF Counted, Clock, ClockCounters, Transfers!Counter, Transfers!Up,
     Transfers!Down,
     Transfers!full, Transfers!empty
<1>7. /\ transfers_almost_empty' = (transfers <= 1)
      /\ transfers_almost_full' = (transfers >= CAPACITY - 1)
      /\ transfers_tvalid' = TRUE
  BY DEF Clock, ClockCounters, Transfers!Flags, Transfers!ALMOST_EMPTY,
     Transfers!ALMOST_FULL
<1>8. /\ d \in 0 .. CAPACITY
      /\ d = CAPACITY => transfers >= CAPACITY - 1
      /\ IF transfers <= 1 THEN d <= 2 ELSE d >= 1
      /\ d <= Len(Queued) + (IF Written THEN 1 ELSE 0) - (IF Read THEN 1 ELSE 0)
  BY <1>1, <1>2, <1>3, <1>4, <1>5, WatchStep
<1> HIDE DEF d
<1>9. transfers \in 0 .. CAPACITY
  BY <1>1 DEF FlagsInv
<1>10. FlagsInv(d, transfers_almost_empty', transfers_almost_full',
                transfers_tvalid')
  BY <1>7, <1>8, <1>9, Refreshed
<1>11. FlagsInv(transfers, transfers_almost_empty, transfers_almost_full,
                transfers_tvalid)'
  <2>1. transfers_tvalid'
    BY <1>7
  <2> QED
    BY <1>6, <1>10, <2>1 DEF FlagsInv
<1> QED
  BY <1>2, <1>6, <1>8, <1>11

\* The counter of packets, and what the gate reads off it.
LEMMA PacketsStep == Inv /\ Clock =>
    /\ FlagsInv(packets, packets_almost_empty, packets_almost_full,
                packets_tvalid)'
    /\ packets' <= Lasts(Queued')
    /\ packets > 1 => packets' >= 1
<1> SUFFICES ASSUME Inv, Clock
    PROVE  /\ FlagsInv(packets, packets_almost_empty, packets_almost_full,
                       packets_tvalid)'
           /\ packets' <= Lasts(Queued')
           /\ packets > 1 => packets' >= 1
  OBVIOUS
<1> DEFINE put == Written /\ rx_tdata \in LAST
           taken == Read /\ queued_tdata \in LAST
<1>1. FlagsInv(packets, packets_almost_empty, packets_almost_full,
               packets_tvalid)
      /\ packets <= Lasts(Queued)
  BY DEF Inv, CountersInv, CountersBehind, Lasts
<1>2. /\ Lasts(Queued') = Lasts(Queued) + (IF put THEN 1 ELSE 0)
                                        - (IF taken THEN 1 ELSE 0)
      /\ Lasts(Queued) \in Nat /\ Lasts(Queued') \in Nat
  BY QueueCounts
<1>3. put \in BOOLEAN /\ taken \in BOOLEAN
  BY DEF Written, Read
<1>4. ~packets_tvalid => ~put /\ ~taken
  BY <1>1, QueueQuiet, ChainStages
  DEF FlagsInv, queue_areset_n, Synced, Cleared
<1> DEFINE d == Counted(packets, packets_almost_empty, packets_almost_full,
                        put, taken)
<1>5. packets' = d
  BY DEF Counted, Clock, ClockCounters, Packets!Counter, Packets!Up,
     Packets!Down,
     Packets!full, Packets!empty
<1> HIDE DEF put, taken
<1>6. taken /\ ~put => Lasts(Queued) >= 1
  BY <1>2
<1>7. /\ packets_almost_empty' = (packets <= 1)
      /\ packets_almost_full' = (packets >= CAPACITY - 1)
      /\ packets_tvalid' = TRUE
  BY DEF Clock, ClockCounters, Packets!Flags, Packets!ALMOST_EMPTY,
     Packets!ALMOST_FULL
<1>8. /\ d \in 0 .. CAPACITY
      /\ d = CAPACITY => packets >= CAPACITY - 1
      /\ IF packets <= 1 THEN d <= 2 ELSE d >= 1
      /\ d <= Lasts(Queued) + (IF put THEN 1 ELSE 0) - (IF taken THEN 1 ELSE 0)
  BY <1>1, <1>2, <1>3, <1>4, <1>6, WatchStep
<1> HIDE DEF d
<1>9. packets \in 0 .. CAPACITY
  BY <1>1 DEF FlagsInv
<1>10. FlagsInv(d, packets_almost_empty', packets_almost_full', packets_tvalid')
  BY <1>7, <1>8, <1>9, Refreshed
<1>11. FlagsInv(packets, packets_almost_empty, packets_almost_full,
                packets_tvalid)'
  <2>1. packets_tvalid'
    BY <1>7
  <2> QED
    BY <1>5, <1>10, <2>1 DEF FlagsInv
<1>12. packets > 1 => packets' >= 1
  BY <1>5, <1>8, <1>9, PacketBufferAssumption
<1> QED
  BY <1>2, <1>5, <1>8, <1>11, <1>12

-----------------------------------------------------------------------------
\* The invariant is inductive.

\* A rising edge of aclk keeps what is known of the gate.
LEMMA GateClock == Inv /\ Clock => GateInv'
<1> SUFFICES ASSUME Inv, Clock PROVE GateInv'
  OBVIOUS
<1>1. /\ almost_empty' = (packets <= 1)
      /\ almost_full' = (transfers >= ALMOST_FULL)
      /\ tx_tvalid' = IF tx_tready THEN Read ELSE tx_tvalid
      /\ tx_tdata' = IF tx_tready THEN queued_tdata ELSE tx_tdata
      /\ tx_tready' \in BOOLEAN
      /\ areset_n' = areset_n
  BY DEF Clock, ClockGate, TxData, TxDrive, ALMOST_EMPTY
<1>2. /\ areset_n \in BOOLEAN /\ tx_tvalid \in BOOLEAN /\ tx_tdata \in Words
      /\ fsm_state \in {"IDLE", "READ", "FLUSH"}
      /\ packets \in 0 .. CAPACITY
  BY DEF Inv, GateInv, CountersInv, FlagsInv
<1>3. almost_empty' \in BOOLEAN /\ almost_full' \in BOOLEAN
  BY <1>1
<1>4. fsm_state' \in {"IDLE", "READ", "FLUSH"}
  BY <1>2 DEF Clock, ClockGate, FsmState
<1>5. tx_tvalid' \in BOOLEAN /\ tx_tdata' \in Words
  BY <1>1, <1>2, QueuedSeq DEF Read
<1>6. ~almost_empty' => packets' >= 1
  <2>1. ~almost_empty' => ~(packets <= 1)
    BY <1>1, Zenon
  <2>2. ~(packets <= 1) => packets > 1
    BY <1>2, PacketBufferAssumption
  <2> QED
    BY <2>1, <2>2, PacketsStep
<1>7. ~queue_areset_n' => ~tx_tvalid'
  <2>1. ~queue_areset_n' => ~queue_areset_n
    BY ChainStep DEF Next
  <2>2. ~queue_areset_n => ~tx_tvalid /\ ~Read
    BY QueueQuiet DEF Inv, GateInv
  <2> QED
    BY <1>1, <2>1, <2>2
<1> QED
  BY <1>1, <1>2, <1>3, <1>4, <1>5, <1>6, <1>7 DEF GateInv

\* It keeps the invariant.
LEMMA ClockInv == Inv /\ Clock => Inv'
<1> SUFFICES ASSUME Inv, Clock PROVE Inv'
  OBVIOUS
<1>1. Q!Inv' /\ Q!InReset' /\ ChainInv'
  BY QueueInv, ChainStep DEF Next
<1>2. CountersInv'
  BY TransfersStep, PacketsStep DEF CountersInv
<1>3. CountersBehind'
  BY TransfersStep, PacketsStep DEF CountersBehind, Lasts
<1> QED
  BY <1>1, <1>2, <1>3, GateClock DEF Inv

\* What the counters count, whatever it is.
LEMMA QueuedNat == Q!Inv => Len(Queued) \in Nat /\ Lasts(Queued) \in Nat
<1> SUFFICES ASSUME Q!Inv PROVE Len(Queued) \in Nat /\ Lasts(Queued) \in Nat
  OBVIOUS
<1>1. Q!Contents \in Seq(Q!Words)
  BY Q!ContentsSeq, Depth
<1>2. Queued = Q!Contents
  BY DEF Queued, Queue!Contents, Q!Contents
<1> QED
  BY <1>1, <1>2, LenProperties, LastsFinite

\* The registers after a reset.
Zeroed ==
    /\ queue_chain = Cleared
    /\ transfers = 0 /\ transfers_tvalid = FALSE
    /\ transfers_almost_empty = FALSE /\ transfers_almost_full = FALSE
    /\ packets = 0 /\ packets_tvalid = FALSE
    /\ packets_almost_empty = FALSE /\ packets_almost_full = FALSE
    /\ almost_empty = TRUE /\ almost_full = FALSE
    /\ fsm_state = "IDLE" /\ tx_tvalid = FALSE /\ tx_tready = FALSE
    /\ areset_n = FALSE /\ tx_tdata \in Words

\* Cleared registers satisfy the invariant.
LEMMA ZeroedInv == Zeroed /\ Q!Inv /\ Q!InReset => Inv
<1> SUFFICES ASSUME Zeroed, Q!Inv, Q!InReset PROVE Inv
  OBVIOUS
<1>1. Cleared \in Chains /\ ~Cleared[0]
  BY ChainStages DEF Cleared, Chains
<1>2. ChainInv
  BY <1>1 DEF Zeroed, ChainInv
<1>3. CountersInv
  <2>1. 0 \in 0 .. CAPACITY /\ 0 # CAPACITY
    BY PacketBufferAssumption
  <2>2. FlagsInv(0, FALSE, FALSE, FALSE)
    BY <2>1 DEF Zeroed, FlagsInv
  <2> QED
    BY <2>2 DEF Zeroed, CountersInv
<1>4. GateInv
  BY DEF Zeroed, GateInv
<1>5. CountersBehind
  BY QueuedNat DEF Zeroed, CountersBehind, Lasts
<1> QED
  BY <1>2, <1>3, <1>4, <1>5 DEF Inv

\* So do those after power-up.
LEMMA InitInv == Init => Inv
<1> SUFFICES ASSUME Init PROVE Inv
  OBVIOUS
<1>1. queue_areset_n = FALSE
  BY ChainStages DEF Init, queue_areset_n, Synced, Cleared
<1>2. queued_tready \in BOOLEAN
  BY DEF queued_tready
<1>3. memory = [a \in Q!Addresses |-> UNKNOWN]
  BY DEF Init, Queue!Addresses, Q!Addresses
<1>4. Q!Started
  BY <1>1, <1>2, <1>3 DEF Init, Q!Started
<1>5. Q!Inv
  BY <1>4, Q!StartedInv, Depth
<1>6. Q!InReset
  BY <1>4 DEF Q!InReset, Q!Started
<1>7. Zeroed
  BY DEF Init, Zeroed, Words
<1> QED
  BY <1>5, <1>6, <1>7, ZeroedInv

\* The assertion of the reset keeps it.
LEMMA ResetInv == Inv /\ Reset => Inv'
<1> SUFFICES ASSUME Inv, Reset PROVE Inv'
  OBVIOUS
<1>1. Q!Inv' /\ Q!InReset'
  BY QueueInv DEF Next
<1>2. Zeroed'
  BY DEF Reset, ResetRegisters, Transfers!ResetRegisters,
     Packets!ResetRegisters,
     dataRegisters, Zeroed, Inv, GateInv
<1>3. (Zeroed /\ Q!Inv /\ Q!InReset => Inv)'
  BY ZeroedInv, PTL
<1> QED
  BY <1>1, <1>2, <1>3

\* So does a step that moves no word.
LEMMA StillInv == Inv /\ (Release \/ UNCHANGED vars) => Inv'
<1> SUFFICES ASSUME Inv, Release \/ UNCHANGED vars PROVE Inv'
  OBVIOUS
<1>1. Q!Inv' /\ Q!InReset' /\ ChainInv'
  BY QueueInv, ChainStep DEF Next
<1>2. UNCHANGED <<inputs, queue_chain, queueRegisters, counterRegisters,
                  gateRegisters, dataRegisters>>
      /\ areset_n' \in BOOLEAN
  BY DEF Release, vars, Inv, GateInv
<1>3. CountersInv'
  BY <1>2 DEF Inv, CountersInv, FlagsInv, counterRegisters
<1>4. GateInv'
  BY <1>2 DEF Inv, GateInv, inputs, counterRegisters, gateRegisters,
     dataRegisters, queue_areset_n, Synced
<1>5. Queued' = Queued
  BY <1>2 DEF Queued, Queue!Contents, queueRegisters, dataRegisters
<1>6. CountersBehind'
  BY <1>2, <1>5 DEF Inv, CountersBehind, counterRegisters
<1> QED
  BY <1>1, <1>3, <1>4, <1>6 DEF Inv

\* So does every step.
LEMMA NextInv == Inv /\ [Next]_vars => Inv'
BY ClockInv, ResetInv, StillInv DEF Next

(***************************************************************************)
(* The strengthened invariant holds in every reachable state.              *)
(***************************************************************************)
THEOREM Invariance == Spec => []Inv
BY InitInv, NextInv, PTL DEF Spec

(***************************************************************************)
(* For every capacity the two counters, which saturate and whose flags are *)
(* a clock late, never count a word or a packet that is not in the queue.  *)
(***************************************************************************)
THEOREM NeverAhead == Spec => []CountersBehind
<1>1. Inv => CountersBehind
  BY DEF Inv
<1> QED
  BY <1>1, Invariance, PTL

(***************************************************************************)
(* For every capacity and every set of words, a word leaves the queue only *)
(* if the queue holds the end of a packet or the gate is flushing: the     *)
(* stale flags of the gate never let the first words of a late packet      *)
(* through.                                                                *)
(***************************************************************************)
THEOREM OnlyWholePackets == Spec => []WholePacket
<1>1. Inv => WholePacket
  <2> SUFFICES ASSUME Inv, Read, fsm_state # "FLUSH", ~almost_full
               PROVE  LastsIn(Queued) # {}
    BY DEF WholePacket
  <2>1. ~empty
    BY DEF Read, queued_tready, Open, Inv, GateInv
  <2>2. packets \in 0 .. CAPACITY /\ packets <= Cardinality(LastsIn(Queued))
    BY DEF Inv, CountersInv, FlagsInv, CountersBehind
  <2>3. packets # 0
    BY <2>1, <2>2 DEF empty, Inv, GateInv
  <2>4. Cardinality({}) = 0
    BY FS_EmptySet
  <2>5. Cardinality(LastsIn(Queued)) # 0
    BY <2>2, <2>3, QueuedNat, PacketBufferAssumption DEF Inv, Lasts
  <2> QED
    BY <2>4, <2>5
<1> QED
  BY <1>1, Invariance, PTL

-----------------------------------------------------------------------------
\* The refinement: the output register of the gate in front of the queue.

Port == One(tx_tvalid, tx_tdata)

\* The words inside, and those offered, in a row.
LEMMA Form == /\ Contents = Row(Port, Queued)
              /\ Fifo!Offered = Row(Row(Port, Queued), Arriving)
<1>1. Contents = Row(Port, Queued)
  BY DEF Contents, Port, One, Row
<1>2. Fifo!Accepted = Arriving
  BY DEF Fifo!Accepted, Arriving, One, Written
<1> QED
  BY <1>1, <1>2 DEF Fifo!Offered, Row

\* The output register is never withdrawn, and follows the queue while Tx is ready.
LEMMA PortMoves == Inv /\ Clock =>
    /\ tx_tready => Port' = One(Read, queued_tdata)
    /\ ~tx_tready => ~Read /\ Port' = Port
    /\ ~tx_tready => tx_tvalid' = tx_tvalid /\ tx_tdata' = tx_tdata
<1> SUFFICES ASSUME Inv, Clock
    PROVE  /\ tx_tready => Port' = One(Read, queued_tdata)
           /\ ~tx_tready => ~Read /\ Port' = Port
           /\ ~tx_tready => tx_tvalid' = tx_tvalid /\ tx_tdata' = tx_tdata
  OBVIOUS
<1>1. /\ tx_tvalid' = IF tx_tready THEN Read ELSE tx_tvalid
      /\ tx_tdata' = IF tx_tready THEN queued_tdata ELSE tx_tdata
  BY DEF Clock, ClockGate, TxData
<1>2. ~tx_tready => ~Read
  BY DEF Read, queued_tready
<1>3. tx_tready => Port' = One(Read, queued_tdata)
  BY <1>1 DEF Port, One
<1>4. ~tx_tready => Port' = Port
  BY <1>1 DEF Port
<1> QED
  BY <1>1, <1>2, <1>3, <1>4

\* What leaves the queue is in the output register after the clock edge.
LEMMA NothingBetween == Inv /\ Clock /\ tx_tready => Contents' = QueueOffered
<1> SUFFICES ASSUME Inv, Clock, tx_tready PROVE Contents' = QueueOffered
  OBVIOUS
<1>1. Contents' = Row(Port', Queued')
  <2>1. (Contents = Row(Port, Queued))'
    BY Form, PTL
  <2> QED
    BY <2>1 DEF Row
<1>2. Port' = One(Read, queued_tdata)
  BY PortMoves
<1>3. QueueOffered \in Seq(Words)
  BY QueuedSeq
<1>4. CASE Read
  <2>1. /\ QueueOffered # <<>> /\ Head(QueueOffered) = queued_tdata
        /\ Queued' = Tail(QueueOffered)
    BY <1>4, QueueMoves
  <2>2. Port' = <<Head(QueueOffered)>>
    BY <1>2, <1>4, <2>1 DEF One
  <2>3. Row(<<Head(QueueOffered)>>, Tail(QueueOffered)) = QueueOffered
    BY <1>3, <2>1, RowHeadTail
  <2> QED
    BY <1>1, <2>1, <2>2, <2>3, Zenon
<1>5. CASE ~Read
  <2>1. Queued' = QueueOffered
    BY <1>5, QueueMoves
  <2>2. Port' = <<>>
    BY <1>2, <1>5 DEF One
  <2>3. Row(<<>>, QueueOffered) = QueueOffered
    BY <1>3, RowEmpty
  <2> QED
    BY <1>1, <2>1, <2>2, <2>3, Zenon
<1> QED
  BY <1>4, <1>5

\* During a stall only the word that arrives is added.
LEMMA StalledContents == Inv /\ Clock /\ ~tx_tready =>
    Contents' = Row(Port, QueueOffered)
<1> SUFFICES ASSUME Inv, Clock, ~tx_tready
             PROVE  Contents' = Row(Port, QueueOffered)
  OBVIOUS
<1>1. Contents' = Row(Port', Queued')
  <2>1. (Contents = Row(Port, Queued))'
    BY Form, PTL
  <2> QED
    BY <2>1 DEF Row
<1>2. ~Read /\ Port' = Port
  BY PortMoves
<1>3. Queued' = QueueOffered
  BY <1>2, QueueMoves
<1> QED
  BY <1>1, <1>2, <1>3, Zenon

\* There is one place more than in the queue.
LEMMA Bounded == Inv /\ Clock => Len(Contents') <= 2^CAPACITY_WIDTH + 3
<1> SUFFICES ASSUME Inv, Clock PROVE Len(Contents') <= 2^CAPACITY_WIDTH + 3
  OBVIOUS
<1>1. Contents' = Row(Port', Queued')
  <2>1. (Contents = Row(Port, Queued))'
    BY Form, PTL
  <2> QED
    BY <2>1 DEF Row
<1>2. Inv'
  BY ClockInv
<1>3. Queued' \in Seq(Words) /\ tx_tvalid' \in BOOLEAN /\ tx_tdata' \in Words
  <2>1. (Inv => Queued \in Seq(Words))'
    BY QueuedSeq, PTL
  <2>2. Queued' \in Seq(Words)
    BY <1>2, <2>1 DEF Words
  <2> QED
    BY <1>2, <2>2 DEF Inv, GateInv, Words
<1>4. Port' \in Seq(Words) /\ Len(Port') <= 1
  BY <1>3, OneSeq DEF Port
<1>5. Len(Contents') = Len(Port') + Len(Queued')
  BY <1>1, <1>3, <1>4, RowSeq
<1>6. Len(Port') \in Nat /\ Len(Queued') \in Nat
  BY <1>3, <1>4, LenProperties
<1>7. Len(Queued') <= 2^CAPACITY_WIDTH + 2
  BY QueueMoves
<1> QED
  BY <1>4, <1>5, <1>6, <1>7, Depth

\* A clock edge is a transfer of the FIFO.
LEMMA BufferTransfer == Inv /\ Clock => Fifo!Transfer
<1> SUFFICES ASSUME Inv, Clock PROVE Fifo!Transfer
  OBVIOUS
<1>1. /\ Queued \in Seq(Words) /\ Arriving \in Seq(Words)
      /\ QueueOffered \in Seq(Words)
      /\ tx_tvalid \in BOOLEAN /\ tx_tready \in BOOLEAN /\ tx_tdata \in Words
  BY QueuedSeq DEF Inv, GateInv
<1>2. Port \in Seq(Words)
  BY <1>1, OneSeq DEF Port
<1>3. Fifo!Offered = Row(Port, QueueOffered)
  <2>1. Row(Row(Port, Queued), Arriving) = Row(Port, Row(Queued, Arriving))
    BY <1>1, <1>2, RowAssociative
  <2> QED
    BY <2>1, Form DEF QueueOffered
<1> DEFINE all == Row(Port, QueueOffered)
<1>4. /\ tx_tvalid => all # <<>> /\ Head(all) = tx_tdata /\ Tail(all) = QueueOffered
      /\ ~tx_tvalid => all = QueueOffered
  BY <1>1, PortFirst DEF Port
<1> HIDE DEF all
<1>5. tx_tready => Contents' = QueueOffered
  BY NothingBetween
<1>6. ~tx_tready => Contents' = all
  BY StalledContents DEF all
<1>7. Contents' = IF tx_tvalid /\ tx_tready THEN Tail(all) ELSE all
  BY <1>1, <1>4, <1>5, <1>6
<1>8. Len(Contents') <= 2^CAPACITY_WIDTH + 3
  BY Bounded
<1>9. tx_tvalid /\ ~tx_tready => tx_tvalid' /\ tx_tdata' = tx_tdata
  BY <1>1, PortMoves
<1>10. areset_n /\ areset_n'
  BY DEF Clock
<1>11. Fifo!Offered = all
  BY <1>3 DEF all
<1> QED
  BY <1>4, <1>7, <1>8, <1>9, <1>10, <1>11 DEF Fifo!Transfer, Fifo!Delivered

\* In the reset nothing is ready, inside or shown.
LEMMA BufferQuiet == Inv /\ ~areset_n => Fifo!Quiet
<1> SUFFICES ASSUME Inv, ~areset_n PROVE Fifo!Quiet
  OBVIOUS
<1>1. ~queue_areset_n
  BY ChainStages DEF Inv, ChainInv, queue_areset_n, Synced, Cleared
<1>2. ~rx_tready
  BY <1>1 DEF Inv, Q!InReset
<1>3. ~tx_tvalid
  BY <1>1 DEF Inv, GateInv
<1>4. Queued = <<>>
  BY <1>1, QueueQuiet
<1>5. Contents = Row(<<>>, <<>>)
  BY <1>3, <1>4, Form DEF Port, One
<1>6. Contents = <<>>
  <2>1. <<>> \in Seq(Words)
    OBVIOUS
  <2> QED
    BY <1>5, <2>1, RowEmpty
<1> QED
  BY <1>2, <1>3, <1>6 DEF Fifo!Quiet

(***************************************************************************)
(* For every capacity and every set of words the packet buffer is a FIFO   *)
(* of 2^CAPACITY_WIDTH + 3 words: whatever the gate and the flush do, no   *)
(* word is lost, duplicated, reordered or withdrawn.                       *)
(***************************************************************************)
THEOREM Implements == Spec => RefinesFifo
<1>1. Init => Fifo!Init
  <2>1. Init => Inv /\ ~areset_n
    BY InitInv DEF Init
  <2> QED
    BY <2>1, BufferQuiet DEF Fifo!Init
<1>2. Inv /\ Inv' /\ [Next]_vars => [Fifo!Next]_(Fifo!vars)
  <2> SUFFICES ASSUME Inv, Inv', [Next]_vars PROVE [Fifo!Next]_(Fifo!vars)
    OBVIOUS
  <2>1. CASE Clock
    BY <2>1, BufferTransfer DEF Fifo!Next
  <2>2. CASE Reset
    <3>1. ~areset_n'
      BY <2>2 DEF Reset
    <3>2. (Inv /\ ~areset_n => Fifo!Quiet)'
      BY BufferQuiet, PTL
    <3> QED
      BY <3>1, <3>2 DEF Fifo!Next, Fifo!Reset
  <2>3. CASE Release
    <3>1. Contents' = Contents
      BY <2>3 DEF Release, Contents, Queued, Queue!Contents, queueRegisters,
         gateRegisters, dataRegisters
    <3> QED
      BY <2>3, <3>1 DEF Release, queueRegisters, gateRegisters, Fifo!Next,
         Fifo!Release
  <2>4. CASE UNCHANGED vars
    <3>1. Contents' = Contents
      BY <2>4 DEF vars, Contents, Queued, Queue!Contents, queueRegisters,
         gateRegisters, dataRegisters
    <3> QED
      BY <2>4, <3>1 DEF vars, inputs, queueRegisters, gateRegisters,
         dataRegisters, Fifo!vars
  <2> QED
    BY <2>1, <2>2, <2>3, <2>4 DEF Next
<1> QED
  BY <1>1, <1>2, Invariance, PTL DEF Spec, Fifo!Spec, RefinesFifo

=============================================================================
