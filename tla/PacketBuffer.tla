---------------------------- MODULE PacketBuffer ----------------------------
(***************************************************************************)
(* logic_axi4_stream_packet_buffer_main: a queue, two transfer counters    *)
(* that watch its ports (one counts words, the other packets), and         *)
(* logic_axi4_stream_packet_buffer_unit, the gate behind the queue.  The   *)
(* gate lets words out of the queue while the packet counter says that a   *)
(* whole packet is inside; when no whole packet is inside and the word     *)
(* counter says that the queue is nearly full, it flushes.                 *)
(*                                                                         *)
(* The queue and the counters are the modules of their own, instantiated   *)
(* on the wires of logic_axi4_stream_packet_buffer_main: their register    *)
(* operators make up the clock edge.  The port between the queue and the   *)
(* gate is called `queued', as in the code.                                *)
(***************************************************************************)
EXTENDS Integers, Sequences, FiniteSets, ResetSynchronizerUnit

CONSTANTS DATA,            \* words
          LAST,            \* the words that carry tlast
          UNKNOWN,
          CAPACITY,
          CAPACITY_WIDTH,  \* $clog2(CAPACITY)
          COUNTER_SIZE     \* 2**COUNTER_WIDTH of the transfer counters

(***************************************************************************)
(* The queue's design rule (at least four words), and the widths of the    *)
(* queue and of the counters for this capacity.                            *)
(***************************************************************************)
ASSUME PacketBufferAssumption ==
    /\ LAST \subseteq DATA
    /\ UNKNOWN \notin DATA
    /\ CAPACITY \in Nat /\ CAPACITY >= 4
    /\ CAPACITY_WIDTH \in Nat /\ 2^CAPACITY_WIDTH \in Nat
    /\ 2^(CAPACITY_WIDTH - 1) < CAPACITY /\ CAPACITY <= 2^CAPACITY_WIDTH
    /\ COUNTER_SIZE \in Nat /\ CAPACITY < COUNTER_SIZE
    /\ COUNTER_SIZE <= 2^(CAPACITY_WIDTH + 1)
    /\ STAGES = 2

VARIABLES
    areset_n,
    rx_tvalid, rx_tdata, tx_tready,           \* input ports
    \* the queue, with a reset synchronizer of its own
    queue_chain,
    rx_tready, write_pointer, queue_almost_empty, read_pointer,
    queue_fsm_state, queued_tvalid, queued_tdata, capacity, memory, read_data,
    \* the transfer counters
    transfers, transfers_almost_empty, transfers_almost_full,
    transfers_tvalid,
    packets, packets_almost_empty, packets_almost_full, packets_tvalid,
    \* the gate
    almost_empty, almost_full, fsm_state, tx_tvalid, tx_tdata

inputs == <<rx_tvalid, rx_tdata, tx_tready>>

queueRegisters == <<rx_tready, write_pointer, queue_almost_empty,
                    read_pointer, queue_fsm_state, queued_tvalid, capacity>>

counterRegisters == <<transfers, transfers_almost_empty,
                      transfers_almost_full, transfers_tvalid,
                      packets, packets_almost_empty,
                      packets_almost_full, packets_tvalid>>

gateRegisters == <<almost_empty, almost_full, fsm_state, tx_tvalid>>

dataRegisters == <<queued_tdata, memory, read_data, tx_tdata>>

vars == <<areset_n, inputs, queue_chain, queueRegisters, counterRegisters,
          gateRegisters, dataRegisters>>

-----------------------------------------------------------------------------
\* Combinational signals of the gate.

ALMOST_EMPTY == 1

\* Mutant: the flush starts at the depth of the queue.
ALMOST_FULL_Deep == 2^CAPACITY_WIDTH + 3

ALMOST_FULL == 2^CAPACITY_WIDTH - 1

empty == almost_empty /\ packets % 4 = 0

\* Mutant: once reading, the gate stays open.
Open_Reading == fsm_state \in {"READ", "FLUSH"} \/ ~empty \/ almost_full

(***************************************************************************)
(* rx.tready of the gate: a free register is always filled, an occupied    *)
(* one moves on while the gate is open.                                    *)
(***************************************************************************)
Open == CASE fsm_state = "READ" -> ~empty
          [] fsm_state = "FLUSH" -> TRUE
          [] OTHER -> ~empty \/ almost_full

queued_tready == ~queued_tvalid \/ (tx_tready /\ Open)

queue_areset_n == Synced(queue_chain)

-----------------------------------------------------------------------------
\* The parts.

Queue == INSTANCE BasicQueue
    WITH MEMORY_DEPTH <- 2^CAPACITY_WIDTH,
         areset_n     <- queue_areset_n,
         tx_tready    <- queued_tready,
         tx_tvalid    <- queued_tvalid,
         tx_tdata     <- queued_tdata,
         almost_empty <- queue_almost_empty,
         fsm_state    <- queue_fsm_state

Written == rx_tvalid /\ rx_tready

Read == queued_tvalid /\ queued_tready

Transfers == INSTANCE TransferCounter
    WITH COUNTER_MAX  <- CAPACITY,
         write        <- Written,
         read         <- Read,
         tx_tready    <- TRUE,
         counter      <- transfers,
         almost_empty <- transfers_almost_empty,
         almost_full  <- transfers_almost_full,
         tx_tvalid    <- transfers_tvalid

Packets == INSTANCE TransferCounter
    WITH COUNTER_MAX  <- CAPACITY,
         write        <- Written /\ rx_tdata \in LAST,
         read         <- Read /\ queued_tdata \in LAST,
         tx_tready    <- TRUE,
         counter      <- packets,
         almost_empty <- packets_almost_empty,
         almost_full  <- packets_almost_full,
         tx_tvalid    <- packets_tvalid

TypeOK ==
    /\ Queue!TypeOK
    /\ Transfers!TypeOK
    /\ Packets!TypeOK
    /\ areset_n \in BOOLEAN
    /\ queue_chain \in Chains
    /\ tx_tready \in BOOLEAN
    /\ almost_empty \in BOOLEAN
    /\ almost_full \in BOOLEAN
    /\ fsm_state \in {"IDLE", "READ", "FLUSH"}
    /\ tx_tvalid \in BOOLEAN
    /\ tx_tdata \in DATA \cup {UNKNOWN}

-----------------------------------------------------------------------------
\* Registers.

(***************************************************************************)
(* The queue, which leaves its reset STAGES clocks after the others.       *)
(***************************************************************************)
ClockQueue ==
    /\ queue_chain' = Shifted(queue_chain)
    /\ IF queue_areset_n
       THEN Queue!WriteService /\ Queue!ReadService /\ Queue!CapacityService
       ELSE Queue!TxData /\ UNCHANGED queueRegisters
    /\ Queue!MemoryService

ClockCounters ==
    /\ Transfers!Counter /\ Transfers!Flags
    /\ Packets!Counter /\ Packets!Flags

FsmState ==
    fsm_state' =
        CASE fsm_state \in {"IDLE", "FLUSH"} /\ ~empty -> "READ"
          [] fsm_state = "IDLE" /\ empty /\ almost_full -> "FLUSH"
          [] fsm_state = "READ" /\ empty -> "IDLE"
          [] OTHER -> fsm_state

\* Mutant: the output register follows the queue during a stall.
TxDataUnheld == tx_tdata' = queued_tdata

TxData == tx_tdata' = IF tx_tready THEN queued_tdata ELSE tx_tdata

ClockGate ==
    /\ almost_empty' = (packets <= ALMOST_EMPTY)
    /\ almost_full' = (transfers >= ALMOST_FULL)
    /\ FsmState
    /\ tx_tvalid' = IF tx_tready THEN Read ELSE tx_tvalid
    /\ TxData

RxDrive == Queue!RxDrive

TxDrive == tx_tready' \in BOOLEAN

-----------------------------------------------------------------------------

ResetRegisters ==
    /\ queue_chain' = Cleared
    /\ rx_tready' = FALSE
    /\ write_pointer' = 0
    /\ queue_almost_empty' = TRUE
    /\ read_pointer' = 0
    /\ queue_fsm_state' = "IDLE"
    /\ queued_tvalid' = FALSE
    /\ capacity' = 0
    /\ Transfers!ResetRegisters
    /\ Packets!ResetRegisters
    /\ almost_empty' = TRUE
    /\ almost_full' = FALSE
    /\ fsm_state' = "IDLE"
    /\ tx_tvalid' = FALSE

Init ==
    /\ areset_n = FALSE
    /\ rx_tvalid = FALSE /\ rx_tdata \in DATA /\ tx_tready = FALSE
    /\ queue_chain = Cleared
    /\ rx_tready = FALSE /\ write_pointer = 0
    /\ queue_almost_empty = TRUE /\ read_pointer = 0
    /\ queue_fsm_state = "IDLE" /\ queued_tvalid = FALSE /\ capacity = 0
    /\ transfers = 0 /\ transfers_tvalid = FALSE
    /\ transfers_almost_empty = FALSE /\ transfers_almost_full = FALSE
    /\ packets = 0 /\ packets_tvalid = FALSE
    /\ packets_almost_empty = FALSE /\ packets_almost_full = FALSE
    /\ almost_empty = TRUE /\ almost_full = FALSE
    /\ fsm_state = "IDLE" /\ tx_tvalid = FALSE
    /\ queued_tdata = UNKNOWN /\ read_data = UNKNOWN /\ tx_tdata = UNKNOWN
    /\ memory = [a \in Queue!Addresses |-> UNKNOWN]

(***************************************************************************)
(* A rising edge of aclk.                                                  *)
(***************************************************************************)
Clock ==
    /\ areset_n
    /\ ClockQueue
    /\ ClockCounters
    /\ ClockGate
    /\ RxDrive
    /\ TxDrive
    /\ UNCHANGED areset_n

(***************************************************************************)
(* The reset, at any time; it also resets the drivers.                     *)
(***************************************************************************)
Reset ==
    /\ areset_n
    /\ areset_n' = FALSE
    /\ ResetRegisters
    /\ rx_tvalid' = FALSE
    /\ tx_tready' = FALSE
    /\ UNCHANGED <<rx_tdata, dataRegisters>>

Release ==
    /\ ~areset_n
    /\ areset_n' = TRUE
    /\ UNCHANGED <<inputs, queue_chain, queueRegisters, counterRegisters,
                   gateRegisters, dataRegisters>>

Next == Clock \/ Reset \/ Release

Spec == Init /\ [][Next]_vars

(***************************************************************************)
(* The clock runs, and Tx raises tready again and again without waiting    *)
(* for tvalid (the gate loads tx.tvalid only while tx.tready is high).     *)
(***************************************************************************)
Fairness == WF_vars(Clock) /\ WF_vars(Clock /\ tx_tready')

FairSpec == Spec /\ Fairness

-----------------------------------------------------------------------------
\* Properties.

(***************************************************************************)
(* The words in the queue, which is what the two counters watch.           *)
(***************************************************************************)
Queued == Queue!Contents

LastsIn(s) == {i \in DOMAIN s : s[i] \in LAST}

Contents == (IF tx_tvalid THEN <<tx_tdata>> ELSE << >>) \o Queued

Fifo == INSTANCE StreamFifo WITH CAPACITY <- 2^CAPACITY_WIDTH + 3,
                                 contents <- Contents

(***************************************************************************)
(* Whatever the gate does, no word is lost, duplicated or reordered.       *)
(***************************************************************************)
RefinesFifo == Fifo!Spec

(***************************************************************************)
(* A word leaves the queue only if the packet it belongs to is completely  *)
(* in the queue, or the gate is flushing a nearly full one: no stale flag  *)
(* ever lets the first words of a late packet through behind the last word *)
(* of the packet before it.                                                *)
(***************************************************************************)
WholePacket ==
    Read => LastsIn(Queued) # {} \/ fsm_state = "FLUSH" \/ almost_full

(***************************************************************************)
(* The counters saturate below the number of words the queue can hold, so  *)
(* they may count too few, but never too many: the gate never waits for,   *)
(* or relies on, words and packets that are not in the queue.              *)
(***************************************************************************)
CountersBehind ==
    /\ transfers <= Len(Queued)
    /\ packets <= Cardinality(LastsIn(Queued))

(***************************************************************************)
(* "Module will not block packet if queue is full": a word offered on Rx   *)
(* is accepted, with or without a tlast among the words before it.         *)
(***************************************************************************)
NeverBlocks == rx_tvalid /\ areset_n ~> (rx_tvalid /\ rx_tready) \/ ~areset_n

(***************************************************************************)
(* "Buffer whole packet before sending to next module": a packet that is   *)
(* wholly in the buffer is sent.                                           *)
(***************************************************************************)
WholePacketSent ==
    LastsIn(Contents) # {} ~> (tx_tvalid /\ tx_tready) \/ ~areset_n

=============================================================================
