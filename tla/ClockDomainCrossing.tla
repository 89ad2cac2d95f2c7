------------------------ MODULE ClockDomainCrossing ------------------------
(***************************************************************************)
(* logic_clock_domain_crossing_generic: a FIFO whose Rx port has the clock *)
(* rx_aclk and whose Tx port has the clock tx_aclk.  The two sides share   *)
(* the memory and tell each other their pointers in gray code, through a   *)
(* register of the source clock, two synchronizer registers and one more   *)
(* register of the destination clock.  Each side therefore works with an   *)
(* old value of the other's pointer, and its flags are older still:        *)
(*   - Rx is ready while the difference it computed two clocks ago was     *)
(*     below 2**ADDRESS_WIDTH - 3;                                         *)
(*   - Tx reads unless the difference was at most 2 two clocks ago and the *)
(*     three low bits of the pointers are equal now.                       *)
(*                                                                         *)
(* The clocks are unrelated: either may run any number of times between    *)
(* two edges of the other, and edges may coincide.  A synchronizer that    *)
(* samples a word exactly while it changes gets any mixture of its old and *)
(* new bits; the gray code is what makes that harmless.                    *)
(***************************************************************************)
EXTENDS Integers, Sequences, Gray, ResetSynchronizerUnit

CONSTANTS DATA,     \* words carried on tdata
          UNKNOWN   \* what memory and registers without a reset hold ('x)

(***************************************************************************)
(* The design rules: ADDRESS_WIDTH >= 3 (WIDTH here, that of the pointers) *)
(* and two-stage reset synchronizers.                                      *)
(***************************************************************************)
ASSUME CrossingAssumption == WIDTH >= 3 /\ STAGES = 2

ASSUME UnknownAssumption == UNKNOWN \notin DATA

VARIABLES
    areset_n,
    rx_chain, tx_chain,              \* reset synchronizers of the two clocks
    rx_tvalid, rx_tdata, tx_tready,  \* input ports
    \* registers of rx_aclk
    rx_tready, write_pointer, write_difference,
    write_pointer_gray_q,            \* read_sync, its source register
    read_pointer_sync,               \* write_sync, the two synchronizer stages
    read_pointer_synced,
    memory,
    \* registers of tx_aclk
    tx_tvalid, tx_tdata, fsm_state, almost_empty,
    read_pointer, read_difference, read_data,
    read_pointer_gray_q,             \* write_sync, its source register
    write_pointer_sync,              \* read_sync, the two synchronizer stages
    write_pointer_synced

rxInputs == <<rx_tvalid, rx_tdata>>

rxRegisters == <<rx_tready, write_pointer, write_difference,
                 write_pointer_gray_q, read_pointer_synced>>

txRegisters == <<tx_tvalid, fsm_state, almost_empty, read_pointer,
                 read_difference, read_pointer_gray_q, write_pointer_synced>>

vars == <<areset_n, rx_chain, tx_chain, rxInputs, tx_tready, rxRegisters,
          read_pointer_sync, memory, txRegisters, write_pointer_sync,
          tx_tdata, read_data>>

DEPTH == 2 ^ WIDTH

Addresses == 0 .. DEPTH - 1

Words == DATA \cup {UNKNOWN}

TypeOK ==
    /\ areset_n \in BOOLEAN
    /\ rx_chain \in Chains
    /\ tx_chain \in Chains
    /\ rx_tvalid \in BOOLEAN
    /\ rx_tdata \in DATA
    /\ tx_tready \in BOOLEAN
    /\ rx_tready \in BOOLEAN
    /\ write_pointer \in Addresses
    /\ write_difference \in Addresses
    /\ write_pointer_gray_q \subseteq Positions
    /\ read_pointer_sync \in [0 .. 1 -> SUBSET Positions]
    /\ read_pointer_synced \in Addresses
    /\ memory \in [Addresses -> Words]
    /\ tx_tvalid \in BOOLEAN
    /\ tx_tdata \in Words
    /\ fsm_state \in {"IDLE", "DATA"}
    /\ almost_empty \in BOOLEAN
    /\ read_pointer \in Addresses
    /\ read_difference \in Addresses
    /\ read_data \in Words
    /\ read_pointer_gray_q \subseteq Positions
    /\ write_pointer_sync \in [0 .. 1 -> SUBSET Positions]
    /\ write_pointer_synced \in Addresses

-----------------------------------------------------------------------------
\* Combinational signals.

rx_areset_n == Synced(rx_chain)

tx_areset_n == Synced(tx_chain)

NextPointer(p) == IF p = DEPTH - 1 THEN 0 ELSE p + 1

Difference(p, q) == IF p >= q THEN p - q ELSE p - q + DEPTH

GrayOf == [p \in Addresses |-> BinaryToGray(Bits(p))]

PointerOf == [g \in SUBSET Positions |->
                 CHOOSE p \in Addresses : Bits(p) = GrayToBinary(g)]

\* Mutant: one place fewer kept in reserve.
ALMOST_FULL_Late == DEPTH - 2

ALMOST_FULL == DEPTH - 3

\* Mutant: the flag does not allow for the reads since it was computed.
ALMOST_EMPTY_Late == 1

ALMOST_EMPTY == 2

write_enable == rx_tvalid /\ rx_tready

almost_full == write_difference >= ALMOST_FULL

\* Mutant: the stale flag alone.
empty_Stale == almost_empty

empty == almost_empty /\ write_pointer_synced % 8 = read_pointer % 8

read_enable == ~empty /\ (fsm_state = "DATA" => tx_tready)

-----------------------------------------------------------------------------
\* The side of rx_aclk.

WriteService ==
    /\ write_difference' = Difference(write_pointer, read_pointer_synced)
    /\ rx_tready' = ~almost_full
    /\ write_pointer' = IF write_enable THEN NextPointer(write_pointer)
                                        ELSE write_pointer

(***************************************************************************)
(* The rx_aclk registers at the two ends of the pointer synchronizers.     *)
(***************************************************************************)
WriteSync ==
    /\ write_pointer_gray_q' = GrayOf[write_pointer]
    /\ read_pointer_synced' = PointerOf[read_pointer_sync[1]]

(***************************************************************************)
(* The two synchronizer stages; the first takes one of the samples.        *)
(***************************************************************************)
SampleReadPointer(samples) ==
    IF rx_areset_n
    THEN \E sample \in samples :
           read_pointer_sync' =
               [k \in 0 .. 1 |-> IF k = 0 THEN sample ELSE read_pointer_sync[0]]
    ELSE UNCHANGED read_pointer_sync

MemoryWrite ==
    memory' = IF write_enable
              THEN [memory EXCEPT ![write_pointer] = rx_tdata]
              ELSE memory

(***************************************************************************)
(* The Rx driver: a word that was not accepted is held.                    *)
(***************************************************************************)
RxDrive ==
    \/ /\ rx_tvalid /\ ~rx_tready
       /\ UNCHANGED rxInputs
    \/ /\ ~(rx_tvalid /\ ~rx_tready)
       /\ rx_tvalid' \in BOOLEAN
       /\ rx_tdata' \in DATA

WriteEdge ==
    /\ rx_chain' = IF areset_n THEN Shifted(rx_chain) ELSE Cleared
    /\ IF rx_areset_n THEN WriteService /\ WriteSync
                      ELSE UNCHANGED rxRegisters
    /\ MemoryWrite
    /\ RxDrive

-----------------------------------------------------------------------------
\* The side of tx_aclk.

FsmState ==
    fsm_state' =
        CASE fsm_state = "IDLE" /\ ~empty -> "DATA"
          [] fsm_state = "DATA" /\ tx_tready /\ empty -> "IDLE"
          [] OTHER -> fsm_state

ReadService ==
    /\ read_difference' = Difference(write_pointer_synced, read_pointer)
    /\ almost_empty' = (read_difference <= ALMOST_EMPTY)
    /\ FsmState
    /\ read_pointer' = IF read_enable THEN NextPointer(read_pointer)
                                      ELSE read_pointer
    /\ tx_tvalid' = IF tx_tready THEN fsm_state = "DATA" ELSE tx_tvalid

ReadSync ==
    /\ read_pointer_gray_q' = GrayOf[read_pointer]
    /\ write_pointer_synced' = PointerOf[write_pointer_sync[1]]

SampleWritePointer(samples) ==
    IF tx_areset_n
    THEN \E sample \in samples :
           write_pointer_sync' =
               [k \in 0 .. 1 |-> IF k = 0 THEN sample ELSE write_pointer_sync[0]]
    ELSE UNCHANGED write_pointer_sync

MemoryRead ==
    read_data' = IF read_enable THEN memory[read_pointer] ELSE read_data

\* Mutant: the output register follows the memory during a stall.
TxDataUnheld == tx_tdata' = read_data

TxData == tx_tdata' = IF tx_tready THEN read_data ELSE tx_tdata

ReadEdge ==
    /\ tx_chain' = IF areset_n THEN Shifted(tx_chain) ELSE Cleared
    /\ IF tx_areset_n THEN ReadService /\ ReadSync
                      ELSE UNCHANGED txRegisters
    /\ MemoryRead
    /\ TxData
    /\ tx_tready' \in BOOLEAN

-----------------------------------------------------------------------------

Init ==
    /\ areset_n = FALSE
    /\ rx_chain = Cleared
    /\ tx_chain = Cleared
    /\ rx_tvalid = FALSE
    /\ rx_tdata \in DATA
    /\ tx_tready = FALSE
    /\ rx_tready = FALSE
    /\ write_pointer = 0
    /\ write_difference = 0
    /\ write_pointer_gray_q = {}
    /\ read_pointer_sync = [k \in 0 .. 1 |-> {}]
    /\ read_pointer_synced = 0
    /\ memory = [a \in Addresses |-> UNKNOWN]
    /\ tx_tvalid = FALSE
    /\ tx_tdata = UNKNOWN
    /\ fsm_state = "IDLE"
    /\ almost_empty = TRUE
    /\ read_pointer = 0
    /\ read_difference = 0
    /\ read_data = UNKNOWN
    /\ read_pointer_gray_q = {}
    /\ write_pointer_sync = [k \in 0 .. 1 |-> {}]
    /\ write_pointer_synced = 0

(***************************************************************************)
(* The words a register may get that samples another while it changes:     *)
(* each bit is the old or the new one.                                     *)
(***************************************************************************)
Mixtures(old, new) ==
    {(old \ changed) \cup (new \cap changed) :
         changed \in SUBSET ((old \ new) \cup (new \ old))}

(***************************************************************************)
(* A rising edge of rx_aclk, of tx_aclk, and of both at the same time.     *)
(***************************************************************************)
WriteClock ==
    /\ WriteEdge
    /\ SampleReadPointer({read_pointer_gray_q})
    /\ UNCHANGED <<areset_n, tx_chain, tx_tready, txRegisters,
                   write_pointer_sync, tx_tdata, read_data>>

ReadClock ==
    /\ ReadEdge
    /\ SampleWritePointer({write_pointer_gray_q})
    /\ UNCHANGED <<areset_n, rx_chain, rxInputs, rxRegisters,
                   read_pointer_sync, memory>>

BothClocks ==
    /\ WriteEdge
    /\ ReadEdge
    /\ SampleReadPointer(Mixtures(read_pointer_gray_q, read_pointer_gray_q'))
    /\ SampleWritePointer(Mixtures(write_pointer_gray_q, write_pointer_gray_q'))
    /\ UNCHANGED areset_n

(***************************************************************************)
(* The falling edge of areset_n, at any time, clears both sides at once;   *)
(* it also resets the drivers of the inputs.                               *)
(***************************************************************************)
Reset ==
    /\ areset_n
    /\ areset_n' = FALSE
    /\ rx_chain' = Cleared
    /\ tx_chain' = Cleared
    /\ rx_tvalid' = FALSE
    /\ tx_tready' = FALSE
    /\ rx_tready' = FALSE
    /\ write_pointer' = 0
    /\ write_difference' = 0
    /\ write_pointer_gray_q' = {}
    /\ read_pointer_sync' = [k \in 0 .. 1 |-> {}]
    /\ read_pointer_synced' = 0
    /\ tx_tvalid' = FALSE
    /\ fsm_state' = "IDLE"
    /\ almost_empty' = TRUE
    /\ read_pointer' = 0
    /\ read_difference' = 0
    /\ read_pointer_gray_q' = {}
    /\ write_pointer_sync' = [k \in 0 .. 1 |-> {}]
    /\ write_pointer_synced' = 0
    /\ UNCHANGED <<rx_tdata, memory, tx_tdata, read_data>>

Release ==
    /\ ~areset_n
    /\ areset_n' = TRUE
    /\ UNCHANGED <<rx_chain, tx_chain, rxInputs, tx_tready, rxRegisters,
                   read_pointer_sync, memory, txRegisters, write_pointer_sync,
                   tx_tdata, read_data>>

Next == WriteClock \/ ReadClock \/ BothClocks \/ Reset \/ Release

Spec == Init /\ [][Next]_vars

-----------------------------------------------------------------------------
\* Properties.

Occupancy == Difference(write_pointer, read_pointer)

(***************************************************************************)
(* Rx never overtakes Tx and Tx never overtakes Rx, although each sees the *)
(* other's pointer several clocks late: one place of the memory always     *)
(* stays free, so that equal pointers mean empty, and nothing is read      *)
(* before it was written.                                                  *)
(***************************************************************************)
NoOvertake ==
    /\ write_enable => Occupancy < DEPTH - 1
    /\ read_enable => Occupancy > 0

(***************************************************************************)
(* What each side believes is on the safe side: going round the pointers,  *)
(* read_pointer_synced is behind read_pointer, which is behind             *)
(* write_pointer_synced, which is behind write_pointer.                    *)
(***************************************************************************)
SafeSide ==
    /\ Difference(write_pointer_synced, read_pointer) <= Occupancy
    /\ Occupancy <= Difference(write_pointer, read_pointer_synced)

Contents ==
    (IF tx_tvalid THEN <<tx_tdata>> ELSE << >>)
    \o (IF fsm_state = "DATA" THEN <<read_data>> ELSE << >>)
    \o [i \in 1 .. Occupancy |-> memory[(read_pointer + i - 1) % DEPTH]]

Fifo == INSTANCE StreamFifo WITH CAPACITY <- DEPTH + 1, contents <- Contents

(***************************************************************************)
(* The crossing is a FIFO of DEPTH + 1 words: no word is lost, duplicated, *)
(* reordered, torn or withdrawn, whatever the two clocks do.               *)
(***************************************************************************)
RefinesFifo == Fifo!AsyncSpec

=============================================================================
