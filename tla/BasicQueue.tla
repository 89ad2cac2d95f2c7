----------------------------- MODULE BasicQueue -----------------------------
(***************************************************************************)
(* logic_basic_queue_generic: a synchronous FIFO built from four services  *)
(* (write, read, capacity, memory) that only share registered signals.     *)
(* The flags are registered too, so each of them is one clock stale when   *)
(* it is used:                                                             *)
(*   - rx_tready is computed from the capacity before the current write,   *)
(*     which is why ALMOST_FULL is one less than the memory depth;         *)
(*   - almost_empty is computed from the capacity before the current read, *)
(*     which is why `empty' also looks at the two low bits of capacity.    *)
(* A word leaves the memory into read_data and then into tx_tdata, so the  *)
(* queue can hold MEMORY_DEPTH + 2 words.                                  *)
(*                                                                         *)
(* One action is one clock edge (or one edge of the asynchronous reset);   *)
(* registers are variables, always_comb signals are operators.             *)
(***************************************************************************)
EXTENDS Integers, Sequences

CONSTANTS DATA,          \* words carried on tdata
          MEMORY_DEPTH,  \* 2**ADDRESS_WIDTH words of memory
          UNKNOWN        \* what memory and registers without a reset hold ('x)

(***************************************************************************)
(* The design rule CAPACITY >= 4 of logic_basic_queue_main.                *)
(***************************************************************************)
ASSUME DepthAssumption == MEMORY_DEPTH \in Nat /\ MEMORY_DEPTH >= 4

ASSUME UnknownAssumption == UNKNOWN \notin DATA

VARIABLES areset_n,                        \* asynchronous reset, active low
          rx_tvalid, rx_tdata, tx_tready,  \* input ports
          rx_tready, write_pointer,        \* write service
          almost_empty, read_pointer, fsm_state, tx_tvalid, tx_tdata,
                                           \* read service
          capacity,                        \* capacity service
          memory, read_data                \* memory service

inputs == <<rx_tvalid, rx_tdata, tx_tready>>

vars == <<areset_n, inputs, rx_tready, write_pointer, almost_empty,
          read_pointer, fsm_state, tx_tvalid, tx_tdata, capacity,
          memory, read_data>>

Addresses == 0 .. MEMORY_DEPTH - 1

Words == DATA \cup {UNKNOWN}

TypeOK ==
    /\ areset_n \in BOOLEAN
    /\ rx_tvalid \in BOOLEAN
    /\ rx_tdata \in DATA
    /\ tx_tready \in BOOLEAN
    /\ rx_tready \in BOOLEAN
    /\ write_pointer \in Addresses
    /\ almost_empty \in BOOLEAN
    /\ read_pointer \in Addresses
    /\ fsm_state \in {"IDLE", "DATA"}
    /\ tx_tvalid \in BOOLEAN
    /\ tx_tdata \in Words
    /\ capacity \in 0 .. 2 * MEMORY_DEPTH - 1
    /\ memory \in [Addresses -> Words]
    /\ read_data \in Words

-----------------------------------------------------------------------------
\* Combinational signals.

\* Mutant: no place reserved for the word accepted on the stale rx_tready.
ALMOST_FULL_Late == MEMORY_DEPTH

ALMOST_FULL == MEMORY_DEPTH - 1

ALMOST_EMPTY == 1

almost_full == capacity >= ALMOST_FULL

write_enable == rx_tvalid /\ rx_tready

\* Mutant: the stale flag alone.
empty_Stale == almost_empty

empty == almost_empty /\ capacity % 4 = 0

\* Mutant: a word is fetched only when the output register is free.
read_enable_Idle == ~empty /\ fsm_state = "IDLE"

read_enable == ~empty /\ (fsm_state = "DATA" => tx_tready)

(***************************************************************************)
(* A pointer has ADDRESS_WIDTH bits, capacity has one more.                *)
(***************************************************************************)
NextPointer(p) == IF p = MEMORY_DEPTH - 1 THEN 0 ELSE p + 1

NextCapacity(c) == IF c = 2 * MEMORY_DEPTH - 1 THEN 0 ELSE c + 1

PreviousCapacity(c) == IF c = 0 THEN 2 * MEMORY_DEPTH - 1 ELSE c - 1

-----------------------------------------------------------------------------
\* Registers.

WriteService ==
    /\ rx_tready' = ~almost_full
    /\ write_pointer' = IF write_enable THEN NextPointer(write_pointer)
                                        ELSE write_pointer

FsmState ==
    fsm_state' =
        CASE fsm_state = "IDLE" /\ ~empty -> "DATA"
          [] fsm_state = "DATA" /\ tx_tready /\ empty -> "IDLE"
          [] OTHER -> fsm_state

\* Mutant: the output register follows the memory during a stall.
TxDataUnheld == tx_tdata' = read_data

TxData == tx_tdata' = IF tx_tready THEN read_data ELSE tx_tdata

ReadService ==
    /\ almost_empty' = (capacity <= ALMOST_EMPTY)
    /\ read_pointer' = IF read_enable THEN NextPointer(read_pointer)
                                      ELSE read_pointer
    /\ FsmState
    /\ tx_tvalid' = IF tx_tready THEN fsm_state = "DATA" ELSE tx_tvalid
    /\ TxData

\* Mutant: a write hides a simultaneous read.
CapacityServiceWriteFirst ==
    capacity' =
        CASE write_enable -> NextCapacity(capacity)
          [] ~write_enable /\ read_enable -> PreviousCapacity(capacity)
          [] OTHER -> capacity

CapacityService ==
    capacity' =
        CASE write_enable /\ ~read_enable -> NextCapacity(capacity)
          [] ~write_enable /\ read_enable -> PreviousCapacity(capacity)
          [] OTHER -> capacity

MemoryService ==
    /\ memory' = IF write_enable
                 THEN [memory EXCEPT ![write_pointer] = rx_tdata]
                 ELSE memory
    /\ read_data' = IF read_enable THEN memory[read_pointer] ELSE read_data

-----------------------------------------------------------------------------
\* The environment: Rx holds a word that was not accepted (the OVL hold
\* checks of logic_axi4_stream_if), Tx drives tready freely.

RxDrive ==
    \/ /\ rx_tvalid /\ ~rx_tready
       /\ UNCHANGED <<rx_tvalid, rx_tdata>>
    \/ /\ ~(rx_tvalid /\ ~rx_tready)
       /\ rx_tvalid' \in BOOLEAN
       /\ rx_tdata' \in DATA

TxDrive == tx_tready' \in BOOLEAN

-----------------------------------------------------------------------------

Init ==
    /\ areset_n = FALSE
    /\ rx_tvalid = FALSE
    /\ rx_tdata \in DATA
    /\ tx_tready = FALSE
    /\ rx_tready = FALSE
    /\ write_pointer = 0
    /\ almost_empty = TRUE
    /\ read_pointer = 0
    /\ fsm_state = "IDLE"
    /\ tx_tvalid = FALSE
    /\ capacity = 0
    /\ tx_tdata = UNKNOWN
    /\ memory = [a \in Addresses |-> UNKNOWN]
    /\ read_data = UNKNOWN

(***************************************************************************)
(* A rising edge of aclk: every always_ff block fires on the same values.  *)
(***************************************************************************)
Clock ==
    /\ areset_n
    /\ WriteService
    /\ ReadService
    /\ CapacityService
    /\ MemoryService
    /\ RxDrive
    /\ TxDrive
    /\ UNCHANGED areset_n

(***************************************************************************)
(* A rising edge of aclk while areset_n is low.  The memory and tx_tdata   *)
(* have no reset; the enables of the memory are low.  The Rx driver may    *)
(* already be out of its reset, because the queue sees its own through     *)
(* logic_reset_synchronizer.                                               *)
(***************************************************************************)
ClockInReset ==
    /\ ~areset_n
    /\ MemoryService
    /\ TxData
    /\ RxDrive
    /\ TxDrive
    /\ UNCHANGED <<areset_n, rx_tready, write_pointer, almost_empty,
                   read_pointer, fsm_state, tx_tvalid, capacity>>

(***************************************************************************)
(* The falling edge of areset_n, at any time; it also resets the drivers.  *)
(***************************************************************************)
Reset ==
    /\ areset_n
    /\ areset_n' = FALSE
    /\ rx_tready' = FALSE
    /\ write_pointer' = 0
    /\ almost_empty' = TRUE
    /\ read_pointer' = 0
    /\ fsm_state' = "IDLE"
    /\ tx_tvalid' = FALSE
    /\ capacity' = 0
    /\ rx_tvalid' = FALSE
    /\ tx_tready' = FALSE
    /\ UNCHANGED <<rx_tdata, tx_tdata, memory, read_data>>

Release ==
    /\ ~areset_n
    /\ areset_n' = TRUE
    /\ UNCHANGED <<inputs, rx_tready, write_pointer, almost_empty,
                   read_pointer, fsm_state, tx_tvalid, tx_tdata, capacity,
                   memory, read_data>>

Next == Clock \/ ClockInReset \/ Reset \/ Release

Spec == Init /\ [][Next]_vars

(***************************************************************************)
(* The clock runs, and Tx raises tready again and again without waiting    *)
(* for tvalid.  A consumer that waits for tvalid would wait forever: the   *)
(* read service loads tx_tvalid only while tx_tready is high.              *)
(***************************************************************************)
Fairness == WF_vars(Clock) /\ WF_vars(Clock /\ tx_tready')

FairSpec == Spec /\ Fairness

-----------------------------------------------------------------------------
\* Properties.

(***************************************************************************)
(* The pointers and the capacity counter, three registers in three         *)
(* modules, agree on how many words the memory holds.                      *)
(***************************************************************************)
PointersAgree ==
    write_pointer = IF read_pointer + capacity < MEMORY_DEPTH
                    THEN read_pointer + capacity
                    ELSE read_pointer + capacity - MEMORY_DEPTH

(***************************************************************************)
(* No write ever finds the memory full, although rx_tready is one clock    *)
(* stale: this is the OVL check "capacity cannot overflow", and more.      *)
(***************************************************************************)
NoOverflow ==
    /\ capacity <= MEMORY_DEPTH
    /\ write_enable => capacity < MEMORY_DEPTH

(***************************************************************************)
(* No read ever finds the memory empty, although almost_empty is one clock *)
(* stale and `empty' compares only two bits of capacity: the OVL check     *)
(* "capacity cannot underflow".                                            *)
(***************************************************************************)
NoUnderflow == read_enable => capacity > 0

(***************************************************************************)
(* The stale flag and the two low bits together are exact: the read        *)
(* service never sees a non-empty memory as empty, so no word is stranded. *)
(***************************************************************************)
EmptyExact == empty <=> capacity = 0

(***************************************************************************)
(* The words inside, oldest first: the output register, the memory's       *)
(* output register, and the memory from read_pointer on.                   *)
(***************************************************************************)
Contents ==
    (IF tx_tvalid THEN <<tx_tdata>> ELSE << >>)
    \o (IF fsm_state = "DATA" THEN <<read_data>> ELSE << >>)
    \o [i \in 1 .. capacity |-> memory[(read_pointer + i - 1) % MEMORY_DEPTH]]

Fifo == INSTANCE StreamFifo WITH CAPACITY <- MEMORY_DEPTH + 2,
                                 contents <- Contents

(***************************************************************************)
(* The queue is a FIFO of MEMORY_DEPTH + 2 words: no word is lost,         *)
(* duplicated, reordered, invented or withdrawn by any sequence of stalls, *)
(* bursts, pointer wraps and resets.                                       *)
(***************************************************************************)
RefinesFifo == Fifo!Spec

(***************************************************************************)
(* A full queue opens again: a word offered on Rx is accepted unless the   *)
(* reset intervenes.                                                       *)
(***************************************************************************)
RxAccepted == rx_tvalid /\ areset_n ~> (rx_tvalid /\ rx_tready) \/ ~areset_n

(***************************************************************************)
(* A word accepted is not stranded by the lazily updated flags: while      *)
(* there is one inside, Tx takes a word, unless the reset intervenes.      *)
(***************************************************************************)
TxDelivered == Len(Contents) > 0 ~> (tx_tvalid /\ tx_tready) \/ ~areset_n

(***************************************************************************)
(* Neither side of the queue waits for ever, whatever the flags say.       *)
(***************************************************************************)
NeitherStarves == RxAccepted /\ TxDelivered

=============================================================================
