-------------------------- MODULE TransferCounter --------------------------
(***************************************************************************)
(* logic_axi4_stream_transfer_counter: counts the transfers (or, with      *)
(* PACKETS, the packets) that have passed a monitored Rx port and not yet  *)
(* a monitored Tx port, and streams the count.  The count saturates at     *)
(* COUNTER_MAX and at zero.  Its flags are registered like those of the    *)
(* queue: a stale comparison, made exact by the two low bits of the count. *)
(*                                                                         *)
(* Everything, the counting included, stands still while tx.tready is low. *)
(***************************************************************************)
EXTENDS Integers

CONSTANTS COUNTER_MAX,
          COUNTER_SIZE   \* 2**COUNTER_WIDTH, the values the register takes;
                         \* COUNTER_WIDTH is $clog2(COUNTER_MAX + 1), at least 2

VARIABLES write,      \* a (last) word is handed over on the monitored Rx port
          read,       \* a (last) word is handed over on the monitored Tx port
          tx_tready,  \* input port
          counter, almost_empty, almost_full, tx_tvalid

TypeOK ==
    /\ counter \in 0 .. COUNTER_SIZE - 1
    /\ almost_empty \in BOOLEAN
    /\ almost_full \in BOOLEAN
    /\ tx_tvalid \in BOOLEAN

-----------------------------------------------------------------------------
\* Combinational signals.

ALMOST_FULL == COUNTER_MAX - 1

ALMOST_EMPTY == 1

empty == almost_empty /\ counter % 4 = 0

full == almost_full /\ counter % 4 = COUNTER_MAX % 4

-----------------------------------------------------------------------------
\* Registers.

\* The register has COUNTER_WIDTH bits.
Up(c) == IF c = COUNTER_SIZE - 1 THEN 0 ELSE c + 1

Down(c) == IF c = 0 THEN COUNTER_SIZE - 1 ELSE c - 1

\* Mutant: a write hides a simultaneous read.
CounterWriteFirst ==
    counter' =
        CASE tx_tready /\ write /\ ~full -> Up(counter)
          [] tx_tready /\ ~write /\ read /\ ~empty -> Down(counter)
          [] OTHER -> counter

Counter ==
    counter' =
        CASE tx_tready /\ write /\ ~read /\ ~full -> Up(counter)
          [] tx_tready /\ ~write /\ read /\ ~empty -> Down(counter)
          [] OTHER -> counter

Flags ==
    IF tx_tready
    THEN /\ almost_empty' = (counter <= ALMOST_EMPTY)
         /\ almost_full' = (counter >= ALMOST_FULL)
         /\ tx_tvalid' = TRUE
    ELSE UNCHANGED <<almost_empty, almost_full, tx_tvalid>>

(***************************************************************************)
(* The reset clears every register, almost_empty too: the flag is wrong    *)
(* until the first clock edge with tx.tready, which also raises tx.tvalid. *)
(***************************************************************************)
ResetRegisters ==
    /\ counter' = 0
    /\ almost_empty' = FALSE
    /\ almost_full' = FALSE
    /\ tx_tvalid' = FALSE

=============================================================================
