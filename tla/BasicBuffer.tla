---------------------------- MODULE BasicBuffer ----------------------------
(***************************************************************************)
(* logic_basic_buffer: a one-word skid buffer.  The ready signal is        *)
(* registered from Tx to Rx, so Rx learns one clock late that Tx stalled;  *)
(* the word accepted in that clock is kept in `buffered'.                  *)
(*                                                                         *)
(* One action is one clock edge (or one edge of the asynchronous reset).   *)
(* The registers of the module are variables; its always_comb signals are  *)
(* operators.  The input ports are variables driven by the environment:    *)
(* Rx obeys the hold rule that logic_axi4_stream_if asserts with OVL, Tx   *)
(* drives tready freely.                                                   *)
(***************************************************************************)
EXTENDS Sequences

CONSTANTS DATA,     \* words carried on tdata
          UNKNOWN   \* what a register without a reset powers up with ('x)

VARIABLES areset_n,             \* asynchronous reset, active low
          rx_tvalid, rx_tdata,  \* Rx inputs
          tx_tready,            \* Tx input
          fsm_state, rx_tready, buffered

inputs == <<rx_tvalid, rx_tdata, tx_tready>>

vars == <<areset_n, inputs, fsm_state, rx_tready, buffered>>

Words == DATA \cup {UNKNOWN}

TypeOK ==
    /\ areset_n \in BOOLEAN
    /\ rx_tvalid \in BOOLEAN
    /\ rx_tdata \in DATA
    /\ tx_tready \in BOOLEAN
    /\ fsm_state \in {"IDLE", "BUFFERED"}
    /\ rx_tready \in BOOLEAN
    /\ buffered \in Words

-----------------------------------------------------------------------------
\* Combinational outputs.

tx_tvalid == \/ fsm_state = "IDLE" /\ rx_tvalid /\ rx_tready
             \/ fsm_state = "BUFFERED"

tx_tdata == IF fsm_state = "IDLE" THEN rx_tdata ELSE buffered

-----------------------------------------------------------------------------
\* Registers, one operator for each always_ff block.

FsmState ==
    fsm_state' =
        CASE fsm_state = "IDLE" /\ rx_tvalid /\ rx_tready /\ ~tx_tready -> "BUFFERED"
          [] fsm_state = "BUFFERED" /\ tx_tready -> "IDLE"
          [] OTHER -> fsm_state

RxReady == rx_tready' = tx_tready

Buffered == buffered' = IF rx_tready THEN rx_tdata ELSE buffered

-----------------------------------------------------------------------------
\* The environment.

(***************************************************************************)
(* The Rx driver: a word that was not accepted is held.                    *)
(***************************************************************************)
RxDrive ==
    \/ /\ rx_tvalid /\ ~rx_tready
       /\ UNCHANGED <<rx_tvalid, rx_tdata>>
    \/ /\ ~(rx_tvalid /\ ~rx_tready)
       /\ rx_tvalid' \in BOOLEAN
       /\ rx_tdata' \in DATA

TxDrive == tx_tready' \in BOOLEAN

-----------------------------------------------------------------------------

Init ==
    /\ areset_n = FALSE
    /\ rx_tvalid = FALSE
    /\ rx_tdata \in DATA
    /\ tx_tready = FALSE
    /\ fsm_state = "IDLE"
    /\ rx_tready = FALSE
    /\ buffered = UNKNOWN

(***************************************************************************)
(* A rising edge of aclk.                                                  *)
(***************************************************************************)
Clock ==
    /\ areset_n
    /\ FsmState
    /\ RxReady
    /\ Buffered
    /\ RxDrive
    /\ TxDrive
    /\ UNCHANGED areset_n

(***************************************************************************)
(* A rising edge of aclk while the reset is asserted: only `buffered' has  *)
(* no reset, and rx_tready, which enables it, is low.                      *)
(***************************************************************************)
ClockInReset ==
    /\ ~areset_n
    /\ Buffered
    /\ RxDrive
    /\ TxDrive
    /\ UNCHANGED <<areset_n, fsm_state, rx_tready>>

(***************************************************************************)
(* The falling edge of areset_n, at any time; it also resets the drivers.  *)
(***************************************************************************)
Reset ==
    /\ areset_n
    /\ areset_n' = FALSE
    /\ fsm_state' = "IDLE"
    /\ rx_tready' = FALSE
    /\ rx_tvalid' = FALSE
    /\ tx_tready' = FALSE
    /\ UNCHANGED <<rx_tdata, buffered>>

Release ==
    /\ ~areset_n
    /\ areset_n' = TRUE
    /\ UNCHANGED <<inputs, fsm_state, rx_tready, buffered>>

Next == Clock \/ ClockInReset \/ Reset \/ Release

Spec == Init /\ [][Next]_vars

-----------------------------------------------------------------------------
\* Properties.

(***************************************************************************)
(* The captured word is never overwritten before Tx took it: while the     *)
(* buffer is occupied Rx is not ready, although rx_tready only follows     *)
(* tx_tready a clock later.                                                *)
(***************************************************************************)
NoOverrun == fsm_state = "BUFFERED" => ~rx_tready /\ buffered \in DATA

Contents == IF fsm_state = "BUFFERED" THEN <<buffered>> ELSE <<>>

Fifo == INSTANCE StreamFifo WITH CAPACITY <- 1, contents <- Contents

(***************************************************************************)
(* The skid buffer is a FIFO of one word: no word is lost, duplicated,     *)
(* reordered or withdrawn by any sequence of stalls and resets.            *)
(***************************************************************************)
RefinesFifo == Fifo!Spec

=============================================================================
