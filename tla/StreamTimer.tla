---------------------------- MODULE StreamTimer ----------------------------
(***************************************************************************)
(* logic_axi4_stream_timer: streams 0, 1, ... up to the period minus one,  *)
(* the last with tlast, over and over.  A word on Rx sets a new period and *)
(* starts again from 0.  tlast is a register computed one word ahead,      *)
(* which is why `periodic' holds the period minus two; a period set while  *)
(* Tx holds a word takes effect behind that word (FSM_RELOAD).             *)
(***************************************************************************)
EXTENDS Integers

CONSTANTS PERIODIC_DEFAULT,   \* at least 2
          COUNTER_MAX,        \* at least PERIODIC_DEFAULT
          COUNTER_SIZE        \* 2**COUNTER_WIDTH, with COUNTER_WIDTH = $clog2(COUNTER_MAX)

VARIABLES areset_n,
          rx_tvalid, rx_tdata, tx_tready,   \* input ports
          fsm_state, counter, periodic, counter_event, tx_tvalid

inputs == <<rx_tvalid, rx_tdata, tx_tready>>

registers == <<fsm_state, counter, periodic, counter_event, tx_tvalid>>

vars == <<areset_n, inputs, registers>>

Periods == 2 .. COUNTER_MAX

Counts == 0 .. COUNTER_SIZE - 1

TypeOK ==
    /\ areset_n \in BOOLEAN
    /\ rx_tvalid \in BOOLEAN
    /\ rx_tdata \in Periods
    /\ tx_tready \in BOOLEAN
    /\ fsm_state \in {"IDLE", "RELOAD"}
    /\ counter \in Counts
    /\ periodic \in Counts
    /\ counter_event \in BOOLEAN
    /\ tx_tvalid \in BOOLEAN

-----------------------------------------------------------------------------
\* Combinational signals.

PERIODIC_OFFSET == 2

Load(period) == (period - PERIODIC_OFFSET) % COUNTER_SIZE

counter_reload == counter_event \/ rx_tvalid \/ fsm_state = "RELOAD"

tx_tlast == counter_event

Taken == tx_tvalid /\ tx_tready

-----------------------------------------------------------------------------
\* Registers.

FsmState ==
    fsm_state' =
        CASE fsm_state = "IDLE" /\ rx_tvalid /\ tx_tvalid /\ ~tx_tready -> "RELOAD"
          [] fsm_state = "RELOAD" /\ tx_tvalid /\ tx_tready -> "IDLE"
          [] OTHER -> fsm_state

Counter ==
    counter' = IF Taken
               THEN IF counter_reload THEN 0 ELSE (counter + 1) % COUNTER_SIZE
               ELSE counter

Periodic == periodic' = IF rx_tvalid THEN Load(rx_tdata) ELSE periodic

\* Mutant: a new period does not cancel the event.
CounterEventLeft ==
    counter_event' = IF tx_tready THEN counter = periodic ELSE counter_event

CounterEvent ==
    counter_event' = IF tx_tready
                     THEN counter = periodic /\ ~rx_tvalid /\ fsm_state # "RELOAD"
                     ELSE counter_event

TxValid == tx_tvalid' = (tx_tready \/ tx_tvalid)

ClockRegisters == FsmState /\ Counter /\ Periodic /\ CounterEvent /\ TxValid

ResetRegisters ==
    /\ fsm_state' = "IDLE"
    /\ counter' = 0
    /\ periodic' = Load(PERIODIC_DEFAULT)
    /\ counter_event' = FALSE
    /\ tx_tvalid' = FALSE

-----------------------------------------------------------------------------

Inputs ==
    /\ rx_tvalid' \in BOOLEAN
    /\ rx_tdata' \in Periods
    /\ tx_tready' \in BOOLEAN

Init ==
    /\ areset_n = FALSE
    /\ rx_tvalid = FALSE
    /\ rx_tdata \in Periods
    /\ tx_tready = FALSE
    /\ fsm_state = "IDLE"
    /\ counter = 0
    /\ periodic = Load(PERIODIC_DEFAULT)
    /\ counter_event = FALSE
    /\ tx_tvalid = FALSE

(***************************************************************************)
(* A rising edge of aclk.  Rx is always ready.                             *)
(***************************************************************************)
Clock ==
    /\ areset_n
    /\ ClockRegisters
    /\ Inputs
    /\ UNCHANGED areset_n

Reset ==
    /\ areset_n
    /\ areset_n' = FALSE
    /\ ResetRegisters
    /\ rx_tvalid' = FALSE
    /\ tx_tready' = FALSE
    /\ UNCHANGED rx_tdata

Release ==
    /\ ~areset_n
    /\ areset_n' = TRUE
    /\ Inputs
    /\ UNCHANGED registers

Next == Clock \/ Reset \/ Release

Spec == Init /\ [][Next]_vars

-----------------------------------------------------------------------------
\* Properties.

(***************************************************************************)
(* "It produces values from 0 to periodic minus one.  The tlast output     *)
(* signal is used as counter reload event": tlast comes with the period    *)
(* minus one, and never with another value.                                *)
(***************************************************************************)
LastIsPeriod ==
    tx_tvalid /\ fsm_state = "IDLE" =>
        /\ tx_tlast <=> counter = periodic + 1
        /\ counter <= periodic + 1

=============================================================================
