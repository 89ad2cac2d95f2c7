---------------------------- MODULE StreamSplit ----------------------------
(***************************************************************************)
(* logic_axi4_stream_split_main: a skid buffer and the unit that copies    *)
(* each word to all outputs.  A word leaves the skid buffer only in a      *)
(* clock in which every output is ready; an output that is ready while     *)
(* another is not goes empty.                                              *)
(***************************************************************************)
EXTENDS Naturals, Sequences

CONSTANTS WORDS, OUTPUTS, UNKNOWN

VARIABLES areset_n,
          rx_tvalid, rx_tdata, tx_tready,         \* input ports
          buffer_state, rx_tready, buffered,      \* the skid buffer
          tx_tvalid, tx_tdata                     \* the copies

registers == <<buffer_state, rx_tready, buffered, tx_tvalid, tx_tdata>>

Outputs == 0 .. OUTPUTS - 1

-----------------------------------------------------------------------------
\* The port between the skid buffer and the unit.

buffered_tvalid == buffer_state = "BUFFERED" \/ (rx_tvalid /\ rx_tready)

buffered_tdata == IF buffer_state = "IDLE" THEN rx_tdata ELSE buffered

\* Mutant: the unit is ready only for a word that is already there.
buffered_tready_WhenValid ==
    buffered_tvalid /\ \A k \in Outputs : tx_tready[k]

buffered_tready == ~buffered_tvalid \/ \A k \in Outputs : tx_tready[k]

Buffer == INSTANCE BasicBuffer WITH DATA      <- WORDS,
                                    fsm_state <- buffer_state,
                                    tx_tready <- buffered_tready

-----------------------------------------------------------------------------
\* Registers.

Tx ==
    /\ tx_tvalid' = [k \in Outputs |->
          IF tx_tready[k] THEN buffered_tvalid /\ buffered_tready
                          ELSE tx_tvalid[k]]
    /\ tx_tdata' = [k \in Outputs |-> IF tx_tready[k] THEN buffered_tdata
                                                      ELSE tx_tdata[k]]

ClockRegisters ==
    /\ Buffer!FsmState /\ Buffer!RxReady /\ Buffer!Buffered
    /\ Tx

ResetRegisters ==
    /\ buffer_state' = "IDLE"
    /\ rx_tready' = FALSE
    /\ tx_tvalid' = [k \in Outputs |-> FALSE]
    /\ UNCHANGED <<buffered, tx_tdata>>

Init ==
    /\ buffer_state = "IDLE"
    /\ rx_tready = FALSE
    /\ buffered = UNKNOWN
    /\ tx_tvalid = [k \in Outputs |-> FALSE]
    /\ tx_tdata = [k \in Outputs |-> UNKNOWN]

-----------------------------------------------------------------------------
(***************************************************************************)
(* The words inside that output k has not delivered, oldest first.         *)
(***************************************************************************)
Contents(k) ==
    (IF tx_tvalid[k] THEN <<tx_tdata[k]>> ELSE << >>)
    \o IF buffer_state = "BUFFERED" THEN <<buffered>> ELSE << >>

=============================================================================
