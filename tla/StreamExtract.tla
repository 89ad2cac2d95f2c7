--------------------------- MODULE StreamExtract ---------------------------
(***************************************************************************)
(* logic_axi4_stream_extract_main: a skid buffer and the unit that sends   *)
(* the words with an identifier of the extracted packets to its second     *)
(* output and all others to its first one.                                 *)
(*                                                                         *)
(* The outputs are registers; the modules that use them name the ports.    *)
(***************************************************************************)
EXTENDS Naturals, Sequences

CONSTANTS WORDS,           \* records with an id (tdest or tid) and data
          PACKETS,         \* how many identifiers are extracted
          EXTRACT_WIDTH,   \* bits of an identifier
          UNKNOWN

VARIABLES areset_n,
          rx_tvalid, rx_tdata, tx_tready,         \* input ports
          buffer_state, rx_tready, buffered,      \* the skid buffer
          tx_tvalid, tx_tdata                     \* the outputs 0 and 1

registers == <<buffer_state, rx_tready, buffered, tx_tvalid, tx_tdata>>

Outputs == {0, 1}

-----------------------------------------------------------------------------
\* The port between the skid buffer and the unit.

buffered_tvalid == buffer_state = "BUFFERED" \/ (rx_tvalid /\ rx_tready)

buffered_tdata == IF buffer_state = "IDLE" THEN rx_tdata ELSE buffered

(***************************************************************************)
(* The unit compares with the numbers 0 .. PACKETS - 1; its parameter      *)
(* EXTRACT, the list of identifiers, is not used.                          *)
(***************************************************************************)
Extracted(word) == \E k \in 0 .. PACKETS - 1 : word.id = k % 2^EXTRACT_WIDTH

Output(word) == IF Extracted(word) THEN 1 ELSE 0

\* Mutant: any output that is ready takes the word off Rx.
buffered_tready_Any == ~buffered_tvalid \/ \E k \in Outputs : tx_tready[k]

buffered_tready == ~buffered_tvalid \/ tx_tready[Output(buffered_tdata)]

Buffer == INSTANCE BasicBuffer WITH DATA      <- WORDS,
                                    fsm_state <- buffer_state,
                                    tx_tready <- buffered_tready

-----------------------------------------------------------------------------
\* Registers.

Tx ==
    /\ tx_tvalid' = [k \in Outputs |->
          IF tx_tready[k] THEN buffered_tvalid /\ Output(buffered_tdata) = k
                          ELSE tx_tvalid[k]]
    /\ tx_tdata' = [k \in Outputs |->
          IF tx_tready[k] THEN buffered_tdata ELSE tx_tdata[k]]

ClockRegisters ==
    /\ Buffer!FsmState /\ Buffer!RxReady /\ Buffer!Buffered
    /\ Tx

ResetRegisters ==
    /\ buffer_state' = "IDLE"
    /\ rx_tready' = FALSE
    /\ tx_tvalid' = [k \in Outputs |-> FALSE]
    /\ UNCHANGED <<buffered, tx_tdata>>

Init ==
    /\ buffer_state = "IDLE"
    /\ rx_tready = FALSE
    /\ buffered = UNKNOWN
    /\ tx_tvalid = [k \in Outputs |-> FALSE]
    /\ tx_tdata = [k \in Outputs |-> UNKNOWN]

-----------------------------------------------------------------------------
(***************************************************************************)
(* The words for output k that are inside, oldest first.                   *)
(***************************************************************************)
Contents(k) ==
    (IF tx_tvalid[k] THEN <<tx_tdata[k]>> ELSE << >>)
    \o IF buffer_state = "BUFFERED" /\ Output(buffered) = k THEN <<buffered>>
                                                            ELSE << >>

=============================================================================
