-------------------------- MODULE StreamDownsizer --------------------------
(***************************************************************************)
(* logic_axi4_stream_downsizer_main: a skid buffer and the unit that sends *)
(* a wide word as narrow ones, one lane per clock, up to the last lane     *)
(* that is kept.  The wide word stays in the skid buffer until then: the   *)
(* unit is ready for it only in the clock of its last lane.                *)
(*                                                                         *)
(* A lane is what fits into a narrow word; NULL is a lane without a kept   *)
(* byte (tkeep and tstrb are zero).                                        *)
(***************************************************************************)
EXTENDS Naturals, Sequences

CONSTANTS DATA, NULL,
          DOWNSIZE,    \* lanes of an Rx word
          END,         \* the mark of the end of a packet
          UNKNOWN

VARIABLES areset_n,
          rx_tvalid, rx_tdata, tx_tready,       \* input ports
          buffer_state, rx_tready, buffered,    \* the skid buffer
          fsm_state, index, tx_tvalid, tx_tdata \* the unit

registers == <<buffer_state, rx_tready, buffered,
               fsm_state, index, tx_tvalid, tx_tdata>>

Lanes == 0 .. DOWNSIZE - 1

RxWords == [lanes : [Lanes -> DATA \cup {NULL}], last : BOOLEAN]

TxWords == [lane : DATA \cup {NULL}, last : BOOLEAN]

-----------------------------------------------------------------------------
\* The port between the skid buffer and the unit.

buffered_tvalid == buffer_state = "BUFFERED" \/ (rx_tvalid /\ rx_tready)

buffered_tdata == IF buffer_state = "IDLE" THEN rx_tdata ELSE buffered

(***************************************************************************)
(* Lane k is the last one kept.  A word that keeps nothing ends with its   *)
(* top lane.                                                               *)
(***************************************************************************)
last(k) ==
    \/ k = DOWNSIZE - 1
    \/ /\ buffered_tdata.lanes[k] # NULL
       /\ \A j \in Lanes : j > k => buffered_tdata.lanes[j] = NULL

buffered_tready ==
    CASE fsm_state = "FIRST" -> ~buffered_tvalid \/ (tx_tready /\ last(0))
      [] fsm_state = "DOWNSIZE" -> buffered_tvalid /\ tx_tready /\ last(index)

Buffer == INSTANCE BasicBuffer WITH DATA      <- RxWords,
                                    fsm_state <- buffer_state,
                                    tx_tready <- buffered_tready

TypeOK ==
    /\ Buffer!TypeOK
    /\ fsm_state = IF index = 0 THEN "FIRST" ELSE "DOWNSIZE"
    /\ index \in Lanes
    /\ tx_tvalid \in BOOLEAN
    /\ tx_tdata \in TxWords \cup {UNKNOWN}

-----------------------------------------------------------------------------
\* Registers.

Taken == buffered_tvalid /\ tx_tready

FsmState ==
    fsm_state' = CASE Taken /\ fsm_state = "FIRST" /\ ~last(0) -> "DOWNSIZE"
                   [] Taken /\ fsm_state = "DOWNSIZE" /\ last(index) -> "FIRST"
                   [] OTHER -> fsm_state

Index ==
    index' = CASE Taken /\ last(index) -> 0
               [] Taken /\ ~last(index) -> index + 1
               [] OTHER -> index

Tx ==
    IF tx_tready
    THEN /\ tx_tvalid' = buffered_tvalid
         /\ tx_tdata' = [lane |-> buffered_tdata.lanes[index],
                         last |-> /\ buffered_tdata.last
                                  /\ buffered_tvalid
                                  /\ last(index)]
    ELSE UNCHANGED <<tx_tvalid, tx_tdata>>

ClockRegisters ==
    /\ Buffer!FsmState /\ Buffer!RxReady /\ Buffer!Buffered
    /\ FsmState
    /\ Index
    /\ Tx

ResetRegisters ==
    /\ buffer_state' = "IDLE"
    /\ rx_tready' = FALSE
    /\ fsm_state' = "FIRST"
    /\ index' = 0
    /\ tx_tvalid' = FALSE
    /\ UNCHANGED <<buffered, tx_tdata>>

Init ==
    /\ buffer_state = "IDLE"
    /\ rx_tready = FALSE
    /\ buffered = UNKNOWN
    /\ fsm_state = "FIRST"
    /\ index = 0
    /\ tx_tvalid = FALSE
    /\ tx_tdata = UNKNOWN

-----------------------------------------------------------------------------
(***************************************************************************)
(* Words as streams: the kept lanes and, with tlast, the mark END.         *)
(***************************************************************************)
Kept(lane) == IF lane = NULL THEN << >> ELSE <<lane>>

Mark(end) == IF end THEN <<END>> ELSE << >>

\* A word from lane k on: its last DOWNSIZE - k lanes.
From(word, k) ==
    LET rest[n \in 0 .. DOWNSIZE] ==
            IF n = 0 THEN Mark(word.last)
                     ELSE Kept(word.lanes[DOWNSIZE - n]) \o rest[n - 1]
    IN  rest[DOWNSIZE - k]

Contents ==
    (IF tx_tvalid THEN Kept(tx_tdata.lane) \o Mark(tx_tdata.last) ELSE << >>)
    \o IF buffer_state = "BUFFERED" THEN From(buffered, index) ELSE << >>

=============================================================================
