--------------------------- MODULE StreamUpsizer ---------------------------
(***************************************************************************)
(* logic_axi4_stream_upsizer_main: a skid buffer and the unit that gathers *)
(* narrow words, one lane per clock, into a wide one.  A wide word is      *)
(* complete when it is full or when a tlast came; it then waits, still in  *)
(* the lanes, for the output register to take it, and the first lane of    *)
(* the next word may be written in the same clock.                         *)
(*                                                                         *)
(* A lane is a narrow word; NULL is one without a kept byte.  The first    *)
(* write of a word clears tkeep and tstrb of the other lanes.              *)
(***************************************************************************)
EXTENDS Naturals, Sequences

CONSTANTS DATA, NULL,
          UPSIZE,    \* lanes of a Tx word
          END,       \* the mark of the end of a packet
          UNKNOWN

VARIABLES areset_n,
          rx_tvalid, rx_tdata, tx_tready,       \* input ports
          buffer_state, rx_tready, buffered,    \* the skid buffer
          fsm_state, index, lanes, tx_tvalid, tx_tdata  \* the unit

registers == <<buffer_state, rx_tready, buffered,
               fsm_state, index, lanes, tx_tvalid, tx_tdata>>

Lanes == 0 .. UPSIZE - 1

RxWords == [lane : DATA \cup {NULL}, last : BOOLEAN]

LaneWords == [Lanes -> DATA \cup {NULL, UNKNOWN}]

TxWords == [lanes : LaneWords, last : BOOLEAN]

-----------------------------------------------------------------------------
\* The port between the skid buffer and the unit.

buffered_tvalid == buffer_state = "BUFFERED" \/ (rx_tvalid /\ rx_tready)

buffered_tdata == IF buffer_state = "IDLE" THEN rx_tdata ELSE buffered

\* Mutant: the lanes are overwritten while the output register stalls.
buffered_tready_Always == TRUE

buffered_tready == fsm_state = "UPSIZE" \/ ~buffered_tvalid \/ tx_tready

Buffer == INSTANCE BasicBuffer WITH DATA      <- RxWords,
                                    fsm_state <- buffer_state,
                                    tx_tready <- buffered_tready

TypeOK ==
    /\ buffer_state \in {"IDLE", "BUFFERED"}
    /\ rx_tready \in BOOLEAN
    /\ buffered \in RxWords \cup {UNKNOWN}
    /\ fsm_state \in {"UPSIZE", "UPSIZE_NEXT", "UPSIZE_LAST"}
    /\ index \in Lanes
    /\ lanes \in LaneWords
    /\ tx_tvalid \in BOOLEAN
    /\ tx_tdata \in TxWords \cup {UNKNOWN}
    /\ tx_tvalid => \A k \in Lanes : tx_tdata.lanes[k] # UNKNOWN

-----------------------------------------------------------------------------
\* Registers.

(***************************************************************************)
(* The unit takes a lane: always while it gathers, else when the complete  *)
(* word leaves at the same time.                                           *)
(***************************************************************************)
Taken == buffered_tvalid /\ buffered_tready

Complete == index = UPSIZE - 1 \/ buffered_tdata.last

\* Mutant: a short packet waits for the word to be full.
FsmState_Full ==
    fsm_state' =
        CASE Taken /\ index = UPSIZE - 1 ->
                IF buffered_tdata.last THEN "UPSIZE_LAST" ELSE "UPSIZE_NEXT"
          [] Taken /\ index # UPSIZE - 1 -> "UPSIZE"
          [] ~Taken /\ tx_tready -> "UPSIZE"
          [] OTHER -> fsm_state

FsmState ==
    fsm_state' =
        CASE Taken /\ buffered_tdata.last -> "UPSIZE_LAST"
          [] Taken /\ ~buffered_tdata.last /\ Complete -> "UPSIZE_NEXT"
          [] Taken /\ ~buffered_tdata.last /\ ~Complete -> "UPSIZE"
          [] ~Taken /\ tx_tready -> "UPSIZE"
          [] OTHER -> fsm_state

Index ==
    index' = CASE Taken /\ Complete -> 0
               [] Taken /\ ~Complete -> index + 1
               [] OTHER -> index

WriteLanes ==
    lanes' = CASE Taken /\ index = 0 ->
                     [k \in Lanes |-> IF k = 0 THEN buffered_tdata.lane ELSE NULL]
               [] Taken /\ index # 0 ->
                     [lanes EXCEPT ![index] = buffered_tdata.lane]
               [] OTHER -> lanes

Tx ==
    IF tx_tready
    THEN /\ tx_tvalid' = (fsm_state \in {"UPSIZE_NEXT", "UPSIZE_LAST"})
         /\ tx_tdata' = [lanes |-> lanes, last |-> fsm_state = "UPSIZE_LAST"]
    ELSE UNCHANGED <<tx_tvalid, tx_tdata>>

ClockRegisters ==
    /\ Buffer!FsmState /\ Buffer!RxReady /\ Buffer!Buffered
    /\ FsmState
    /\ Index
    /\ WriteLanes
    /\ Tx

ResetRegisters ==
    /\ buffer_state' = "IDLE"
    /\ rx_tready' = FALSE
    /\ fsm_state' = "UPSIZE"
    /\ index' = 0
    /\ tx_tvalid' = FALSE
    /\ UNCHANGED <<buffered, lanes, tx_tdata>>

Init ==
    /\ buffer_state = "IDLE"
    /\ rx_tready = FALSE
    /\ buffered = UNKNOWN
    /\ fsm_state = "UPSIZE"
    /\ index = 0
    /\ lanes = [k \in Lanes |-> UNKNOWN]
    /\ tx_tvalid = FALSE
    /\ tx_tdata = UNKNOWN

-----------------------------------------------------------------------------
(***************************************************************************)
(* Words as streams: the kept lanes and, with tlast, the mark END.         *)
(***************************************************************************)
Kept(lane) == IF lane = NULL THEN << >> ELSE <<lane>>

\* The first k lanes.
UpTo(word, k) ==
    LET first[n \in 0 .. UPSIZE] ==
            IF n = 0 THEN << >> ELSE first[n - 1] \o Kept(word[n - 1])
    IN  first[k]

Mark(last) == IF last THEN <<END>> ELSE << >>

Contents ==
    (IF tx_tvalid THEN UpTo(tx_tdata.lanes, UPSIZE) \o Mark(tx_tdata.last)
                  ELSE << >>)
    \o (IF fsm_state = "UPSIZE"
        THEN UpTo(lanes, index)
        ELSE UpTo(lanes, UPSIZE) \o Mark(fsm_state = "UPSIZE_LAST"))
    \o (IF buffer_state = "BUFFERED"
        THEN Kept(buffered.lane) \o Mark(buffered.last)
        ELSE << >>)

=============================================================================
