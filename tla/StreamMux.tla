----------------------------- MODULE StreamMux -----------------------------
(***************************************************************************)
(* logic_axi4_stream_mux: a tree of two-input multiplexers merges the      *)
(* packets of INPUTS streams into one.  As in logic_axi4_stream_mux_main   *)
(* the streams muxed[n] of the tree are numbered like a heap: the stream n *)
(* is chosen from the streams 2n+1 and 2n+2, input k is the stream         *)
(* MUXED-1-k, and stream 0 is the output.  In front of each multiplexer    *)
(* input stands a skid buffer (logic_axi4_stream_buffer, see BasicBuffer). *)
(*                                                                         *)
(* A multiplexer keeps to one input until its tlast, then prefers the      *)
(* other one.  It has one register, its output; it decides in the same     *)
(* clock in which it takes the word.                                       *)
(***************************************************************************)
EXTENDS Integers, Sequences

CONSTANTS INPUTS,
          DEPTH,    \* $clog2(INPUTS); one input needs no multiplexer
          UNKNOWN

ASSUME MuxAssumption ==
    /\ INPUTS \in Nat /\ DEPTH \in Nat \ {0}
    /\ 2^(DEPTH - 1) < INPUTS /\ INPUTS <= 2^DEPTH
    /\ UNKNOWN \notin [src : 0 .. INPUTS - 1, last : BOOLEAN]

INPUTS_NORMALIZED == 2^DEPTH

MUXED == 2 * INPUTS_NORMALIZED - 1

Inputs == 0 .. INPUTS - 1

Units == 0 .. INPUTS_NORMALIZED - 2    \* the multiplexers, by their output

Buffers == 1 .. MUXED - 1              \* the skid buffers, by their input

VARIABLES
    areset_n,
    rx_tvalid, rx_tlast,               \* input k of the Rx ports
    tx_tready,
    fsm_state, tvalid, tdata,          \* multiplexer u
    buffer_state, buffer_tready, buffered   \* skid buffer n

vars == <<areset_n, rx_tvalid, rx_tlast, tx_tready,
          fsm_state, tvalid, tdata, buffer_state, buffer_tready, buffered>>

Words == [src : Inputs, last : BOOLEAN]

TypeOK ==
    /\ areset_n \in BOOLEAN
    /\ rx_tvalid \in [Inputs -> BOOLEAN]
    /\ rx_tlast \in [Inputs -> BOOLEAN]
    /\ tx_tready \in BOOLEAN
    /\ fsm_state \in [Units -> {"FIRST", "FIRST_SELECT",
                                "SECOND", "SECOND_SELECT"}]
    /\ tvalid \in [Units -> BOOLEAN]
    /\ tdata \in [Units -> Words \cup {UNKNOWN}]
    /\ \A u \in Units : tvalid[u] => tdata[u] \in Words
    /\ buffer_state \in [Buffers -> {"IDLE", "BUFFERED"}]
    /\ buffer_tready \in [Buffers -> BOOLEAN]
    /\ buffered \in [Buffers -> Words \cup {UNKNOWN}]

-----------------------------------------------------------------------------
\* The streams muxed[n]: outputs of multiplexers, inputs, and unused inputs.

InputOf(n) == MUXED - 1 - n

Valid(n) == IF n \in Units THEN tvalid[n]
                           ELSE InputOf(n) \in Inputs /\ rx_tvalid[InputOf(n)]

Word(n) == CASE n \in Units -> tdata[n]
             [] InputOf(n) \in Inputs ->
                   [src |-> InputOf(n), last |-> rx_tlast[InputOf(n)]]
             [] OTHER -> UNKNOWN

Ready(n) == IF n = 0 THEN tx_tready ELSE buffer_tready[n]

\* The streams behind the skid buffers.
BufferedValid(n) == \/ buffer_state[n] = "BUFFERED"
                    \/ Valid(n) /\ buffer_tready[n]

BufferedWord(n) == IF buffer_state[n] = "IDLE" THEN Word(n) ELSE buffered[n]

First(u) == 2 * u + 1

Second(u) == 2 * u + 2

ParentOf(n) == (n - 1) \div 2

\* Mutants: the choice is free again at each word; the first input always wins.
SelectedFree(u) ==
    IF fsm_state[u] \in {"SECOND", "SECOND_SELECT"}
    THEN IF BufferedValid(Second(u)) THEN Second(u) ELSE First(u)
    ELSE IF BufferedValid(First(u)) THEN First(u) ELSE Second(u)

SelectedFirst(u) ==
    CASE fsm_state[u] = "FIRST_SELECT" -> First(u)
      [] fsm_state[u] = "SECOND_SELECT" -> Second(u)
      [] OTHER -> IF BufferedValid(First(u)) THEN First(u) ELSE Second(u)

Selected(u) ==
    CASE fsm_state[u] = "FIRST" ->
            IF BufferedValid(First(u)) THEN First(u) ELSE Second(u)
      [] fsm_state[u] = "FIRST_SELECT" -> First(u)
      [] fsm_state[u] = "SECOND" ->
            IF BufferedValid(Second(u)) THEN Second(u) ELSE First(u)
      [] fsm_state[u] = "SECOND_SELECT" -> Second(u)

BufferedReady(n) ==
    ~BufferedValid(n) \/ (Selected(ParentOf(n)) = n /\ Ready(ParentOf(n)))

-----------------------------------------------------------------------------
\* Registers.

\* An unknown tlast does not hold in an if.
Last(w) == w # UNKNOWN /\ w.last

(***************************************************************************)
(* The input behind the word taken is selected up to its tlast, and comes  *)
(* second after it.                                                        *)
(***************************************************************************)
NextState(u) ==
    LET n == Selected(u) IN
    IF ~Ready(u) \/ ~BufferedValid(n) THEN fsm_state[u]
    ELSE IF n = First(u)
           THEN IF Last(BufferedWord(n)) THEN "SECOND" ELSE "FIRST_SELECT"
           ELSE IF Last(BufferedWord(n)) THEN "FIRST" ELSE "SECOND_SELECT"

ClockUnits ==
    /\ fsm_state' = [u \in Units |-> NextState(u)]
    /\ tvalid' = [u \in Units |-> IF Ready(u) THEN BufferedValid(Selected(u))
                                              ELSE tvalid[u]]
    /\ tdata' = [u \in Units |-> IF Ready(u) THEN BufferedWord(Selected(u))
                                             ELSE tdata[u]]

\* Mutant: the word accepted during the stall is not kept.
NextBufferStateIdle(n) ==
    CASE buffer_state[n] = "BUFFERED" /\ BufferedReady(n) -> "IDLE"
      [] OTHER -> buffer_state[n]

NextBufferState(n) ==
    CASE buffer_state[n] = "IDLE" /\ Valid(n) /\ buffer_tready[n]
                                  /\ ~BufferedReady(n) -> "BUFFERED"
      [] buffer_state[n] = "BUFFERED" /\ BufferedReady(n) -> "IDLE"
      [] OTHER -> buffer_state[n]

ClockBuffers ==
    /\ buffer_state' = [n \in Buffers |-> NextBufferState(n)]
    /\ buffer_tready' = [n \in Buffers |-> BufferedReady(n)]
    /\ buffered' = [n \in Buffers |-> IF buffer_tready[n] THEN Word(n)
                                                          ELSE buffered[n]]

-----------------------------------------------------------------------------

RxHeld(k) == rx_tvalid[k] /\ ~Ready(MUXED - 1 - k)

(***************************************************************************)
(* The Rx drivers hold a word that was not accepted; Tx is ready at will.  *)
(***************************************************************************)
Drive ==
    /\ rx_tvalid' \in [Inputs -> BOOLEAN]
    /\ rx_tlast' \in [Inputs -> BOOLEAN]
    /\ \A k \in Inputs :
          RxHeld(k) => rx_tvalid'[k] /\ rx_tlast'[k] = rx_tlast[k]
    /\ tx_tready' \in BOOLEAN

Init ==
    /\ areset_n = FALSE
    /\ rx_tvalid = [k \in Inputs |-> FALSE]
    /\ rx_tlast = [k \in Inputs |-> FALSE]
    /\ tx_tready = FALSE
    /\ fsm_state = [u \in Units |-> "FIRST"]
    /\ tvalid = [u \in Units |-> FALSE]
    /\ tdata = [u \in Units |-> UNKNOWN]
    /\ buffer_state = [n \in Buffers |-> "IDLE"]
    /\ buffer_tready = [n \in Buffers |-> FALSE]
    /\ buffered = [n \in Buffers |-> UNKNOWN]

(***************************************************************************)
(* A rising edge of aclk.                                                  *)
(***************************************************************************)
Clock ==
    /\ areset_n
    /\ ClockUnits
    /\ ClockBuffers
    /\ Drive
    /\ UNCHANGED areset_n

Reset ==
    /\ areset_n
    /\ areset_n' = FALSE
    /\ fsm_state' = [u \in Units |-> "FIRST"]
    /\ tvalid' = [u \in Units |-> FALSE]
    /\ buffer_state' = [n \in Buffers |-> "IDLE"]
    /\ buffer_tready' = [n \in Buffers |-> FALSE]
    /\ rx_tvalid' = [k \in Inputs |-> FALSE]
    /\ tx_tready' = FALSE
    /\ UNCHANGED <<rx_tlast, tdata, buffered>>

Release ==
    /\ ~areset_n
    /\ areset_n' = TRUE
    /\ UNCHANGED <<rx_tvalid, rx_tlast, tx_tready, fsm_state, tvalid, tdata,
                   buffer_state, buffer_tready, buffered>>

Next == Clock \/ Reset \/ Release

Spec == Init /\ [][Next]_vars

-----------------------------------------------------------------------------
\* Properties.

(***************************************************************************)
(* The streams on the way from input k to the output: the stream of the    *)
(* input, that of the multiplexer behind it, ..., stream 0.                *)
(***************************************************************************)
Way(k) == LET way[d \in 0 .. DEPTH] ==
                  IF d = 0 THEN MUXED - 1 - k ELSE ParentOf(way[d - 1])
          IN  way

(***************************************************************************)
(* The words of input k in the tree, oldest first: in the skid buffer and  *)
(* the register of each stream on its way, from stream 0 back.             *)
(***************************************************************************)
HeldIn(n, k) ==
    (IF n \in Buffers /\ buffer_state[n] = "BUFFERED" /\ buffered[n].src = k
     THEN <<buffered[n].last>> ELSE << >>)
    \o (IF n \in Units /\ tvalid[n] /\ tdata[n].src = k THEN <<tdata[n].last>>
                                                        ELSE << >>)

Contents(k) ==
    LET way == Way(k)
        held[d \in 0 .. DEPTH] ==
            IF d = 0 THEN HeldIn(way[0], k)
                     ELSE HeldIn(way[d], k) \o held[d - 1]
    IN  held[DEPTH]

Fifo(k) == INSTANCE StreamFifo
    WITH CAPACITY  <- 2 * DEPTH,
         rx_tvalid <- rx_tvalid[k],
         rx_tdata  <- rx_tlast[k],
         rx_tready <- Ready(MUXED - 1 - k),
         tx_tvalid <- tvalid[0] /\ tdata[0].src = k,
         tx_tdata  <- Last(tdata[0]),
         contents  <- Contents(k)

(***************************************************************************)
(* For the words of each input the tree is a FIFO: the arbitration loses,  *)
(* repeats and reorders nothing, on no level.                              *)
(***************************************************************************)
FifoInit == \A k \in Inputs : Fifo(k)!Init

FifoStep ==
    \A k \in Inputs : Fifo(k)!Next \/ UNCHANGED Fifo(k)!vars

=============================================================================
