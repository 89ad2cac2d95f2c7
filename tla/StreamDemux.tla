---------------------------- MODULE StreamDemux ----------------------------
(***************************************************************************)
(* logic_axi4_stream_demux_main: the outputs are divided into groups of    *)
(* GROUP; each group has a stage (logic_axi4_stream_demux_stage: a skid    *)
(* buffer and a unit).  A stage sends the words whose identifier is in its *)
(* part of MAP to its outputs and all others to the next stage.  What the  *)
(* last stage passes on leaves on the extra port OUTPUTS if EXTRACT is     *)
(* set, and is dropped otherwise.                                          *)
(*                                                                         *)
(* Stream n enters stage n: stream 0 is Rx, stream n + 1 is what stage n   *)
(* passes on.                                                              *)
(***************************************************************************)
EXTENDS Integers, Sequences

CONSTANTS OUTPUTS, GROUP,
          EXTRACT,   \* a BOOLEAN
          MAP,       \* [0 .. OUTPUTS - 1 -> IDS]
          IDS,       \* values of tdest (or tid)
          WORDS,     \* of Rx: records with an id and data
          UNKNOWN

\* (A stage would give a word of an identifier of two of its outputs to those
\* that are ready, one or both: the map is meant to have none.)
Parameters ==
    /\ OUTPUTS \in Nat \ {0} /\ GROUP \in Nat \ {0}
    /\ EXTRACT \in BOOLEAN
    /\ MAP \in [0 .. OUTPUTS - 1 -> IDS]
    /\ \A j, k \in 0 .. OUTPUTS - 1 :
          MAP[j] = MAP[k] /\ j \div GROUP = k \div GROUP => j = k
    /\ \A w \in WORDS : w.id \in IDS
    /\ UNKNOWN \notin WORDS

DEMUXES == (OUTPUTS + GROUP - 1) \div GROUP

Outputs == 0 .. OUTPUTS - 1

Stages == 0 .. DEMUXES - 1

TxPorts == Outputs \cup IF EXTRACT THEN {OUTPUTS} ELSE {}

VARIABLES
    areset_n,
    rx_tvalid, rx_tdata,                    \* Rx inputs
    tx_tready,                              \* of each Tx port
    buffer_state, buffer_tready, buffered,  \* the skid buffer of each stage
    next_tvalid, next_tdata,                \* what each stage passes on
    tx_tvalid, tx_tdata,                    \* the outputs
    drop_tready                             \* instead of the extra port

registers == <<buffer_state, buffer_tready, next_tvalid, tx_tvalid,
               drop_tready>>

dataRegisters == <<buffered, next_tdata, tx_tdata>>

vars == <<areset_n, rx_tvalid, rx_tdata, tx_tready, registers, dataRegisters>>

TypeOK ==
    /\ areset_n \in BOOLEAN
    /\ rx_tvalid \in BOOLEAN
    /\ rx_tdata \in WORDS \cup {UNKNOWN}
    /\ tx_tready \in [TxPorts -> BOOLEAN]
    /\ buffer_state \in [Stages -> {"IDLE", "BUFFERED"}]
    /\ buffer_tready \in [Stages -> BOOLEAN]
    /\ buffered \in [Stages -> WORDS \cup {UNKNOWN}]
    /\ next_tvalid \in [Stages -> BOOLEAN]
    /\ next_tdata \in [Stages -> WORDS \cup {UNKNOWN}]
    /\ tx_tvalid \in [Outputs -> BOOLEAN]
    /\ tx_tdata \in [Outputs -> WORDS \cup {UNKNOWN}]
    /\ drop_tready \in BOOLEAN

-----------------------------------------------------------------------------
\* The streams, and the ports between the skid buffers and the units.

Valid(n) == IF n = 0 THEN rx_tvalid ELSE next_tvalid[n - 1]

Word(n) == IF n = 0 THEN rx_tdata ELSE next_tdata[n - 1]

Ready(n) == CASE n \in Stages -> buffer_tready[n]
              [] n = DEMUXES /\ EXTRACT -> tx_tready[OUTPUTS]
              [] n = DEMUXES /\ ~EXTRACT -> drop_tready

BufferedValid(n) == \/ buffer_state[n] = "BUFFERED"
                    \/ Valid(n) /\ buffer_tready[n]

BufferedWord(n) == IF buffer_state[n] = "IDLE" THEN Word(n) ELSE buffered[n]

OutputsOf(n) == {k \in Outputs : k \div GROUP = n}

(***************************************************************************)
(* The outputs of the stage that the word belongs to.                      *)
(***************************************************************************)
select(n) == {k \in OutputsOf(n) : BufferedWord(n).id = MAP[k]}

\* Mutant: words for no output of the stage are not passed on.
BufferedReady_Kept(n) ==
    \/ ~BufferedValid(n)
    \/ \E k \in select(n) : tx_tready[k]

BufferedReady(n) ==
    \/ ~BufferedValid(n)
    \/ \E k \in select(n) : tx_tready[k]
    \/ select(n) = {} /\ Ready(n + 1)

-----------------------------------------------------------------------------
\* Registers.

ClockBuffers ==
    /\ buffer_state' =
          [n \in Stages |->
              CASE buffer_state[n] = "IDLE" /\ BufferedValid(n)
                                            /\ ~BufferedReady(n) -> "BUFFERED"
                [] buffer_state[n] = "BUFFERED" /\ BufferedReady(n) -> "IDLE"
                [] OTHER -> buffer_state[n]]
    /\ buffer_tready' = [n \in Stages |-> BufferedReady(n)]
    /\ buffered' = [n \in Stages |-> IF buffer_tready[n] THEN Word(n)
                                                         ELSE buffered[n]]

StageOf(k) == k \div GROUP

ClockUnits ==
    /\ next_tvalid' = [n \in Stages |->
          IF Ready(n + 1) THEN BufferedValid(n) /\ select(n) = {}
                          ELSE next_tvalid[n]]
    /\ next_tdata' = [n \in Stages |->
          IF Ready(n + 1) THEN BufferedWord(n) ELSE next_tdata[n]]
    /\ tx_tvalid' = [k \in Outputs |->
          IF tx_tready[k] THEN BufferedValid(StageOf(k)) /\ k \in select(StageOf(k))
                          ELSE tx_tvalid[k]]
    /\ tx_tdata' = [k \in Outputs |->
          IF tx_tready[k] THEN BufferedWord(StageOf(k)) ELSE tx_tdata[k]]

(***************************************************************************)
(* The Rx driver holds a word that was not accepted.  Without tvalid the   *)
(* word is unknown.                                                        *)
(***************************************************************************)
RxDrive ==
    \/ /\ rx_tvalid /\ ~Ready(0)
       /\ UNCHANGED <<rx_tvalid, rx_tdata>>
    \/ /\ rx_tvalid => Ready(0)
       /\ rx_tvalid' = TRUE
       /\ rx_tdata' \in WORDS
    \/ /\ rx_tvalid => Ready(0)
       /\ rx_tvalid' = FALSE
       /\ rx_tdata' = UNKNOWN

Init ==
    /\ areset_n = FALSE
    /\ rx_tvalid = FALSE
    /\ rx_tdata = UNKNOWN
    /\ tx_tready = [k \in TxPorts |-> FALSE]
    /\ buffer_state = [n \in Stages |-> "IDLE"]
    /\ buffer_tready = [n \in Stages |-> FALSE]
    /\ buffered = [n \in Stages |-> UNKNOWN]
    /\ next_tvalid = [n \in Stages |-> FALSE]
    /\ next_tdata = [n \in Stages |-> UNKNOWN]
    /\ tx_tvalid = [k \in Outputs |-> FALSE]
    /\ tx_tdata = [k \in Outputs |-> UNKNOWN]
    /\ drop_tready = FALSE

(***************************************************************************)
(* A rising edge of aclk.                                                  *)
(***************************************************************************)
Clock ==
    /\ areset_n
    /\ ClockBuffers
    /\ ClockUnits
    /\ drop_tready' = TRUE
    /\ RxDrive
    /\ tx_tready' \in [TxPorts -> BOOLEAN]
    /\ UNCHANGED areset_n

Reset ==
    /\ areset_n
    /\ areset_n' = FALSE
    /\ buffer_state' = [n \in Stages |-> "IDLE"]
    /\ buffer_tready' = [n \in Stages |-> FALSE]
    /\ next_tvalid' = [n \in Stages |-> FALSE]
    /\ tx_tvalid' = [k \in Outputs |-> FALSE]
    /\ drop_tready' = FALSE
    /\ rx_tvalid' = FALSE
    /\ rx_tdata' = UNKNOWN
    /\ tx_tready' = [k \in TxPorts |-> FALSE]
    /\ UNCHANGED dataRegisters

Release ==
    /\ ~areset_n
    /\ areset_n' = TRUE
    /\ UNCHANGED <<rx_tvalid, rx_tdata, tx_tready, registers, dataRegisters>>

Next == Clock \/ Reset \/ Release

Spec == Init /\ [][Next]_vars

(***************************************************************************)
(* Every Tx port is ready again and again, whether or not a word is        *)
(* offered on it.                                                          *)
(***************************************************************************)
TxReady == \A k \in TxPorts : []<>(areset_n => tx_tready[k])

-----------------------------------------------------------------------------
\* Properties.

(***************************************************************************)
(* The port of an identifier: the output MAP names first, or else the      *)
(* port OUTPUTS, which stands for the drop as well.                        *)
(***************************************************************************)
PortOf(id) ==
    IF \E k \in Outputs : MAP[k] = id
    THEN CHOOSE k \in Outputs : MAP[k] = id /\ \A j \in 0 .. k - 1 : MAP[j] # id
    ELSE OUTPUTS

OnWay(valid, word, port) ==
    IF valid /\ PortOf(word.id) = port THEN <<word>> ELSE << >>

(***************************************************************************)
(* The words for the port, oldest first: on the port, and then from the    *)
(* stage of the port back, what was passed to a stage and what waits in    *)
(* its skid buffer.                                                        *)
(***************************************************************************)
Contents(port) ==
    LET on == IF port = OUTPUTS
              THEN OnWay(next_tvalid[DEMUXES - 1], next_tdata[DEMUXES - 1], port)
              ELSE OnWay(tx_tvalid[port], tx_tdata[port], port)
        before[n \in 0 .. DEMUXES] ==
            IF n = 0 THEN << >>
            ELSE OnWay(buffer_state[n - 1] = "BUFFERED", buffered[n - 1], port)
                 \o (IF n = 1 THEN << >>
                     ELSE OnWay(next_tvalid[n - 2], next_tdata[n - 2], port))
                 \o before[n - 1]
    IN  on \o before[IF port = OUTPUTS THEN DEMUXES ELSE StageOf(port) + 1]

Fifo(port) == INSTANCE StreamFifo
    WITH CAPACITY  <- 2 * DEMUXES,
         rx_tvalid <- rx_tvalid /\ PortOf(rx_tdata.id) = port,
         rx_tready <- Ready(0),
         tx_tvalid <- IF port = OUTPUTS THEN next_tvalid[DEMUXES - 1]
                                        ELSE tx_tvalid[port],
         tx_tdata  <- IF port = OUTPUTS THEN next_tdata[DEMUXES - 1]
                                        ELSE tx_tdata[port],
         tx_tready <- IF port = OUTPUTS THEN Ready(DEMUXES) ELSE tx_tready[port],
         contents  <- Contents(port)

(***************************************************************************)
(* To each port the demultiplexer is a FIFO for the words with the         *)
(* identifiers of the port: every word leaves on the port of its           *)
(* identifier and on no other, once, in the order of Rx.                   *)
(***************************************************************************)
FifoInit == \A port \in Outputs \cup {OUTPUTS} : Fifo(port)!Init

FifoStep ==
    \A port \in Outputs \cup {OUTPUTS} : Fifo(port)!Next \/ UNCHANGED Fifo(port)!vars

(***************************************************************************)
(* A port that is not ready delays the words behind it, but stops nothing  *)
(* for good; words that belong to no output never block Rx.                *)
(***************************************************************************)
RxAccepted == rx_tvalid /\ areset_n ~> (rx_tvalid /\ Ready(0)) \/ ~areset_n

=============================================================================
