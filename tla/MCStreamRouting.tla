-------------------------- MODULE MCStreamRouting --------------------------
(***************************************************************************)
(* The two blocks that choose ways for words, one in each behaviour:       *)
(*   - the multiplexer of MCStreamMux;                                     *)
(*   - the demultiplexer of StreamDemux with two stages of one output      *)
(*     each.  The words of the identifier 0, which pass through both       *)
(*     stages, are of two kinds, so that their order can be seen; the      *)
(*     identifier 2 is on no output.                                       *)
(***************************************************************************)
EXTENDS MCStreamMux, TLC

CONSTANTS OUTPUTS, GROUP, EXTRACT, MAP, IDS, WORDS   \* of StreamDemux

VARIABLES block,    \* "mux" or "demux"
          \* the demultiplexer
          demux_areset_n, demux_rx_tvalid, rx_tdata, demux_tx_tready,
          demux_buffer_state, demux_buffer_tready, demux_buffered,
          next_tvalid, next_tdata, tx_tvalid, tx_tdata, drop_tready

demuxVars == <<demux_areset_n, demux_rx_tvalid, rx_tdata, demux_tx_tready,
               demux_buffer_state, demux_buffer_tready, demux_buffered,
               next_tvalid, next_tdata, tx_tvalid, tx_tdata, drop_tready>>

MCMap == 0 :> 1 @@ 1 :> 0

MCWords == {[id |-> 0, data |-> "a"], [id |-> 0, data |-> "b"],
            [id |-> 1, data |-> "a"], [id |-> 2, data |-> "a"]}

Demux == INSTANCE StreamDemux
    WITH areset_n      <- demux_areset_n,
         rx_tvalid     <- demux_rx_tvalid,
         tx_tready     <- demux_tx_tready,
         buffer_state  <- demux_buffer_state,
         buffer_tready <- demux_buffer_tready,
         buffered      <- demux_buffered

ASSUME DemuxAssumption == Demux!Parameters

RoutingInit == block \in {"mux", "demux"} /\ MCInit /\ Demux!Init

RoutingNext ==
    /\ UNCHANGED block
    /\ \/ block = "mux" /\ MCNext /\ UNCHANGED demuxVars
       \/ block = "demux" /\ Demux!Next /\ UNCHANGED mcVars

(***************************************************************************)
(* The fairness of MCStreamMux and of StreamDemux: the clock of the block  *)
(* runs, its Tx ports are ready again and again, and packets are           *)
(* continued.  The block that does not move stays in reset, where the      *)
(* conditions on its ports hold.                                           *)
(***************************************************************************)
RoutingSpec ==
    /\ RoutingInit
    /\ [][RoutingNext]_<<block, mcVars, demuxVars>>
    /\ []<><<TRUE>>_<<vars, demuxVars>>
    /\ TxAndPackets
    /\ Demux!TxReady

-----------------------------------------------------------------------------

(***************************************************************************)
(* See StreamMux and StreamDemux: for each input of the multiplexer and    *)
(* each port of the demultiplexer, the block is a FIFO of its words.       *)
(***************************************************************************)
RoutesFifo ==
    /\ FifoInit /\ Demux!FifoInit
    /\ [][IF block = "mux" THEN FifoStep ELSE Demux!FifoStep]_<<vars, demuxVars>>

(***************************************************************************)
(* See StreamDemux: no word, mapped or not, blocks Rx for good.            *)
(***************************************************************************)
RxAccepted == Demux!RxAccepted

=============================================================================
