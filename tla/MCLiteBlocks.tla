---------------------------- MODULE MCLiteBlocks ----------------------------
(***************************************************************************)
(* Three blocks, one of which runs in a behaviour: the generic queue       *)
(* (BasicQueue); a bus of one master and two slaves (LiteBus), which is    *)
(* built from such queues; and the way of a write to Avalon-MM             *)
(* (LiteWriteBridge).                                                      *)
(***************************************************************************)
EXTENDS BasicQueue, TLC

CONSTANTS SLAVES, MAP, ADDRESSES, CAPACITY, DECERR, Outstanding, MaxLead,
          BRIDGE_ADDRESSES  \* those of LiteWriteBridge

VARIABLES
    block,   \* "queue", "bus" or "bridge"
    \* LiteBus
    path, request, data, bready, decoded, fifo, shown, ready, to_slave,
    w_slave, response, job, given, answer, behind, asked, gave, owed,
    \* LiteWriteBridge
    bridge_areset_n, awvalid, awaddr, wvalid, wdata, aligned_awvalid,
    aligned_awaddr, aligned_wvalid, aligned_wdata, aw_state, aw_ready,
    aw_buffered, w_state, w_ready, w_buffered, waitrequest, write, address,
    writedata

bus == <<path, request, data, bready, decoded, fifo, shown, ready, to_slave,
         w_slave, response, job, given, answer, behind, asked, gave, owed>>

bridge == <<bridge_areset_n, awvalid, awaddr, wvalid, wdata, aligned_awvalid,
            aligned_awaddr, aligned_wvalid, aligned_wdata, aw_state, aw_ready,
            aw_buffered, w_state, w_ready, w_buffered, waitrequest, write,
            address, writedata>>

Bus == INSTANCE LiteBus

Bridge == INSTANCE LiteWriteBridge
    WITH ADDRESSES <- BRIDGE_ADDRESSES, areset_n <- bridge_areset_n

ASSUME BusAssumption == Bus!Parameters

\* Address 0 is that of slave 0 alone, both have 1, and no slave has 2.
OverlappingMap ==
    0 :> [address_low |-> 0, address_high |-> 2]
        @@ 1 :> [address_low |-> 1, address_high |-> 2]

-----------------------------------------------------------------------------

\* What a block that does not run holds is fixed.
MCInit ==
    /\ block \in {"queue", "bus", "bridge"}
    /\ Init
    /\ Bus!Init
    /\ Bridge!Init
    /\ block # "queue" => rx_tdata = CHOOSE d \in DATA : TRUE
    /\ block # "bus" => path = "read"
    /\ block # "bridge" =>
          /\ awaddr = CHOOSE a \in BRIDGE_ADDRESSES : TRUE
          /\ wdata = CHOOSE d \in DATA : TRUE
          /\ waitrequest

QueueNext ==
    /\ block = "queue"
    /\ Next
    /\ UNCHANGED <<block, bus, bridge>>

BusNext ==
    /\ block = "bus"
    /\ Bus!Clock
    /\ UNCHANGED <<block, vars, bridge>>

BridgeNext ==
    /\ block = "bridge"
    /\ Bridge!Next
    /\ UNCHANGED <<block, vars, bus>>

MCNext == QueueNext \/ BusNext \/ BridgeNext

mcVars == <<block, vars, bus, bridge>>

\* See BasicQueue and LiteBus.
MCFairness ==
    /\ WF_vars(block = "queue" /\ Clock)
    /\ WF_vars(block = "queue" /\ Clock /\ tx_tready')
    /\ []<><<block = "bus" => Bus!Prompt>>_mcVars

MCSpec == MCInit /\ [][MCNext]_mcVars /\ MCFairness

-----------------------------------------------------------------------------

(***************************************************************************)
(* See LiteBus: each request gets one response, from a slave it is for,    *)
(* with its own data, and in the order of the requests.                    *)
(***************************************************************************)
AnsweredInOrder == Bus!AnsweredInOrder

(***************************************************************************)
(* See LiteBus: the queues of slave numbers, of requests and of data never *)
(* wait for each other in a circle.                                        *)
(***************************************************************************)
EveryRequestAnswered == Bus!EveryRequestAnswered

(***************************************************************************)
(* See LiteWriteBridge: an address and its data are written once and       *)
(* together.                                                               *)
(***************************************************************************)
WritesWhole == Bridge!WritesWhole

=============================================================================
