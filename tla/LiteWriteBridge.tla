-------------------------- MODULE LiteWriteBridge --------------------------
(***************************************************************************)
(* The way of a write from AXI4-Lite to Avalon-MM:                         *)
(*   - logic_axi4_lite_write_aligned_main accepts an address (AW) and a    *)
(*     word of data (W) in the same clock only;                            *)
(*   - logic_axi4_lite_buffer, a skid buffer for each channel;             *)
(*   - logic_axi4_lite_to_avalon_mm_main writes when it sees both.         *)
(* The bridge alone has one ready for both channels and loses an address   *)
(* or data that comes alone: write_aligned is what makes it whole.         *)
(*                                                                         *)
(* The skid buffers before write_aligned are part of the environment.      *)
(* Reads, responses, wstrb and awprot are left out, and the reset is       *)
(* released for all modules at once.                                       *)
(***************************************************************************)
EXTENDS Sequences

CONSTANTS ADDRESSES, DATA,
          UNKNOWN   \* what a register without a reset powers up with ('x)

VARIABLES areset_n,
          awvalid, awaddr, wvalid, wdata,            \* ports of write_aligned
          aligned_awvalid, aligned_awaddr,           \* its registers
          aligned_wvalid, aligned_wdata,
          aw_state, aw_ready, aw_buffered,           \* the skid buffers
          w_state, w_ready, w_buffered,
          waitrequest,                               \* port of the bridge
          write, address, writedata                  \* its registers

inputs == <<awvalid, awaddr, wvalid, wdata, waitrequest>>

resettable == <<aligned_awvalid, aligned_wvalid, aw_state, aw_ready,
                w_state, w_ready, write>>

words == <<aligned_awaddr, aligned_wdata, aw_buffered, w_buffered,
           address, writedata>>

vars == <<areset_n, inputs, resettable, words>>

TypeOK ==
    /\ {areset_n, awvalid, wvalid, aligned_awvalid, aligned_wvalid,
        aw_ready, w_ready, waitrequest, write} \subseteq BOOLEAN
    /\ {aw_state, w_state} \subseteq {"IDLE", "BUFFERED"}
    /\ awaddr \in ADDRESSES
    /\ wdata \in DATA
    /\ {aligned_awaddr, aw_buffered, address} \subseteq ADDRESSES \cup {UNKNOWN}
    /\ {aligned_wdata, w_buffered, writedata} \subseteq DATA \cup {UNKNOWN}

-----------------------------------------------------------------------------

AwBuffer == INSTANCE BasicBuffer
    WITH DATA      <- ADDRESSES,       rx_tvalid <- aligned_awvalid,
         rx_tdata  <- aligned_awaddr,  tx_tready <- ~waitrequest,
         fsm_state <- aw_state,        rx_tready <- aw_ready,
         buffered  <- aw_buffered

WBuffer == INSTANCE BasicBuffer
    WITH rx_tvalid <- aligned_wvalid,  rx_tdata  <- aligned_wdata,
         tx_tready <- ~waitrequest,    fsm_state <- w_state,
         rx_tready <- w_ready,         buffered  <- w_buffered

\* Mutant: an address does not wait for its data.
awready_Alone == ~awvalid \/ (aw_ready /\ w_ready)

awready == ~awvalid \/ (wvalid /\ aw_ready /\ w_ready)

wready == ~wvalid \/ (awvalid /\ aw_ready /\ w_ready)

WriteAligned ==
    /\ aligned_awvalid' = IF aw_ready THEN awvalid /\ wvalid /\ w_ready
                                      ELSE aligned_awvalid
    /\ aligned_wvalid' = IF w_ready THEN wvalid /\ awvalid /\ aw_ready
                                    ELSE aligned_wvalid

AlignedWords ==
    /\ aligned_awaddr' = IF aw_ready THEN awaddr ELSE aligned_awaddr
    /\ aligned_wdata' = IF w_ready THEN wdata ELSE aligned_wdata

ToAvalon ==
    write' = IF waitrequest THEN write
                            ELSE AwBuffer!tx_tvalid /\ WBuffer!tx_tvalid

\* Without an address for a write it is one for a read: UNKNOWN here.
AvalonWords ==
    /\ address' = CASE waitrequest -> address
                    [] ~waitrequest /\ AwBuffer!tx_tvalid -> AwBuffer!tx_tdata
                    [] OTHER -> UNKNOWN
    /\ writedata' = IF waitrequest THEN writedata ELSE WBuffer!tx_tdata

-----------------------------------------------------------------------------
\* The environment: what is not accepted is held, each channel on its own.

Drive ==
    /\ IF awvalid /\ ~awready THEN UNCHANGED <<awvalid, awaddr>>
       ELSE awvalid' \in BOOLEAN /\ awaddr' \in ADDRESSES
    /\ IF wvalid /\ ~wready THEN UNCHANGED <<wvalid, wdata>>
       ELSE wvalid' \in BOOLEAN /\ wdata' \in DATA
    /\ waitrequest' \in BOOLEAN

-----------------------------------------------------------------------------

Init ==
    /\ areset_n = FALSE
    /\ awvalid = FALSE /\ awaddr \in ADDRESSES
    /\ wvalid = FALSE /\ wdata \in DATA
    /\ waitrequest \in BOOLEAN
    /\ aligned_awvalid = FALSE /\ aligned_awaddr = UNKNOWN
    /\ aligned_wvalid = FALSE /\ aligned_wdata = UNKNOWN
    /\ aw_state = "IDLE" /\ aw_ready = FALSE /\ aw_buffered = UNKNOWN
    /\ w_state = "IDLE" /\ w_ready = FALSE /\ w_buffered = UNKNOWN
    /\ write = FALSE /\ address = UNKNOWN /\ writedata = UNKNOWN

\* Every register that has no reset is clocked all the time.
Words ==
    /\ AlignedWords
    /\ AwBuffer!Buffered
    /\ WBuffer!Buffered
    /\ AvalonWords

Clock ==
    /\ areset_n
    /\ WriteAligned
    /\ AwBuffer!FsmState /\ AwBuffer!RxReady
    /\ WBuffer!FsmState /\ WBuffer!RxReady
    /\ ToAvalon
    /\ Words
    /\ Drive
    /\ UNCHANGED areset_n

ClockInReset ==
    /\ ~areset_n
    /\ Words
    /\ Drive
    /\ UNCHANGED <<areset_n, resettable>>

Reset ==
    /\ areset_n
    /\ areset_n' = FALSE
    /\ awvalid' = FALSE /\ wvalid' = FALSE
    /\ aligned_awvalid' = FALSE /\ aligned_wvalid' = FALSE
    /\ aw_state' = "IDLE" /\ aw_ready' = FALSE
    /\ w_state' = "IDLE" /\ w_ready' = FALSE
    /\ write' = FALSE
    /\ UNCHANGED <<awaddr, wdata, waitrequest, words>>

Release ==
    /\ ~areset_n
    /\ areset_n' = TRUE
    /\ UNCHANGED <<inputs, resettable, words>>

Next == Clock \/ ClockInReset \/ Reset \/ Release

Spec == Init /\ [][Next]_vars

-----------------------------------------------------------------------------

(***************************************************************************)
(* Address and data of a write go through the registers and the two skid   *)
(* buffers together, although nothing but equal inputs holds them so.      *)
(***************************************************************************)
Together ==
    /\ aligned_awvalid = aligned_wvalid
    /\ aw_state = w_state
    /\ aw_ready = w_ready
    /\ aw_state = "BUFFERED" => ~aw_ready

\* The words of each channel inside, oldest first.
Addresses ==
    (IF write THEN <<address>> ELSE <<>>) \o AwBuffer!Contents
        \o (IF aligned_awvalid THEN <<aligned_awaddr>> ELSE <<>>)

Data ==
    (IF write THEN <<writedata>> ELSE <<>>) \o WBuffer!Contents
        \o (IF aligned_wvalid THEN <<aligned_wdata>> ELSE <<>>)

AddressFifo == INSTANCE StreamFifo
    WITH CAPACITY  <- 3,                    contents  <- Addresses,
         rx_tvalid <- awvalid,              rx_tdata  <- awaddr,
         rx_tready <- awvalid /\ awready,   tx_tvalid <- write,
         tx_tdata  <- address,              tx_tready <- ~waitrequest

DataFifo == INSTANCE StreamFifo
    WITH CAPACITY  <- 3,                    contents  <- Data,
         rx_tvalid <- wvalid,               rx_tdata  <- wdata,
         rx_tready <- wvalid /\ wready,     tx_tvalid <- write,
         tx_tdata  <- writedata,            tx_tready <- ~waitrequest

(***************************************************************************)
(* Each address and each word of data that is accepted, in whatever order  *)
(* they arrive and however waitrequest stalls, is written once, with the   *)
(* other one that belongs to it and in order: both channels are FIFOs that *)
(* deliver with the same `write'.                                          *)
(***************************************************************************)
WritesWhole == AddressFifo!Spec /\ DataFifo!Spec

=============================================================================
