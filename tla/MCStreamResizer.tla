-------------------------- MODULE MCStreamResizer --------------------------
(***************************************************************************)
(* A downsizer and an upsizer back to back, as when a wide stream crosses  *)
(* a narrow link.  Words may have holes, may keep nothing, and may be      *)
(* short, so the upsizer packs them anew.                                  *)
(*                                                                         *)
(* The Rx driver numbers the bytes it sends modulo MaxBytes, so a byte     *)
(* lost, repeated or exchanged with its neighbour shows.                   *)
(***************************************************************************)
EXTENDS Naturals, Sequences, FiniteSets

CONSTANTS NULL, END, UNDRIVEN, WIDE, MaxBytes

ASSUME ResizerAssumption ==
    /\ WIDE \in Nat \ {0} /\ MaxBytes \in Nat \ {0}
    /\ {NULL, END, UNDRIVEN} \cap (0 .. MaxBytes - 1) = {}

VARIABLES resize_areset_n, resize_rx_tvalid, resize_rx_tdata, resize_tx_tready,
          next_byte,   \* of the Rx driver: the first byte of its next word
          \* the downsizer
          resize_rx_tready, down_buffer_state, down_buffered,
          down_fsm_state, down_index, narrow_tvalid, narrow_tdata,
          \* the upsizer
          narrow_tready, up_buffer_state, up_buffered,
          up_fsm_state, up_index, up_lanes, resize_tx_tvalid, resize_tx_tdata

down == <<resize_rx_tready, down_buffer_state, down_buffered,
          down_fsm_state, down_index, narrow_tvalid, narrow_tdata>>

up == <<narrow_tready, up_buffer_state, up_buffered,
        up_fsm_state, up_index, up_lanes, resize_tx_tvalid, resize_tx_tdata>>

resizerVars == <<resize_areset_n, resize_rx_tvalid, resize_rx_tdata,
                 resize_tx_tready, next_byte, down, up>>

Bytes == 0 .. MaxBytes - 1

Down == INSTANCE StreamDownsizer
    WITH DATA         <- Bytes,
         UNKNOWN      <- UNDRIVEN,
         areset_n     <- resize_areset_n,
         DOWNSIZE     <- WIDE,
         rx_tvalid    <- resize_rx_tvalid,
         rx_tdata     <- resize_rx_tdata,
         rx_tready    <- resize_rx_tready,
         buffer_state <- down_buffer_state,
         buffered     <- down_buffered,
         fsm_state    <- down_fsm_state,
         index        <- down_index,
         tx_tvalid    <- narrow_tvalid,
         tx_tdata     <- narrow_tdata,
         tx_tready    <- narrow_tready

Up == INSTANCE StreamUpsizer
    WITH DATA         <- Bytes,
         UNKNOWN      <- UNDRIVEN,
         areset_n     <- resize_areset_n,
         UPSIZE       <- WIDE,
         rx_tvalid    <- narrow_tvalid,
         rx_tdata     <- narrow_tdata,
         rx_tready    <- narrow_tready,
         buffer_state <- up_buffer_state,
         buffered     <- up_buffered,
         fsm_state    <- up_fsm_state,
         index        <- up_index,
         lanes        <- up_lanes,
         tx_tvalid    <- resize_tx_tvalid,
         tx_tdata     <- resize_tx_tdata,
         tx_tready    <- resize_tx_tready

-----------------------------------------------------------------------------
(***************************************************************************)
(* The Rx driver sends full words inside and at the end of packets, words  *)
(* with a hole, words that are short and words that keep nothing.          *)
(***************************************************************************)
Full == 0 .. WIDE - 1

Shapes == {[kept |-> Full, last |-> FALSE], [kept |-> Full, last |-> TRUE],
           [kept |-> Full \ {0}, last |-> FALSE],
           [kept |-> {0}, last |-> TRUE], [kept |-> {}, last |-> TRUE]}

Numbered(kept, first) ==
    [k \in Full |->
        IF k \in kept THEN (first + Cardinality({j \in kept : j < k})) % MaxBytes
                      ELSE NULL]

Idle == [lanes |-> [k \in Full |-> NULL], last |-> FALSE]

ResizerDrive ==
    \/ /\ resize_rx_tvalid /\ ~resize_rx_tready
       /\ UNCHANGED <<resize_rx_tvalid, resize_rx_tdata, next_byte>>
    \/ /\ ~(resize_rx_tvalid /\ ~resize_rx_tready)
       /\ resize_rx_tvalid' = TRUE
       /\ \E word \in Shapes :
             /\ resize_rx_tdata' = [lanes |-> Numbered(word.kept, next_byte),
                                    last  |-> word.last]
             /\ next_byte' = (next_byte + Cardinality(word.kept)) % MaxBytes
    \/ /\ ~(resize_rx_tvalid /\ ~resize_rx_tready)
       /\ resize_rx_tvalid' = FALSE
       /\ resize_rx_tdata' = Idle
       /\ UNCHANGED next_byte

ResizerInit ==
    /\ resize_areset_n = FALSE
    /\ resize_rx_tvalid = FALSE
    /\ resize_rx_tdata = Idle
    /\ resize_tx_tready = FALSE
    /\ next_byte = 0
    /\ Down!Init
    /\ Up!Init

ResizerClock ==
    /\ resize_areset_n
    /\ Down!ClockRegisters
    /\ Up!ClockRegisters
    /\ ResizerDrive
    /\ resize_tx_tready' \in BOOLEAN
    /\ UNCHANGED resize_areset_n

ResizerReset ==
    /\ resize_areset_n
    /\ resize_areset_n' = FALSE
    /\ Down!ResetRegisters
    /\ Up!ResetRegisters
    /\ resize_rx_tvalid' = FALSE
    /\ resize_tx_tready' = FALSE
    /\ next_byte' = 0
    /\ resize_rx_tdata' = Idle

ResizerRelease ==
    /\ ~resize_areset_n
    /\ resize_areset_n' = TRUE
    /\ UNCHANGED <<resize_rx_tvalid, resize_rx_tdata, resize_tx_tready,
                   next_byte, down, up>>

ResizerNext == ResizerClock \/ ResizerReset \/ ResizerRelease

ResizerSpec == ResizerInit /\ [][ResizerNext]_resizerVars

(***************************************************************************)
(* The clock runs, and Tx is ready again and again, whether or not a word  *)
(* is offered.                                                             *)
(***************************************************************************)
FairResizer ==
    /\ ResizerSpec
    /\ []<><<TRUE>>_resizerVars
    /\ []<>(resize_areset_n => resize_tx_tready)

-----------------------------------------------------------------------------
\* Properties.

(***************************************************************************)
(* The bytes and marks of packet ends that are inside, oldest first.       *)
(***************************************************************************)
BytesInside == Up!Contents \o Down!Contents

Stream == INSTANCE ByteStream
    WITH areset_n  <- resize_areset_n,
         rx_tready <- resize_rx_tready,
         tx_tvalid <- resize_tx_tvalid,
         tx_tready <- resize_tx_tready,
         given     <- IF resize_rx_tvalid THEN Down!From(resize_rx_tdata, 0)
                                          ELSE << >>,
         offered   <- IF resize_tx_tvalid
                      THEN Up!UpTo(resize_tx_tdata.lanes, WIDE)
                           \o Up!Mark(resize_tx_tdata.last)
                      ELSE << >>,
         contents  <- BytesInside

(***************************************************************************)
(* The bytes come out as they went in, and the packets end after the same  *)
(* bytes, however they are distributed over the words.                     *)
(***************************************************************************)
RefinesByteStream == Stream!Spec

(***************************************************************************)
(* The upsizer does not keep the end of a packet until the next one: once  *)
(* the END of a packet is inside, a word with tlast is sent, unless the    *)
(* reset intervenes.                                                       *)
(***************************************************************************)
PacketSent ==
    (\E i \in 1 .. Len(BytesInside) : BytesInside[i] = END)
        ~> \/ resize_tx_tvalid /\ resize_tx_tready /\ resize_tx_tdata.last
           \/ ~resize_areset_n

=============================================================================
