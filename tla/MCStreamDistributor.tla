------------------------ MODULE MCStreamDistributor ------------------------
(***************************************************************************)
(* An extractor whose second output feeds a splitter, as when selected     *)
(* packets are mirrored: the words that are not extracted leave on the     *)
(* port "pass", the others on every port of the splitter.                  *)
(***************************************************************************)
EXTENDS Naturals, Sequences

CONSTANTS DISTRIBUTED,              \* words: records with an id and data
          PACKETS, EXTRACT_WIDTH,   \* of StreamExtract
          COPIES,                   \* the outputs of the splitter
          NO_WORD                   \* what an undriven port carries

ASSUME DistributorAssumption ==
    /\ COPIES \in Nat \ {0} /\ PACKETS \in Nat \ {0}
    /\ EXTRACT_WIDTH \in Nat
    /\ \A w \in DISTRIBUTED : w.id \in 0 .. 2^EXTRACT_WIDTH - 1
    /\ NO_WORD \notin DISTRIBUTED

VARIABLES dist_areset_n, dist_rx_tvalid, dist_rx_tdata,
          pass_tready,       \* of the first output of the extractor
          copy_tready,       \* of the outputs of the splitter
          \* the extractor
          dist_rx_tready, extract_buffer_state, extract_buffered,
          extract_tvalid, extract_tdata,
          \* the splitter
          mirror_tready, split_buffer_state, split_buffered,
          copy_tvalid, copy_tdata

extract == <<dist_rx_tready, extract_buffer_state, extract_buffered,
             extract_tvalid, extract_tdata>>

split == <<mirror_tready, split_buffer_state, split_buffered,
           copy_tvalid, copy_tdata>>

distributorVars == <<dist_areset_n, dist_rx_tvalid, dist_rx_tdata,
                     pass_tready, copy_tready, extract, split>>

Extract == INSTANCE StreamExtract
    WITH WORDS        <- DISTRIBUTED,
         UNKNOWN      <- NO_WORD,
         areset_n     <- dist_areset_n,
         rx_tvalid    <- dist_rx_tvalid,
         rx_tdata     <- dist_rx_tdata,
         rx_tready    <- dist_rx_tready,
         buffer_state <- extract_buffer_state,
         buffered     <- extract_buffered,
         tx_tvalid    <- extract_tvalid,
         tx_tdata     <- extract_tdata,
         tx_tready    <- [k \in {0, 1} |-> IF k = 0 THEN pass_tready
                                                    ELSE mirror_tready]

Split == INSTANCE StreamSplit
    WITH WORDS        <- DISTRIBUTED,
         OUTPUTS      <- COPIES,
         UNKNOWN      <- NO_WORD,
         areset_n     <- dist_areset_n,
         rx_tvalid    <- extract_tvalid[1],
         rx_tdata     <- extract_tdata[1],
         rx_tready    <- mirror_tready,
         buffer_state <- split_buffer_state,
         buffered     <- split_buffered,
         tx_tvalid    <- copy_tvalid,
         tx_tdata     <- copy_tdata,
         tx_tready    <- copy_tready

Copies == 0 .. COPIES - 1

-----------------------------------------------------------------------------
(***************************************************************************)
(* The Rx driver holds a word that was not accepted.  Without tvalid the   *)
(* word is unknown.                                                        *)
(***************************************************************************)
DistributorDrive ==
    \/ /\ dist_rx_tvalid /\ ~dist_rx_tready
       /\ UNCHANGED <<dist_rx_tvalid, dist_rx_tdata>>
    \/ /\ dist_rx_tvalid => dist_rx_tready
       /\ dist_rx_tvalid' = TRUE
       /\ dist_rx_tdata' \in DISTRIBUTED
    \/ /\ dist_rx_tvalid => dist_rx_tready
       /\ dist_rx_tvalid' = FALSE
       /\ dist_rx_tdata' = NO_WORD

DistributorInit ==
    /\ dist_areset_n = FALSE
    /\ dist_rx_tvalid = FALSE
    /\ dist_rx_tdata = NO_WORD
    /\ pass_tready = FALSE
    /\ copy_tready = [k \in Copies |-> FALSE]
    /\ Extract!Init
    /\ Split!Init

(***************************************************************************)
(* A rising edge of aclk, on which both sides move together.               *)
(***************************************************************************)
DistributorClock ==
    /\ dist_areset_n
    /\ Extract!ClockRegisters
    /\ Split!ClockRegisters
    /\ DistributorDrive
    /\ pass_tready' \in BOOLEAN
    /\ copy_tready' \in [Copies -> BOOLEAN]
    /\ UNCHANGED dist_areset_n

DistributorReset ==
    /\ dist_areset_n
    /\ dist_areset_n' = FALSE
    /\ Extract!ResetRegisters
    /\ Split!ResetRegisters
    /\ dist_rx_tvalid' = FALSE
    /\ dist_rx_tdata' = NO_WORD
    /\ pass_tready' = FALSE
    /\ copy_tready' = [k \in Copies |-> FALSE]

DistributorRelease ==
    /\ ~dist_areset_n
    /\ dist_areset_n' = TRUE
    /\ UNCHANGED <<dist_rx_tvalid, dist_rx_tdata, pass_tready, copy_tready,
                   extract, split>>

DistributorNext == DistributorClock \/ DistributorReset \/ DistributorRelease

DistributorSpec == DistributorInit /\ [][DistributorNext]_distributorVars

(***************************************************************************)
(* The clock runs; the first output of the extractor is ready again and    *)
(* again; the outputs of the splitter are again and again all ready in the *)
(* same clock.  The splitter needs the latter: outputs that are ready in   *)
(* turn stop it.                                                           *)
(***************************************************************************)
FairDistributor ==
    /\ DistributorSpec
    /\ []<><<TRUE>>_distributorVars
    /\ []<>(dist_areset_n => pass_tready)
    /\ []<>(dist_areset_n => \A k \in Copies : copy_tready[k])

-----------------------------------------------------------------------------
\* Properties.

Pass == INSTANCE StreamFifo
    WITH CAPACITY  <- 2,
         areset_n  <- dist_areset_n,
         rx_tdata  <- dist_rx_tdata,
         rx_tready <- dist_rx_tready,
         rx_tvalid <- dist_rx_tvalid /\ Extract!Output(dist_rx_tdata) = 0,
         tx_tvalid <- extract_tvalid[0],
         tx_tdata  <- extract_tdata[0],
         tx_tready <- pass_tready,
         contents  <- Extract!Contents(0)

Copy(k) == INSTANCE StreamFifo
    WITH CAPACITY  <- 4,
         areset_n  <- dist_areset_n,
         rx_tdata  <- dist_rx_tdata,
         rx_tready <- dist_rx_tready,
         rx_tvalid <- dist_rx_tvalid /\ Extract!Output(dist_rx_tdata) = 1,
         tx_tvalid <- copy_tvalid[k],
         tx_tdata  <- copy_tdata[k],
         tx_tready <- copy_tready[k],
         contents  <- Split!Contents(k) \o Extract!Contents(1)

\* The words that are not extracted leave on the first output.
PassesFifo == Pass!Spec

\* Every output of the splitter delivers every extracted word.
CopiesFifo ==
    /\ \A k \in Copies : Copy(k)!Init
    /\ [][\A k \in Copies : Copy(k)!Next \/ UNCHANGED Copy(k)!vars]_distributorVars

(***************************************************************************)
(* No word is lost, repeated, overtaken or sent the wrong way: the first   *)
(* output of the extractor and every output of the splitter are FIFOs of   *)
(* their own words, although the outputs are ready at different times and  *)
(* a word for one of them holds back those for the others.                 *)
(***************************************************************************)
DistributesFifo == PassesFifo /\ CopiesFifo

(***************************************************************************)
(* A word on Rx is accepted sooner or later, whichever way it goes.        *)
(***************************************************************************)
DistributorAccepts ==
    dist_rx_tvalid /\ dist_areset_n
        ~> (dist_rx_tvalid /\ dist_rx_tready) \/ ~dist_areset_n

\* Extracted words of two kinds, so that their order can be seen, and others.
DistributedWords == {[id |-> 0, data |-> "a"], [id |-> 0, data |-> "b"],
                     [id |-> 1, data |-> "a"]}

=============================================================================
