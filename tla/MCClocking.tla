----------------------------- MODULE MCClocking -----------------------------
(***************************************************************************)
(* The blocks that deal with clocks and resets that come and go, one in    *)
(* each behaviour: the PLL service (MCPllLockService), the synchronizer of *)
(* several resets (MCResetSynchronizer), and the clock crossing with resets*)
(* at any time, whose releases reach the two clocks in any order, and an   *)
(* Rx driver that sends at most MaxWords words between two resets.         *)
(***************************************************************************)
EXTENDS MCPllLockService, Sequences

CONSTANTS SYNC_STAGES, RESETS,                     \* of ResetSynchronizer
          DATA, WIDTH, STAGES, UNKNOWN, MaxWords   \* of the crossing

VARIABLES
    block,   \* "pll", "synchronizer" or "crossing"
    \* ResetSynchronizer
    resets_n, areset_n_chain, chain, elapsed,
    \* ClockDomainCrossing
    crossing_areset_n, rx_chain, tx_chain, rx_tvalid, rx_tdata, tx_tready,
    rx_tready, write_pointer, write_difference, write_pointer_gray_q,
    read_pointer_sync, read_pointer_synced, memory, tx_tvalid, tx_tdata,
    crossing_fsm_state, almost_empty, read_pointer, read_difference, read_data,
    read_pointer_gray_q, write_pointer_sync, write_pointer_synced

pll == <<vars, history>>

synchronizer == <<resets_n, areset_n_chain, chain, elapsed>>

crossing ==
    <<crossing_areset_n, rx_chain, tx_chain, rx_tvalid, rx_tdata, tx_tready,
      rx_tready, write_pointer, write_difference, write_pointer_gray_q,
      read_pointer_sync, read_pointer_synced, memory, tx_tvalid, tx_tdata,
      crossing_fsm_state, almost_empty, read_pointer, read_difference,
      read_data, read_pointer_gray_q, write_pointer_sync, write_pointer_synced>>

Synchronizer == INSTANCE MCResetSynchronizer
    WITH STAGES <- SYNC_STAGES, areset_n <- resets_n

Crossing == INSTANCE ClockDomainCrossing
    WITH areset_n <- crossing_areset_n, fsm_state <- crossing_fsm_state

(***************************************************************************)
(* The design rules of the synchronizer and of the crossing; UNKNOWN is    *)
(* what a memory that was never written holds.                             *)
(***************************************************************************)
ASSUME ClockingAssumption ==
    /\ SYNC_STAGES \in Nat /\ SYNC_STAGES >= 2
    /\ RESETS # {}
    /\ WIDTH \in Nat /\ WIDTH >= 3
    /\ STAGES = 2
    /\ UNKNOWN \notin DATA

-----------------------------------------------------------------------------

ClockingInit ==
    /\ block \in {"pll", "synchronizer", "crossing"}
    /\ MCInit
    /\ Synchronizer!MCInit
    /\ Crossing!Init

PllNext ==
    /\ block = "pll"
    /\ MCNext
    /\ UNCHANGED <<block, synchronizer, crossing>>

SynchronizerNext ==
    /\ block = "synchronizer"
    /\ Synchronizer!MCNext
    /\ UNCHANGED <<block, pll, crossing>>

Bounded == rx_tvalid' => write_pointer' < MaxWords

CrossingNext ==
    /\ block = "crossing"
    /\ Crossing!Next
    /\ Bounded
    /\ UNCHANGED <<block, pll, synchronizer>>

ClockingNext == PllNext \/ SynchronizerNext \/ CrossingNext

(***************************************************************************)
(* The clocks of the block run: a register that is due to change changes.  *)
(* The clock does not make pll_locked change, nor does it make words       *)
(* arrive; behind the crossing tready rises again and again without        *)
(* waiting for tvalid.                                                     *)
(***************************************************************************)
ClockingFairness ==
    /\ WF_<<unitRegisters, timerRegisters>>(block = "pll" /\ Clock)
    /\ WF_crossing(block = "crossing" /\ Crossing!WriteClock /\ Bounded)
    /\ WF_crossing(block = "crossing" /\ Crossing!ReadClock)
    /\ WF_crossing(block = "crossing" /\ Crossing!ReadClock /\ tx_tready')

ClockingSpec ==
    ClockingInit /\ [][ClockingNext]_<<block, pll, synchronizer, crossing>>
        /\ ClockingFairness

-----------------------------------------------------------------------------

(***************************************************************************)
(* See MCResetSynchronizer: the release is synchronous, never early and    *)
(* never late.                                                             *)
(***************************************************************************)
ReleasedInTime == Synchronizer!ReleasedInTime

(***************************************************************************)
(* See ClockDomainCrossing: a FIFO, whatever the resets do.                *)
(***************************************************************************)
RefinesFifo == Crossing!RefinesFifo

(***************************************************************************)
(* A word accepted on one clock reaches Tx on the other, unless the reset  *)
(* intervenes.                                                             *)
(***************************************************************************)
Delivered ==
    Len(Crossing!Contents) > 0 ~> (tx_tvalid /\ tx_tready) \/ ~crossing_areset_n

=============================================================================
