------------------------ MODULE MCResetSynchronizer ------------------------
(***************************************************************************)
(* ResetSynchronizer with a stopwatch: the number of clock edges since the *)
(* last time an input was low, up to the number that must pass before the  *)
(* output is released.                                                     *)
(***************************************************************************)
EXTENDS ResetSynchronizer

VARIABLE elapsed

Delay == IF Several THEN 2 * STAGES ELSE STAGES

MCInit == Init /\ elapsed = 0

MCNext ==
    /\ Next
    /\ elapsed' = IF \E r \in RESETS : ~areset_n[r] \/ ~areset_n'[r] THEN 0
                  ELSE IF elapsed = Delay THEN elapsed ELSE elapsed + 1

MCSpec == MCInit /\ [][MCNext]_<<vars, elapsed>>

(***************************************************************************)
(* The release is synchronous, never early and never late: the output is   *)
(* released exactly when every input has stayed released for all the       *)
(* stages, so a glitch on one input starts the count again for all.        *)
(***************************************************************************)
ReleasedInTime == areset_n_synced <=> elapsed = Delay

=============================================================================
