------------------------- MODULE ResetSynchronizer -------------------------
(***************************************************************************)
(* logic_reset_synchronizer: the reset is asserted asynchronously, at      *)
(* once, and released synchronously, after STAGES clock edges during which *)
(* it stayed released.  With several reset inputs each has a chain of its  *)
(* own and the conjunction of their outputs goes through one more chain.   *)
(***************************************************************************)
EXTENDS ResetSynchronizerUnit

CONSTANT RESETS    \* the set of reset inputs

VARIABLES areset_n,        \* [RESETS -> BOOLEAN], active low
          areset_n_chain,  \* one chain for each input
          chain            \* the common chain, used when there are several

vars == <<areset_n, areset_n_chain, chain>>

TypeOK ==
    /\ areset_n \in [RESETS -> BOOLEAN]
    /\ areset_n_chain \in [RESETS -> Chains]
    /\ chain \in Chains

-----------------------------------------------------------------------------

areset_n_q == \A r \in RESETS : Synced(areset_n_chain[r])

Several == \E r, s \in RESETS : r # s

areset_n_synced == IF Several THEN Synced(chain) ELSE areset_n_q

-----------------------------------------------------------------------------

Init ==
    /\ areset_n = [r \in RESETS |-> FALSE]
    /\ areset_n_chain = [r \in RESETS |-> Cleared]
    /\ chain = Cleared

(***************************************************************************)
(* A rising edge of aclk.  The common chain samples, and is held in reset  *)
(* by, the conjunction of the synchronized inputs before the edge.         *)
(***************************************************************************)
Clock ==
    /\ areset_n_chain' = [r \in RESETS |-> IF areset_n[r]
                                           THEN Shifted(areset_n_chain[r])
                                           ELSE Cleared]
    /\ chain' = IF areset_n_q THEN Shifted(chain) ELSE Cleared
    /\ UNCHANGED areset_n

\* Mutant: the assertion clears only the chain of the input.
AssertOne(r) ==
    /\ areset_n[r]
    /\ areset_n' = [areset_n EXCEPT ![r] = FALSE]
    /\ areset_n_chain' = [areset_n_chain EXCEPT ![r] = Cleared]
    /\ UNCHANGED chain

(***************************************************************************)
(* The falling edge of one input clears its chain and the common chain     *)
(* with it: no clock is needed.                                            *)
(***************************************************************************)
Assert(r) ==
    /\ areset_n[r]
    /\ areset_n' = [areset_n EXCEPT ![r] = FALSE]
    /\ areset_n_chain' = [areset_n_chain EXCEPT ![r] = Cleared]
    /\ chain' = Cleared

Release(r) ==
    /\ ~areset_n[r]
    /\ areset_n' = [areset_n EXCEPT ![r] = TRUE]
    /\ UNCHANGED <<areset_n_chain, chain>>

Next == Clock \/ \E r \in RESETS : Assert(r) \/ Release(r)

Spec == Init /\ [][Next]_vars

=============================================================================
