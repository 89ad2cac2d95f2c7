----------------------- MODULE ResetSynchronizerUnit -----------------------
(***************************************************************************)
(* logic_reset_synchronizer_unit: one chain of registers q[STAGES-1:0]     *)
(* that is cleared asynchronously and fills with ones from the top, so its *)
(* output q[0] rises STAGES clock edges after the release.                 *)
(*                                                                         *)
(* The operators are the register's values; the modules that own a chain   *)
(* say when its clock and its reset come.                                  *)
(***************************************************************************)
EXTENDS Naturals

CONSTANT STAGES

(***************************************************************************)
(* The design rule of the module: two registers for the metastability.     *)
(***************************************************************************)
ASSUME StagesAssumption == STAGES \in Nat /\ STAGES >= 2

Chains == [0 .. STAGES - 1 -> BOOLEAN]

Cleared == [k \in 0 .. STAGES - 1 |-> FALSE]

Shifted(q) == [k \in 0 .. STAGES - 1 |-> k = STAGES - 1 \/ q[k + 1]]

Synced(q) == q[0]

=============================================================================
