-------------------------------- MODULE Gray --------------------------------
(***************************************************************************)
(* logic_basic_binary2gray and logic_basic_gray2binary.  A word of WIDTH   *)
(* bits is the set of the positions of its ones.                           *)
(***************************************************************************)
EXTENDS Naturals, FiniteSets

CONSTANT WIDTH

ASSUME WidthAssumption == WIDTH \in Nat /\ WIDTH >= 1

Positions == 0 .. WIDTH - 1

Bits(n) == {k \in Positions : (n \div 2 ^ k) % 2 = 1}

(***************************************************************************)
(* o[k] = i[k] ^ i[k + 1], and the top bit as it is.                       *)
(***************************************************************************)
BinaryToGray(i) == {k \in Positions : (k \in i) # (k + 1 \in i)}

\* Mutant: every bit is combined with the input bit above it, not with the
\* output bit.
GrayToBinaryShort(i) == {k \in Positions : (k \in i) # (k + 1 \in i)}

(***************************************************************************)
(* o[k - 1] = i[k - 1] ^ o[k] from the top down: o[k] is the parity of the *)
(* ones from position k up.                                                *)
(***************************************************************************)
GrayToBinary(i) ==
    {k \in Positions : Cardinality({j \in i : j >= k}) % 2 = 1}

=============================================================================
