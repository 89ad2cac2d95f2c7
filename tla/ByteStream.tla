----------------------------- MODULE ByteStream -----------------------------
(***************************************************************************)
(* What a stage promises that packs words anew: whatever the shape of its  *)
(* words, the bytes of the words taken on Rx leave on Tx exactly once and  *)
(* in order, the packets end where they ended, and a word offered on Tx is *)
(* not changed or withdrawn until it is taken.                             *)
(*                                                                         *)
(* Words are seen as sequences: of their kept bytes, followed by a mark if *)
(* they end a packet.                                                      *)
(***************************************************************************)
EXTENDS Sequences

VARIABLES areset_n,
          given,      \* the word offered on Rx, and whether it is taken
          rx_tready,
          offered,    \* the word offered on Tx
          tx_tvalid, tx_tready,
          contents    \* the bytes inside

vars == <<areset_n, given, rx_tready, offered, tx_tvalid, tx_tready, contents>>

Quiet == ~areset_n /\ ~rx_tready /\ ~tx_tvalid /\ contents = << >>

Init == Quiet

Given == IF rx_tready THEN given ELSE << >>

Delivered == IF tx_tvalid /\ tx_tready THEN offered ELSE << >>

Transfer ==
    /\ areset_n
    /\ areset_n'
    /\ Delivered \o contents' = contents \o Given
    /\ tx_tvalid /\ ~tx_tready => tx_tvalid' /\ offered' = offered

Reset == Quiet'

Release == ~areset_n /\ areset_n' /\ UNCHANGED <<rx_tready, tx_tvalid, contents>>

Next == Transfer \/ Reset \/ Release

Spec == Init /\ [][Next]_vars

=============================================================================
