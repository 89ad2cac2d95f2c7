----------------------------- MODULE StreamFifo -----------------------------
(***************************************************************************)
(* What every buffering stage of the library promises on its two           *)
(* tvalid/tready ports, whatever registers it is built from: the words     *)
(* accepted on Rx are handed over on Tx exactly once, unchanged and in     *)
(* order; a word offered on Tx stays offered until it is taken; no more    *)
(* than CAPACITY words are inside; a reset empties the stage.              *)
(*                                                                         *)
(* `contents' is the sequence of words inside the stage.  A word accepted  *)
(* on Rx in this cycle may already be visible on Tx in the same cycle      *)
(* (logic_basic_buffer has zero latency), hence `Offered'.                 *)
(***************************************************************************)
EXTENDS Naturals, Sequences

CONSTANT CAPACITY

VARIABLES areset_n,
          rx_tvalid, rx_tdata, rx_tready,
          tx_tvalid, tx_tdata, tx_tready,
          contents

vars == <<areset_n, rx_tvalid, rx_tdata, rx_tready,
          tx_tvalid, tx_tdata, tx_tready, contents>>

Accepted == IF rx_tvalid /\ rx_tready THEN <<rx_tdata>> ELSE <<>>

Offered == contents \o Accepted

Delivered == tx_tvalid /\ tx_tready

-----------------------------------------------------------------------------

Quiet == ~areset_n /\ ~rx_tready /\ ~tx_tvalid /\ contents = <<>>

Init == Quiet

(***************************************************************************)
(* A clock edge: the word on Tx is the oldest one and leaves if it is      *)
(* taken, otherwise it stays on Tx.                                        *)
(***************************************************************************)
Transfer ==
    /\ areset_n
    /\ areset_n'
    /\ tx_tvalid => Offered # <<>> /\ tx_tdata = Head(Offered)
    /\ contents' = IF Delivered THEN Tail(Offered) ELSE Offered
    /\ Len(contents') <= CAPACITY
    /\ tx_tvalid /\ ~tx_tready => tx_tvalid' /\ tx_tdata' = tx_tdata

(***************************************************************************)
(* The same, when the two ports have clocks of their own.                  *)
(***************************************************************************)
RxTransfer ==
    /\ areset_n
    /\ areset_n'
    /\ contents' = Offered
    /\ Len(contents') <= CAPACITY
    /\ UNCHANGED <<tx_tvalid, tx_tdata, tx_tready>>

TxTransfer ==
    /\ areset_n
    /\ areset_n'
    /\ tx_tvalid => contents # <<>> /\ tx_tdata = Head(contents)
    /\ contents' = IF Delivered THEN Tail(contents) ELSE contents
    /\ tx_tvalid /\ ~tx_tready => tx_tvalid' /\ tx_tdata' = tx_tdata
    /\ UNCHANGED <<rx_tvalid, rx_tdata, rx_tready>>

(***************************************************************************)
(* The reset is asserted, or still asserted at a clock edge.               *)
(***************************************************************************)
Reset == Quiet'

(***************************************************************************)
(* The reset is released: nothing moves until the next clock edge.         *)
(***************************************************************************)
Release ==
    /\ ~areset_n
    /\ areset_n'
    /\ UNCHANGED <<rx_tready, tx_tvalid, contents>>

Next == Transfer \/ Reset \/ Release

Spec == Init /\ [][Next]_vars

AsyncNext == Transfer \/ RxTransfer \/ TxTransfer \/ Reset \/ Release

AsyncSpec == Init /\ [][AsyncNext]_vars

=============================================================================
