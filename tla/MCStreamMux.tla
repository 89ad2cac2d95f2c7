---------------------------- MODULE MCStreamMux ----------------------------
(***************************************************************************)
(* StreamMux with packets of at most MaxLength words, and a history of the *)
(* packet that is being sent.                                              *)
(***************************************************************************)
EXTENDS StreamMux

CONSTANTS MaxLength, NoInput,
          Eager   \* inputs that send packets of MaxLength words all the time

ASSUME OwnerAssumption == NoInput \notin Inputs

VARIABLES position,   \* of each input: number of the word offered or next
          owner       \* the input whose packet was begun on Tx and not ended

mcVars == <<vars, position, owner>>

Accepted(k) == rx_tvalid[k] /\ Ready(MUXED - 1 - k)

Sent == tvalid[0] /\ tx_tready

MCInit == Init /\ position = [k \in Inputs |-> 1] /\ owner = NoInput

Record ==
    /\ position' = [k \in Inputs |->
                       CASE ~areset_n' -> 1
                         [] areset_n' /\ Accepted(k) ->
                               IF rx_tlast[k] THEN 1 ELSE position[k] + 1
                         [] OTHER -> position[k]]
    /\ owner' = CASE ~areset_n' -> NoInput
                  [] areset_n' /\ Sent ->
                        IF tdata[0].last THEN NoInput ELSE tdata[0].src
                  [] OTHER -> owner

\* Packets end.
Continue ==
    \A k \in Inputs :
        /\ position'[k] = MaxLength => rx_tlast'[k]
        /\ areset_n /\ areset_n' /\ k \in Eager =>
              rx_tvalid'[k] /\ (rx_tlast'[k] <=> position'[k] = MaxLength)

MCNext == Next /\ Record /\ Continue

(***************************************************************************)
(* Tx is ready again and again, and a packet that was begun is continued   *)
(* again and again.                                                        *)
(***************************************************************************)
TxAndPackets ==
    /\ []<>(areset_n => tx_tready)
    /\ \A k \in Inputs : []<>(position[k] = 1 \/ rx_tvalid[k])

(***************************************************************************)
(* Packets are not mixed: a word sent inside a packet comes from the same  *)
(* input as the words before it.                                           *)
(***************************************************************************)
PacketsWhole == Sent /\ owner # NoInput => tdata[0].src = owner

(***************************************************************************)
(* No input starves: whatever the other inputs send, a word offered by an  *)
(* input is accepted, as long as packets end and Tx is ready again and     *)
(* again.                                                                  *)
(***************************************************************************)
NoStarvation ==
    \A k \in Inputs :
        rx_tvalid[k] /\ areset_n ~> Accepted(k) \/ ~areset_n

=============================================================================
