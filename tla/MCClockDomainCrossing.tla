----------------------- MODULE MCClockDomainCrossing -----------------------
(***************************************************************************)
(* ClockDomainCrossing under a busy Rx driver that numbers its words, after*)
(* one reset at the start.  The crossing does not look at the words, so a  *)
(* word lost, duplicated, reordered, or read from a place of the memory    *)
(* that holds an older or a newer round shows as a wrong number.  MaxWords *)
(* words fill the crossing and take both pointers around the memory.       *)
(***************************************************************************)
EXTENDS ClockDomainCrossing

CONSTANT MaxWords

RxNumbered ==
    /\ rx_tdata' = IF write_enable THEN rx_tdata + 1 ELSE rx_tdata
    /\ rx_tvalid' = (rx_tdata' < MaxWords)

MCInit == Init /\ rx_tdata = 0

MCNext ==
    \/ RxNumbered /\ WriteClock
    \/ ReadClock
    \/ RxNumbered /\ BothClocks
    \/ Release

MCSpec == MCInit /\ [][MCNext]_vars

=============================================================================
