--------------------------- MODULE StreamTestbench ---------------------------
(***************************************************************************)
(* The run phase of the UVM testbench around logic_axi4_stream_buffer: the *)
(* test starts the sequence ROUNDS times; the sequence resets the design   *)
(* and then feeds the Rx and the Tx driver from two processes; the drivers *)
(* and monitors are processes that wake at each rising edge of aclk and    *)
(* read the signals as they were before the edge; the scoreboard compares  *)
(* the packets of the two monitors.                                        *)
(*                                                                         *)
(* `Clock' is one edge: all processes that wait for it, and the registers  *)
(* of the design.  Everything else happens in the delta cycles between two *)
(* edges, and the next edge comes when nothing is left to do.              *)
(*                                                                         *)
(* A driver's local variables are a record; `running' is is_running.  The  *)
(* bits of tid and tdest, which all tests leave at zero, are left out.     *)
(***************************************************************************)
EXTENDS UvmPhases, TdataByte, Integers

CONSTANTS DUT,          \* "buffer", or "dead": a design that never answers
          Packets,      \* the sequences of Rx items a test may choose
          ROUNDS,       \* number of times the test starts the sequence
          BUS_SIZE,     \* bytes of a transfer
          RX_IDLE, TX_IDLE,   \* idle ranges of the items: <<min, max>>
          TIMEOUT,      \* timeout of the items; 0 means none
          DURATION, IDLE,     \* of the reset item
          MaxResets,    \* bound on the resets during traffic
          UNKNOWN

\* The items of the Rx sequencer.  A packet has at least one byte: an item
\* without data is not seen on the bus.
DataBytes == [type : {"DATA_BYTE", "POSITION_BYTE", "RESERVED", "NULL_BYTE"},
          data : 0 .. 255]

TestItems == [type : {"DATA", "IDLE"}, tdata : Seq(DataBytes), tuser : Seq(Nat)]

ASSUME TestbenchAssumption ==
    /\ DUT \in {"buffer", "dead"}
    /\ Packets \subseteq Seq(TestItems)
    /\ \A items \in Packets : \A i \in DOMAIN items :
          items[i].type = "DATA" => items[i].tdata # <<>>
    /\ BUS_SIZE \in Nat \ {0}
    /\ RX_IDLE \in Nat \X Nat /\ TX_IDLE \in Nat \X Nat
    /\ TIMEOUT \in Nat /\ DURATION \in Nat /\ IDLE \in Nat

VARIABLES sequence,    \* of the test: step, round, items
          reset,       \* locals of reset_driver::transfer()
          rx, tx,      \* locals of the Rx and Tx drivers
          next,        \* of Rx and Tx: index of the next item of the sequence
          areset_n, rx_tvalid, rx_word, tx_tready,   \* signals that are driven
          fsm_state, rx_tready, buffered,            \* registers of the design
          packets,     \* of each monitor: the packet it is collecting
          fifo,        \* of each monitor: its fifo of the scoreboard
          m_error,     \* of the scoreboard
          m_test_passed,
          resets,      \* resets during traffic
          disturbed,   \* a driver has given up, or traffic was reset
          sent,        \* the packets of all items so far
          seen         \* of each monitor: the packets it has reported

signals == <<areset_n, rx_tvalid, rx_word, tx_tready>>

design == <<fsm_state, rx_tready, buffered>>

checkers == <<packets, fifo, m_error, seen>>

history == <<resets, disturbed, sent>>

testVars == <<phaseVars, sequence, reset, rx, tx, next, signals, design, checkers,
          m_test_passed, history>>

Sides == {"rx", "tx"}

\* The values of logic::range{bounds[1], bounds[2]}.
ValuesIn(bounds) ==
    bounds[1] .. (IF bounds[1] < bounds[2] THEN bounds[2] ELSE bounds[1])

Design == INSTANCE BasicBuffer WITH DATA <- {}, rx_tdata <- rx_word

tx_tvalid == DUT = "buffer" /\ Design!tx_tvalid

tx_word == Design!tx_tdata

-----------------------------------------------------------------------------
\* The Rx driver.

NullByte == TdataByte(0, "NULL_BYTE")

\* The next transfer of an item: its lanes, padded with null bytes.
Transfer(s) ==
    LET byte(i) == IF s.index + i <= Len(s.item.tdata)
                     THEN s.item.tdata[s.index + i] ELSE NullByte
    IN  [tkeep |-> [i \in 1 .. BUS_SIZE |-> Tkeep(byte(i))],
         tstrb |-> [i \in 1 .. BUS_SIZE |-> Tstrb(byte(i))],
         tdata |-> [i \in 1 .. BUS_SIZE |-> byte(i).data],
         tuser |-> IF s.transfer < Len(s.item.tuser)
                     THEN s.item.tuser[s.transfer + 1] ELSE 0,
         tlast |-> s.index + BUS_SIZE >= Len(s.item.tdata)]

NoTransfer == [tkeep |-> [i \in 1 .. BUS_SIZE |-> FALSE],
               tstrb |-> [i \in 1 .. BUS_SIZE |-> FALSE],
               tdata |-> [i \in 1 .. BUS_SIZE |-> 0],
               tuser |-> 0, tlast |-> FALSE]

\* FALSE when a driver whose peer does not answer gives up.
Patient(s) == TIMEOUT = 0 \/ s.timeout > 0

\* Mutant: the clocks are not counted.
WaitForever(s) == s

Wait(s) == IF TIMEOUT = 0 THEN s ELSE [s EXCEPT !.timeout = @ - 1]

\* The loop is left: the end of the item, a timeout, or a reset.
Leave(s) ==
    /\ rx' = [s EXCEPT !.busy = FALSE]
    /\ rx_tvalid' = FALSE
    /\ UNCHANGED rx_word

\* The last transfer has been accepted.
Done(s) ==
    /\ rx' = [s EXCEPT !.running = FALSE, !.timeout = TIMEOUT]
    /\ rx_tvalid' = FALSE
    /\ UNCHANGED rx_word

Send(s) ==
    /\ \E idle \in ValuesIn(RX_IDLE) :
          rx' = [s EXCEPT !.idle = idle, !.timeout = TIMEOUT,
                          !.index = @ + BUS_SIZE, !.transfer = @ + 1]
    /\ rx_tvalid' = TRUE
    /\ rx_word' = Transfer(s)

Rest(s) ==
    /\ rx' = [s EXCEPT !.idle = @ - 1, !.timeout = TIMEOUT]
    /\ rx_tvalid' = FALSE
    /\ UNCHANGED rx_word

\* Mutant: tvalid is lowered at each turn, before tready is looked at.
Stalled_Lowered(s) ==
    /\ rx' = IF Patient(s) THEN Wait(s) ELSE [s EXCEPT !.running = FALSE]
    /\ rx_tvalid' = FALSE
    /\ UNCHANGED rx_word

Stalled(s) ==
    /\ rx' = IF Patient(s) THEN Wait(s) ELSE [s EXCEPT !.running = FALSE]
    /\ UNCHANGED <<rx_tvalid, rx_word>>

\* One turn of the loop of data_transfer(), until it waits for the next edge.
DataTurn(s, gaveUp) ==
    LET active == s.running /\ areset_n
        left == s.index < Len(s.item.tdata)
    IN  /\ gaveUp = (active /\ ~rx_tready /\ ~Patient(s))
        /\ \/ ~active /\ Leave(s)
           \/ active /\ rx_tready /\ ~left /\ Done(s)
           \/ active /\ rx_tready /\ left /\ s.idle = 0 /\ Send(s)
           \/ active /\ rx_tready /\ left /\ s.idle > 0 /\ Rest(s)
           \/ active /\ ~rx_tready /\ Stalled(s)

\* One turn of the loop of idle_transfer(): it waits for clocks with tready.
IdleTurn(s, gaveUp) ==
    /\ rx' = CASE s.idle = 0 -> [s EXCEPT !.busy = FALSE]
               [] s.idle > 0 /\ rx_tready -> [s EXCEPT !.idle = @ - 1]
               [] OTHER -> IF Patient(s) THEN Wait(s) ELSE [s EXCEPT !.idle = 0]
    /\ gaveUp = (s.idle > 0 /\ ~rx_tready /\ ~Patient(s))
    /\ UNCHANGED <<rx_tvalid, rx_word>>

RxTurn(s, gaveUp) ==
    IF s.item.type = "IDLE" THEN IdleTurn(s, gaveUp) ELSE DataTurn(s, gaveUp)

\* The locals at the start of an item.
RxLocals(item, idle) ==
    [busy |-> TRUE, item |-> item, running |-> Len(item.tdata) > 0,
     idle |-> idle, timeout |-> TIMEOUT, index |-> 0, transfer |-> 0]

-----------------------------------------------------------------------------
\* The Tx driver.

\* The wish for tready is drawn anew for each clock with tready.
TxTurn(s, tready, gaveUp) ==
    LET taken == s.running /\ tready /\ tx_tvalid
        running == IF taken THEN ~tx_word.tlast ELSE s.running
        left == IF taken THEN TIMEOUT ELSE s.timeout
        late == running /\ TIMEOUT # 0 /\ left = 0
        idle == IF late THEN 0 ELSE s.idle
    IN  IF ~((s.running \/ s.idle # 0) /\ areset_n)
          THEN /\ tx' = [s EXCEPT !.busy = FALSE]
               /\ tx_tready' = FALSE
               /\ gaveUp = FALSE
          ELSE /\ \E drawn \in IF running /\ ~late THEN ValuesIn(TX_IDLE) ELSE {0} :
                     tx' = [s EXCEPT
                              !.running = running /\ ~late,
                              !.timeout = IF running /\ TIMEOUT # 0 /\ ~late
                                            THEN left - 1 ELSE left,
                              !.idle = IF idle = 0 THEN drawn ELSE idle - 1]
               /\ tx_tready' = (idle = 0)
               /\ gaveUp = late

TxLocals(idle) ==
    [busy |-> TRUE, running |-> TRUE, idle |-> idle, timeout |-> TIMEOUT]

-----------------------------------------------------------------------------
\* The monitors and the scoreboard.

NoPacket == [tuser |-> <<>>, tdata |-> <<>>, bus_size |-> 0]

\* Mutant: the flags of a byte are exchanged.
CollectSwapped(packet, word) ==
    [tuser |-> Append(packet.tuser, word.tuser),
     tdata |-> packet.tdata \o
                 [i \in 1 .. BUS_SIZE |->
                     TdataByte(word.tdata[i],
                               TypeOf(word.tstrb[i], word.tkeep[i]))],
     bus_size |-> BUS_SIZE]

\* The map of packets has at most one entry: operator< of the bit streams in
\* its keys is always FALSE, so all keys are equivalent.
Collect(packet, word) ==
    [tuser |-> Append(packet.tuser, word.tuser),
     tdata |-> packet.tdata \o
                 [i \in 1 .. BUS_SIZE |->
                     TdataByte(word.tdata[i],
                               TypeOf(word.tkeep[i], word.tstrb[i]))],
     bus_size |-> BUS_SIZE]

\* Mutant: a transfer is sampled while it is offered.
SampleOffered(side) ==
    IF side = "rx" THEN [taken |-> rx_tvalid, word |-> rx_word]
                   ELSE [taken |-> tx_tvalid, word |-> tx_word]

Sample(side) ==
    IF side = "rx" THEN [taken |-> rx_tvalid /\ rx_tready, word |-> rx_word]
                   ELSE [taken |-> tx_tvalid /\ tx_tready, word |-> tx_word]

Finished(side) ==
    areset_n /\ Sample(side).taken /\ Sample(side).word.tlast

Complete(side) == Collect(packets[side], Sample(side).word)

Monitors ==
    /\ packets' = [side \in Sides |->
          CASE ~areset_n \/ Finished(side) -> NoPacket
            [] areset_n /\ Sample(side).taken /\ ~Finished(side) -> Complete(side)
            [] OTHER -> packets[side]]
    /\ fifo' = [side \in Sides |->
          IF Finished(side) THEN Append(fifo[side], Complete(side))
                            ELSE fifo[side]]
    /\ seen' = [side \in Sides |->
          IF Finished(side) THEN Append(seen[side], Complete(side))
                            ELSE seen[side]]

PacketEqual(packet, other) ==
    /\ packet.tuser = other.tuser
    /\ Len(packet.tdata) = Len(other.tdata)
    /\ \A i \in DOMAIN packet.tdata : ByteEqual(packet.tdata[i], other.tdata[i])

Comparable == fifo["rx"] # <<>> /\ fifo["tx"] # <<>>

\* The k-th packet of Rx is compared with the k-th packet of Tx.
Compare ==
    /\ phase = "run"
    /\ Comparable
    /\ m_error' = (m_error \/ ~PacketEqual(Head(fifo["rx"]), Head(fifo["tx"])))
    /\ fifo' = [side \in Sides |-> Tail(fifo[side])]
    /\ UNCHANGED <<phaseVars, sequence, reset, rx, tx, next, signals, design,
                   packets, seen, m_test_passed, history>>

-----------------------------------------------------------------------------
\* The reset driver.

\* areset_n is low while duration edges pass, then idle edges more.
ResetTurn(duration, idle) ==
    /\ areset_n' = (duration = 0)
    /\ reset' = CASE duration > 0 ->
                       [busy |-> TRUE, duration |-> duration - 1, idle |-> idle]
                  [] duration = 0 /\ idle > 0 ->
                       [busy |-> TRUE, duration |-> 0, idle |-> idle - 1]
                  [] OTHER -> [busy |-> FALSE, duration |-> 0, idle |-> 0]

\* The asynchronous reset of the design.
DesignReset ==
    IF areset_n'
      THEN UNCHANGED design
      ELSE fsm_state' = "IDLE" /\ rx_tready' = FALSE /\ UNCHANGED buffered

StartReset ==
    /\ ~reset.busy
    /\ ResetTurn(DURATION, IDLE)
    /\ DesignReset

-----------------------------------------------------------------------------
\* The sequence and the test.

\* The packet an item stands for.
Padded(item) ==
    LET transfers == (Len(item.tdata) + BUS_SIZE - 1) \div BUS_SIZE
    IN  [tuser |-> [i \in 1 .. transfers |->
                       IF i <= Len(item.tuser) THEN item.tuser[i] ELSE 0],
         tdata |-> [i \in 1 .. transfers * BUS_SIZE |->
                       IF i <= Len(item.tdata) THEN item.tdata[i] ELSE NullByte],
         bus_size |-> BUS_SIZE]

\* The packet each side should report in a round.
Expected(items) == [i \in DOMAIN items |-> Padded(items[i])]

\* Of each n, the items with data among the first n.
DataAmong(items) ==
    LET data[n \in 0 .. Len(items)] ==
            IF n = 0 THEN <<>>
            ELSE IF items[n].type = "DATA" THEN Append(data[n - 1], items[n])
                                           ELSE data[n - 1]
    IN  data

DataItems == DataAmong(sequence.items)[Len(sequence.items)]

InRun == phase = "run" /\ ~Comparable

TestStep(from, to) ==
    /\ InRun
    /\ sequence.step = from
    /\ sequence' = [sequence EXCEPT !.step = to]

\* run_phase() of the test chooses the items and starts the sequence, which
\* first runs the reset sequence.
StartSequence ==
    /\ InRun
    /\ sequence.step = "idle"
    /\ sequence.round < ROUNDS
    /\ \E items \in Packets :
          sequence' = [step |-> "reset", round |-> sequence.round + 1,
                       items |-> items]
    /\ sent' = sent \o Expected(DataItems')
    /\ StartReset
    /\ UNCHANGED <<phaseVars, rx, tx, next, rx_tvalid, rx_word, tx_tready,
                   checkers, m_test_passed, resets, disturbed>>

\* SC_FORK
Fork ==
    /\ TestStep("reset", "traffic")
    /\ ~reset.busy
    /\ next' = [side \in Sides |-> 1]
    /\ UNCHANGED <<phaseVars, reset, rx, tx, signals, design, checkers,
                   m_test_passed, history>>

\* The tests give Tx as many items as there are packets.
Items(side) == IF side = "rx" THEN sequence.items ELSE DataItems

\* get_next_item() returns, and the driver works on the item until it waits.
StartRx ==
    /\ InRun
    /\ sequence.step = "traffic"
    /\ ~rx.busy
    /\ next["rx"] <= Len(Items("rx"))
    /\ \E idle \in ValuesIn(RX_IDLE), gaveUp \in BOOLEAN :
          /\ RxTurn(RxLocals(Items("rx")[next["rx"]], idle), gaveUp)
          /\ disturbed' = (disturbed \/ gaveUp)
    /\ next' = [next EXCEPT !["rx"] = @ + 1]
    /\ UNCHANGED <<phaseVars, sequence, reset, tx, areset_n, tx_tready, design,
                   checkers, m_test_passed, resets, sent>>

\* tready is still low when the Tx driver first looks at it.
StartTx ==
    /\ InRun
    /\ sequence.step = "traffic"
    /\ ~tx.busy
    /\ next["tx"] <= Len(Items("tx"))
    /\ \E idle \in ValuesIn(TX_IDLE), gaveUp \in BOOLEAN :
          /\ TxTurn(TxLocals(idle), FALSE, gaveUp)
          /\ disturbed' = (disturbed \/ gaveUp)
    /\ next' = [next EXCEPT !["tx"] = @ + 1]
    /\ UNCHANGED <<phaseVars, sequence, reset, rx, areset_n, rx_tvalid, rx_word,
                   design, checkers, m_test_passed, resets, sent>>

\* A test may run the reset sequence while there is traffic.
ResetTraffic ==
    /\ InRun
    /\ sequence.step = "traffic"
    /\ resets < MaxResets
    /\ resets' = resets + 1
    /\ disturbed' = TRUE
    /\ StartReset
    /\ UNCHANGED <<phaseVars, sequence, rx, tx, next, rx_tvalid, rx_word,
                   tx_tready, checkers, m_test_passed, sent>>

Served(side) ==
    next[side] > Len(Items(side)) /\ ~(IF side = "rx" THEN rx.busy ELSE tx.busy)

\* SC_JOIN: the sequence returns to the test.
Join ==
    /\ TestStep("traffic", "idle")
    /\ \A side \in Sides : Served(side)
    /\ UNCHANGED <<phaseVars, reset, rx, tx, next, signals, design, checkers,
                   m_test_passed, history>>

\* The last objection is dropped, and the run phase ends.
EndRun ==
    /\ InRun
    /\ sequence.step = "idle"
    /\ sequence.round = ROUNDS
    /\ phase' = "extract"
    /\ UNCHANGED <<vif, created, built, wired, bindings, sequence, reset, rx,
                   tx, next, signals, design, checkers, m_test_passed, history>>

\* passed() is !m_error.
Extract ==
    /\ phase = "extract"
    /\ m_test_passed' = ~m_error
    /\ phase' = "report"
    /\ UNCHANGED <<vif, created, built, wired, bindings, sequence, reset, rx,
                   tx, next, signals, design, checkers, history>>

\* "TEST PASSED" or "TEST FAILED", and sc_stop().
Report ==
    /\ phase = "report"
    /\ phase' = "stopped"
    /\ UNCHANGED <<vif, created, built, wired, bindings, sequence, reset, rx,
                   tx, next, signals, design, checkers, m_test_passed, history>>

-----------------------------------------------------------------------------

Pending ==
    \/ Comparable
    \/ sequence.step = "idle" /\ sequence.round = ROUNDS
    \/ sequence.step \in {"idle", "reset"} /\ ~reset.busy
    \/ /\ sequence.step = "traffic"
       /\ \/ \E side \in Sides : next[side] <= Len(Items(side))
                 /\ ~(IF side = "rx" THEN rx.busy ELSE tx.busy)
          \/ \A side \in Sides : Served(side)

RegistersStep ==
    IF DUT = "dead"
      THEN UNCHANGED design
      ELSE IF areset_n
             THEN Design!FsmState /\ Design!RxReady /\ Design!Buffered
             ELSE Design!Buffered /\ UNCHANGED <<fsm_state, rx_tready>>

\* A rising edge of aclk.
Clock ==
    /\ phase = "run"
    /\ ~Pending
    /\ RegistersStep
    /\ Monitors
    /\ IF reset.busy THEN ResetTurn(reset.duration, reset.idle)
                     ELSE UNCHANGED <<reset, areset_n>>
    /\ \E rxGaveUp, txGaveUp \in BOOLEAN :
          /\ IF rx.busy THEN RxTurn(rx, rxGaveUp)
             ELSE rxGaveUp = FALSE /\ UNCHANGED <<rx, rx_tvalid, rx_word>>
          /\ IF tx.busy THEN TxTurn(tx, tx_tready, txGaveUp)
             ELSE txGaveUp = FALSE /\ UNCHANGED <<tx, tx_tready>>
          /\ disturbed' = (disturbed \/ rxGaveUp \/ txGaveUp)
    /\ UNCHANGED <<phaseVars, sequence, next, m_error, m_test_passed, resets, sent>>

NoItem == [type |-> "DATA", tdata |-> <<>>, tuser |-> <<>>]

TestInit ==
    /\ PhasesInit
    /\ sequence = [step |-> "idle", round |-> 0, items |-> <<>>]
    /\ reset = [busy |-> FALSE, duration |-> 0, idle |-> 0]
    /\ rx = [RxLocals(NoItem, 0) EXCEPT !.busy = FALSE]
    /\ tx = [TxLocals(0) EXCEPT !.busy = FALSE]
    /\ next = [side \in Sides |-> 1]
    /\ areset_n = FALSE
    /\ rx_tvalid = FALSE
    /\ rx_word = NoTransfer
    /\ tx_tready = FALSE
    /\ fsm_state = "IDLE"
    /\ rx_tready = FALSE
    /\ buffered = UNKNOWN
    /\ packets = [side \in Sides |-> NoPacket]
    /\ fifo = [side \in Sides |-> <<>>]
    /\ seen = [side \in Sides |-> <<>>]
    /\ m_error = FALSE
    /\ m_test_passed = FALSE
    /\ resets = 0
    /\ disturbed = FALSE
    /\ sent = <<>>

Phases ==
    /\ PhasesNext
    /\ UNCHANGED <<sequence, reset, rx, tx, next, signals, design, checkers,
                   m_test_passed, history>>

TestNext ==
    \/ Phases
    \/ StartSequence \/ Fork \/ StartRx \/ StartTx \/ ResetTraffic \/ Join
    \/ Compare \/ Clock
    \/ EndRun \/ Extract \/ Report

TestSpec == TestInit /\ [][TestNext]_testVars

(***************************************************************************)
(* The SystemC kernel goes on as long as there is something to do.         *)
(***************************************************************************)
FairSpec == TestSpec /\ WF_testVars(TestNext)

-----------------------------------------------------------------------------

Within(a, b) == Len(a) <= Len(b) /\ \A i \in DOMAIN a : a[i] = b[i]

(***************************************************************************)
(* Both monitors report the packets of the items, in the order in which    *)
(* they were sent, with the bytes, their types, and tuser, padded with     *)
(* null bytes to whole transfers; when a round ends, all of them.  Only a  *)
(* timeout of a driver, or a reset during traffic, excuses them.           *)
(***************************************************************************)
MonitorSeesItems ==
    ~disturbed => \A side \in Sides :
        /\ Within(seen[side], sent)
        /\ sequence.step = "idle" => seen[side] = sent

(***************************************************************************)
(* The scoreboard takes one packet from each fifo, never the identifier or *)
(* the time into account, yet it pairs the right ones: without a timeout   *)
(* and without a reset during traffic it raises no error.                  *)
(***************************************************************************)
NoFalseAlarm == m_error => disturbed

(***************************************************************************)
(* A transfer that was offered is not changed or withdrawn before it is    *)
(* accepted, whatever the driver waits for: the rule of AXI4-Stream, and   *)
(* the environment of the RTL modules.  A driver that gives up, or a reset *)
(* during traffic, withdraws it.                                           *)
(***************************************************************************)
HoldsOffer ==
    [][rx_tvalid /\ ~rx_tready /\ ~disturbed'
         => rx_tvalid' /\ rx_word' = rx_word]_testVars

(***************************************************************************)
(* The simulation ends: no driver waits for ever, in or out of reset, when *)
(* its items have a timeout.                                               *)
(***************************************************************************)
TestEnds == <>(phase \in {"stopped", "fatal"})

(***************************************************************************)
(* "TEST PASSED": every packet that was sent has been delivered.           *)
(***************************************************************************)
PassedMeansDelivered ==
    phase = "stopped" /\ m_test_passed =>
        \A side \in Sides : seen[side] = sent

=============================================================================
