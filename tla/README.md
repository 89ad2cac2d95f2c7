# A verification of the logic library

The repository (`tymonx/logic`) is a library of synthesizable SystemVerilog
modules: buffers, queues and clock crossings with a `tvalid`/`tready` port on
each side, AXI4-Stream blocks built from them (multiplexers, resizers, packet
buffers, ...), AXI4-Lite and Avalon adapters, and a C++ library with
which these blocks are tested: UVM-SystemC agents, drivers, monitors, a
scoreboard, and the data structures they use. This directory holds TLA+ modules
of both, configurations that check them with TLC, and theorems checked by TLAPS.

Contents: [how the code is modelled](#how-the-code-is-modelled),
[inventory](#inventory), [modules](#modules), [runs](#runs),
[fairness](#fairness), [theorems](#theorems),
[what the runs found](#what-the-runs-found),
[what is not modelled](#what-is-not-modelled), [plan](#plan).

## How the code is modelled

The RTL:

* A register (`always_ff`) is a variable; a combinational signal
  (`always_comb`) is an operator on the registers and inputs.
* A rising edge of the clock is **one action**, `Clock`: all registers take
  their next values from the old ones, so every `<=` of a module is a conjunct
  of the same action. There is one operator per `always_ff` block (or per group
  of blocks with the same enable), named after the register or the sub-module.
  `Clock` also chooses the inputs for the next clock, because drivers change
  their outputs on the same edge.
* The reset is asynchronous: `Reset` may happen between any two edges and sets
  the registers that have `or negedge areset_n`; registers without a reset
  (memories, data registers) keep what they hold. `Release` lets go of the
  reset and moves no register. `ClockInReset` (basic modules) is a clock edge
  during the reset, which moves the registers without a reset. Where a module
  has a reset synchronizer in its wrapper, the model's `areset_n` is the
  synchronized one, unless the synchronizer matters (clock crossing, packet
  buffer): there its stages are variables.
* A value that was never written is the constant `UNKNOWN`; that it is never
  delivered is part of the refinements below.
* Words are model values or small records. Only what a block looks at has a
  field: `last`, an identifier, or the lanes kept.
* Counters have their width: pointers wrap at the memory depth, the timer and
  the transfer counter at `COUNTER_SIZE` = 2^COUNTER_WIDTH.
* The environment is the protocol that the drivers (`rx_driver.cpp`,
  `tx_driver.cpp`) and the OVL checks of `logic_axi4_stream_if` agree on: a
  word offered stays unchanged until it is accepted; `tready` may change at any
  time. `RxDrive` and `TxDrive` are the most general such drivers. The property
  `HoldsOffer` shows that the `rx_driver` keeps to it.

The C++ library:

* A call of a member function is one action. The heap is a function from
  addresses to buffers; its domain is what is allocated.
* Drivers and monitors are processes that wake at each rising edge of `aclk` and
  see the signals as they were before it (SystemC's delta cycles), so an edge is
  again one action, `Clock`: one turn of the loop of every process that waits for
  it, and the registers of the design. What the code does between two edges
  (handing over items, joining the fork, comparing packets) are actions of their
  own, in any order; the next edge comes when none of them is `Pending`.
* A driver's local variables are a record, and leaving its loop ends the item.
* UVM and SystemC are external. UVM calls the build and connect phases of
  siblings in an order the code does not fix: every order is a behaviour.
* Handing an item to a driver takes delta cycles, so a driver that starts its
  next item sees the signals its last item left.

## Inventory

| Component (below `src/rtl/logic/`) | State | Operations and interaction | What is hard | What makes it correct |
|---|---|---|---|---|
| `basic/buffer` | two-state machine, `rx_tready`, one word | skid buffer: passes a word through, keeps it when Tx stops | `rx_tready` is one clock late | never overwritten; a FIFO of one word |
| `basic/queue` (generic) | memory, two pointers, capacity, flags, state, two data registers | write, capacity, memory and read service share `write_enable` and `read_enable` | flags of different ages; wrap; simultaneous write and read; data without reset | no overflow, no underflow, exact `empty`, a FIFO, both sides live |
| `basic/binary2gray`, `gray2binary`, `synchronizer` | two flip-flops per bit | pointer conversion and sampling | sampling while bits change | inverse functions; a sample is an old or a new pointer |
| `reset/synchronizer` | one chain per reset and a common one | asynchronous assertion, synchronous release | resets that come and go one by one | released exactly when all chains are full |
| `clock/domain_crossing` (generic) | as the queue, on two clocks; pointers in gray code and synchronized | writer and reader only see delayed pointers | coinciding edges, stale differences, one side in reset | no overtaking, a FIFO, delivery |
| `pll/lock_service` | state machine, filter, a timer | sets the period of the timer through its Rx port, waits for its `tlast` | timeout against lock, reconfiguring a running timer | durations, filtering, retries, liveness |
| `axi4/stream/timer` | counter, period, event, reload state | counts 0 .. period - 1 on Tx | new periods at any time, stopped Tx | `tlast` with period - 1 only |
| `axi4/stream/transfer_counter` | counter and two flags | watches two ports | saturation, simultaneous events | never ahead of what it counts |
| `axi4/stream/packet_buffer` | queue, two counters, gate | gate decides on counts of packets and words | stale counts, packets longer than the buffer | whole packets; no loss; never blocks; sends what is whole |
| `axi4/stream/mux` | tree of two-input units and skid buffers | packet-wise round robin | fairness through a tree, pauses inside packets | FIFO per input, whole packets, no starvation |
| `axi4/stream/demux`, `extract`, `split` | skid buffer and output registers per stage | words go to the output of their identifier / to one of two / to all | outputs ready at different times, unmapped words | FIFO per output, no blocking |
| `axi4/stream/downsizer`, `upsizer`, `resizer` | index, state, lanes | wide words to narrow ones and back | short words, holes, ends of packets, stale lanes | same bytes, same packet ends, nothing kept back |
| `axi4/stream/assign`, `buffer`, `queue`, `clock_crossing`, `delay` | none of their own | pack the fields and use a basic module | - | those of the basic module |
| `axi4/stream/from_avalon_st`, `to_avalon_st` | output registers | change of protocol | ready with latency | no loss |
| `axi4/lite/bus` | decoder registers, queues of requests and of slave numbers, output registers of the multiplexer | forks a request into four queues, returns responses in order, DECERR for unmapped addresses | order between slaves; queues that wait for each other; data before or after their request | one response per request, in order, from the right slave, with its own data |
| `axi4/lite/*` | output registers | `write_aligned`, Avalon-MM bridges, buffers, queues, crossings | address and data in different clocks | an address and its data are written once, together |
| `basic/queue`, `clock/domain_crossing` (intel) | in vendor macros | `scfifo`, `dcfifo` | - | as the generic ones |
| `interfaces`, `packages`, `include` | OVL monitors | port bundles, protocol and design-rule checks | - | - |

Below `src/src/logic/` and `src/include/logic/`:

| Component | State | Operations and interaction | What is hard | What makes it correct |
|---|---|---|---|---|
| `bitstream`, its references and iterators | pointer to a buffer, number of bits | constructors, assignments, `resize`, conversions, bits, iteration; carries `tid`, `tdest`, `tuser` | ownership through moves; incomplete bytes; the bits beyond the size | each buffer has one owner of its size; it behaves like a value |
| `axi4/stream/tdata_byte` | a byte and its type | flags from the type and back | four types on two flags | the types survive the flags |
| `printer/json`, `do_print()` | rows, level of nesting, text | a recursive walk over the rows | ends of several levels at once, empty arrays | the text reads back to the rows |
| `axi4/stream/packet`, `*_sequence_item` | fields | printed, compared, carried by sequencers | padding of the last transfer | equal exactly when type and data of all bytes are |
| `axi4/stream/bus_if`, `reset_if`, `utils` | signals, and members that shadow them | lanes and bits written and read in delta cycles | several lanes of one signal written in one delta cycle; widths behind different C++ types | a read returns what was written last |
| `axi4/stream/rx_driver`, `tx_driver`, `reset_driver`, sequences | locals of a transfer | items from a sequence that forks two processes after a reset | idle times, timeouts and resets at any clock of an item | an offer is held; no driver waits for ever |
| `axi4/stream/monitor`, `scoreboard` | packets being collected, two fifos, an error flag | transfers to packets, packets compared in pairs | two monitors that finish in either order; resets inside packets | the packets of the items are seen; no false alarm; the verdict |
| `axi4/stream/test`, `testbench`, `rx_agent`, `tx_agent`, `reset_agent`, sequencers | children, ports, pointers | build, connect, run, extract, report | phases of siblings in any order, interfaces that are missing | everything is wired before it runs |
| `range` | two bounds | clamps, `config_db` | - | - |
| `command_line*`, `trace*`, `gtest*` | - | arguments, wave files, registration of tests | - | - |

Components of the RTL talk through ports only: there is no shared state, and the
coupling that matters is that `tready` of one is an input of the registers of the
other in the same clock. In the test bench the drivers share the signals of an
interface with the monitors, sequences reach drivers through sequencers, and
monitors reach the scoreboard through analysis ports. The hazards (in
`PROJECT.json`, each at its line) are mostly a decision in this clock on a value
registered one, two or three clocks ago; in the C++ library, a process that
stops half way, two processes that finish in either order, and the last,
incomplete byte.

## Modules

| Module | Code | Notes |
|---|---|---|
| `StreamFifo` | - | **abstract**: what every buffering block promises on its two ports: accepted words leave once, unchanged and in order; an offered word stays; bounded content; a reset empties it. `Next` for one clock, `AsyncNext` for two |
| `ByteStream` | - | **abstract**: the same for blocks that regroup bytes into other words, with an end mark for each packet |
| `BasicBuffer` | `logic_basic_buffer` | implements `StreamFifo`; reused by the resizers, the extractor and the splitter |
| `BasicQueue` | `logic_basic_queue_generic*` | implements `StreamFifo` with the content *output register, read register, memory from the read pointer on*; reused by the packet buffer |
| `ResetSynchronizerUnit`, `ResetSynchronizer` | `logic_reset_synchronizer*` | chains as functions |
| `Gray` | `logic_basic_binary2gray`, `..gray2binary` | bit by bit |
| `ClockDomainCrossing` | `logic_clock_domain_crossing_generic*` | actions `WriteClock`, `ReadClock`, `BothClocks`; `Mixtures`: a bus sampled on coinciding edges is any mix of its old and new bits |
| `TransferCounter` | `logic_axi4_stream_transfer_counter` | registers only; two instances in the packet buffer |
| `PacketBuffer` | `logic_axi4_stream_packet_buffer*`, `.._queue` | composes `BasicQueue`, two `TransferCounter`, `ResetSynchronizerUnit` and the gate |
| `StreamTimer` | `logic_axi4_stream_timer` | reused by the PLL service |
| `PllLockService` | `logic_pll_lock_service*` | composes the unit with `StreamTimer` |
| `Bitstream` | `bitstream.cpp`, `bitstream_*reference.cpp`, `bitstream_*iterator.cpp` | objects and a heap; one action per member function |
| `BitVector` | - | **abstract**: bit vectors that are values. Where the code promises less it says so: `tidy` (no bits left beyond the size) and `Reached` (what a copy from or to memory reaches) |
| `TdataByte` | `tdata_byte.cpp` | operators only |
| `JsonPrinter` | `printer/json.cpp`, the `do_print()` of the transactions | a behaviour prints one transaction; `calls` is the stack of the recursion |
| `BusSignal` | `bus_if.hpp`, `utils.hpp` | one signal of any width, read and written as a whole, by flags or by bytes |
| `UvmPhases` | `test`, `testbench`, agents, sequencers: `build_phase`, `connect_phase` | components are paths below the test |
| `StreamTestbench` | `rx_driver`, `tx_driver`, `reset_driver`, `reset_sequence`, `sequence`, `monitor`, `scoreboard`, `test` | goes on where `UvmPhases` ends; the design under test is `BasicBuffer` (as in `tests/logic/axi4/stream/buffer`) or one that never answers |
| `LiteBus` | `logic_axi4_lite_bus_multi_slave*` | a behaviour is about the write path or the read path; the queues are FIFOs that show a word a clock late; skid buffers in front and behind are part of the environment |
| `LiteWriteBridge` | `logic_axi4_lite_write_aligned_main`, `logic_axi4_lite_buffer`, `logic_axi4_lite_to_avalon_mm_main` | the way of a write; composes two `BasicBuffer`; implements two `StreamFifo` |
| `StreamMux` | `logic_axi4_stream_mux*` | streams are numbered as the array `muxed` of the code: stream 0 is Tx, streams 2u+1 and 2u+2 enter unit u |
| `StreamDemux` | `logic_axi4_stream_demux*` | stream n enters stage n; with `EXTRACT` an extra port, else a drop |
| `StreamExtract`, `StreamSplit` | `logic_axi4_stream_extract*`, `..split*` | composed in `MCStreamDistributor`: the second output of the extractor feeds the splitter |
| `StreamDownsizer`, `StreamUpsizer` | `logic_axi4_stream_downsizer*`, `..upsizer*` | composed in `MCStreamResizer`; a lane is one byte or `NULL` when not kept |
| `MC*` | - | environments, histories and constants for TLC |
| `MCClocking`, `MCStreamRouting`, `MCLibrary`, `MCLiteBlocks` | - | several independent blocks in one run, one of them in each behaviour (`block`, `part`): `MCPllLockService`, `MCResetSynchronizer`, `ClockDomainCrossing`; `MCStreamMux`, `StreamDemux`; `Bitstream`, `BusSignal`, `JsonPrinter`; `BasicQueue`, `LiteBus`, `LiteWriteBridge` |
| `Rows` | - | lemmas: rows of words, what a port that sends or keeps its word makes of them, the row a memory holds between two pointers that go around, and rows of cells of any length; induction, division and powers |
| `BasicQueueProof`, `PacketBufferProof`, `ClockDomainCrossingProof`, `ClockingProof`, `StreamBlocksProof`, `LiteBlocksProof`, `LibraryProof` | - | theorems about the modules of the same names, `StreamBlocksProof` about `StreamMux` and `StreamDemux` as `MCStreamRouting` composes them, about `MCStreamDistributor`, `MCStreamResizer` and `BasicBuffer`, `ClockingProof` about `MCClocking`, `LiteBlocksProof` about `LiteBus` and `LiteWriteBridge` as `MCLiteBlocks` composes them, `LibraryProof` about `MCLibrary` and `MCStreamTestbench` |

The modules of the RTL blocks and `Bitstream` state their types in `TypeOK`. The
runs leave it to the other properties, which fail when a type does; for the queue
it is proved, for the buffer and the write bridge it is part of the invariant.

Operators named `X_Something` or `XSomething` with the comment *Mutant* next to
an operator `X` are plausible mistakes in the code of `X`. They are used in no
specification; replacing `X` by them makes the property named in
`PROJECT.json` fail, which shows that the property depends on that code.

## Runs

Each run is `tlc -config <cfg> <module>`.

| Run | Configuration | Shows | Bounds, and why they suffice |
|---|---|---|---|
| `queue` | `MCLiteBlocks` | queue: `PointersAgree`, `NoOverflow`, `EmptyExact`, refinement of `StreamFifo`, `NeitherStarves`. Bus: `AnsweredInOrder`, `EveryRequestAnswered`. Bridge: `WritesWhole` (a refinement of `StreamFifo` by each channel) | queue: 4 slots, the smallest the design rules allow, where margins are tightest; 2 words show order; complete state space with resets. Bus: 2 slaves whose ranges overlap, addresses of the first, of both and of neither; queues of 2 words and 3 requests without a response, so that queues fill; the data up to one request behind or ahead; complete after one release of the reset. Bridge: 2 addresses and 2 words, complete with resets |
| `crossing` | `MCClockDomainCrossing` | `NoOvertake`; `SafeSide` (a synchronized pointer lags, never leads); `RefinesFifo` (`StreamFifo` with two clocks) | 8 slots (the smallest allowed), 12 numbered words, so that a loss, a repetition or an exchange is seen: fills the memory and takes both pointers around; all interleavings and mixtures; no reset after the start |
| `clocking` | `MCClocking` | PLL service: `ResetLasts`, `TimeoutExact`, `Filtered`, `Retries`, `Locks`. Reset synchronizer: `ReleasedInTime`. Crossing under resets: `RefinesFifo` (`StreamFifo` with two clocks), `Delivered` | PLL: durations 3 and 7, filter of 3, `pll_locked` arbitrary in every clock, complete. 3 resets, 4 stages, complete. Resets of the crossing at any time, released on either side first; 2 words between resets, since what is new here is the reset |
| `packet_buffer` | `MCPacketBuffer` | `WholePacket`, `CountersBehind`, refinement of `StreamFifo`, `NeverBlocks` | capacity 4, words with and without `tlast`; packets longer than the buffer occur; complete |
| `routing` | `MCStreamRouting` | `RoutesFifo` (per-input refinement of `StreamFifo` by the multiplexer, per-port by the demultiplexer), `PacketsWhole`, `NoStarvation`, `RxAccepted` | multiplexer: 3 inputs on a tree of depth 2 (one leaf disabled), packets of at most 3 words, two of the inputs send without pause, which is the worst case for the third. Demultiplexer: two stages of one output; the words that pass both stages are of two kinds; an unmapped identifier |
| `resize` | `MCStreamResizer` | `RefinesByteStream`, `PacketSent` | 2 lanes; full, short, holed and empty words; bytes numbered modulo 3, so that a loss, a repetition or an exchange is seen |
| `distribute` | `MCStreamDistributor` | `DistributesFifo` (refinement of `StreamFifo` per output of the extractor and of the splitter), `DistributorAccepts` | one extracted identifier, two copies; the extracted words are of two kinds |
| `testbench` | `MCStreamTestbench` | `Wired`, `NoFalseAlarm`, `MonitorSeesItems`, `HoldsOffer`, `TestEnds` | two rounds, so that a round starts from what the last one left; two bytes per transfer and packets of one and three bytes, so of one and two transfers with padding; all four types of bytes; idle times 0 and 1 on either side; one reset at any moment of the traffic; a timeout of 4 clocks, which a reset or a busy peer can exhaust; agents with and without an interface |
| `library` | `MCLibrary` | `OwnedOnce`, `RefinesValues`, `ReadsLastWritten`, `ReadsBack` | 2 objects and 3 addresses (a copy needs one more than there are objects); bytes of 2 bits and up to 3 bits, so empty, incomplete, whole and two bytes; signals of each C++ type with `unsigned` of 2 bits; transactions of every kind with zero, one and several values in each array |
| `packet_buffer_stuck` | `MCPacketBufferStuck` | **violated**: `WholePacketSent` | as `packet_buffer` |
| `timer_two` | `MCStreamTimerTwo` | **violated**: `LastIsPeriod` | period 2, a 3-bit counter |
| `verdict` | `MCStreamVerdict` (of `MCStreamTestbench`) | **violated**: `PassedMeansDelivered` | as `testbench`, with a design that never answers |

Deadlock is checked in the runs of the RTL: the clock can always tick or the
reset be released. `CHECK_DEADLOCK FALSE` in `testbench` and `verdict`, since the
simulation stops, and in `library`, since a text is finished. The largest runs
are `testbench` (134,853 states), `queue` (131,866) and `routing` (120,366).

The refinements are safety refinements with the content of the block as the
refinement mapping. `StreamFifo` has no fairness; that words do get through is
said by the leads-to properties. In `StreamDemux` and the distributor several
FIFOs run on the same steps, so the refinement is stated as the conjunction of
their `Init` and of `[][Next]` for each.

## Fairness

* The clocks run: weak fairness of `Clock` (or of each clock of the crossing).
  In the modules whose only steps are clock edges and resets this is written
  `[]<><<TRUE>>_vars`: steps never cease. It is the one assumption hardware
  cannot do without.
* Tx is ready again and again **whether or not a word is offered**: for example
  `WF_vars(Clock /\ tx_tready')`. This is stronger than what AXI4-Stream
  demands of a receiver, which may wait for `tvalid`, but the code needs it:
  output registers (`tx_tvalid` too) are loaded only while `tx_tready` is high,
  so with a receiver that waits for `tvalid` nothing ever moves. The `tx_driver`
  of the test bench behaves as assumed: it raises `tready` without looking at
  `tvalid`.
* The splitter needs its outputs ready **in the same clock**; with outputs
  that are ready in turn it stops.
* The multiplexer needs packets to be continued and to end: an input that stops
  inside a packet blocks the others by design.
* The properties are stated "or the reset intervenes"; nothing is assumed
  about the reset. `pll_locked` is arbitrary, and `Locks` speaks of the
  behaviours in which it stays high.
* The bus: again and again there is a clock (`Prompt`) in which the slaves answer
  what they hold, the master gives data it owes, and `bready` is high. Slaves and
  masters that never do so stop any bus. `bready` is high whether or not there is
  a response, since the output register is loaded only while it is. The master is
  less than `CAPACITY` requests ahead of its data (`MaxLead < CAPACITY`), without
  which the bus does stop: see below.
* The test bench: `WF_testVars(TestNext)`. The SystemC kernel goes on as long as a
  process can; the edges of `aclk` are such steps, so time passes. No process is
  given more than that: `TestEnds` depends on the timeouts of the items.

## Theorems

`tlapm M.tla` for `M` one of `Rows`, `BasicQueueProof`, `PacketBufferProof`,
`ClockDomainCrossingProof`, `ClockingProof`, `StreamBlocksProof`,
`LiteBlocksProof`, `LibraryProof`. The constants are arbitrary within
these assumptions:

| Module | Assumption | Why the code justifies it |
|---|---|---|
| `BasicQueue` | at least 4 places; `UNKNOWN` is no word | design rule on `CAPACITY` |
| `PacketBuffer` | `CAPACITY` at least 4, `CAPACITY_WIDTH` its `$clog2`; words with `tlast` are words | design rule of the queue; the wrapper computes the width |
| `ClockDomainCrossing`, `MCClocking` | `WIDTH` at least 3, so 8 slots; two synchronizer stages | design rules of the crossing; the stages are not a parameter of it |
| `MCClocking` | a synchronizer of at least one reset and two stages | its design rules |
| `PllLockService` | durations of at least 2 clocks that fit the counter, a filter of at least 2 stages | design rules of the service and of its timer |
| `StreamMux`, `MCStreamMux` | at least one level; `DEPTH` is the `$clog2` of `INPUTS`; `UNKNOWN` is no word, `NoInput` no input | parameters of the code; names of what is not there |
| `StreamDemux`, `MCStreamRouting` | at least one output, groups of at least one; no identifier is twice in the map of a group; `UNKNOWN` is no word | parameters of the code; an output for each identifier is what the map is for (see the notes on the code below) |
| `MCStreamDistributor` | at least one copy and one extracted identifier; the identifier of a word fits `EXTRACT_WIDTH`; `NO_WORD` is no word | parameters and types of the code; the proof needs none of it |
| `MCStreamResizer` | at least one lane and one byte; `NULL`, `END` and `UNDRIVEN` are no bytes | parameters of the code; names of what is not there (the proof needs only the first) |
| `LiteBus` | at least one slave and one place in each queue; `MaxLead` below `CAPACITY`; `DECERR` is no answer of a slave | parameters of the code; the bus stops otherwise (see below); an answer of the decoder is told from one of a slave by its code |
| `Bitstream` | a byte and a number have bits; the null pointer is no address | facts of C++ |
| `StreamTestbench` | the sequences consist of items; an item with data has at least one byte; a transfer has at least one byte; times are natural numbers | types of the members of an item; what the tests randomize (an item without bytes is never seen on the bus, so no monitor could report it) |

Every refinement theorem (`Implements`, `CrossingImplements`,
`SkidImplements`, `WritesAlwaysWhole`, `RoutesAsFifo`, `DistributesAsFifo`) has the same shape: the content of the block is written as a
row *port, then registers, then memory from one pointer to the other*; each clock
is shown to take the first word of one part and to put it at the end of the next;
and the lemmas `Taken` and `Grouped` of `Rows` turn that into "what was delivered,
followed by what is inside, is what was inside, followed by what was accepted",
which is the step of `StreamFifo`, and of `ByteStream` (`RefinesBytes`).

* **BasicQueue**. `NoOverflow`, `NoUnderflow` and `EmptyExact` are not
  inductive: `rx_tready` and `almost_empty` are computed from the capacity of
  the clock before. The invariant adds what they still say now: `ReadyInv`
  (ready implies that one place is free although one word may have come in
  since) and `AlmostEmptyInv` (the flag may be wrong by one, so if it is set the
  capacity is at most 2, and 0, 1 and 2 are told apart by two bits).
  `PointersAgree` is inductive by itself with the types, given arithmetic modulo
  the depth. The theorems: `TypeCorrect`, `PointersAlwaysAgree`,
  `NeverOverflows`, `NeverUnderflows`, `EmptyIsExact`. `Implements`: what lies in
  memory is the row from the read pointer on, `capacity` words long (`Stored`); a
  write puts its word behind it, because the place is free (`StretchWritten`), and
  a read takes its first word (`StretchRead`). It needs `NoOverflow` for the first
  and `NoUnderflow` for the second.
* **BasicBuffer** (`Skid` in `StreamBlocksProof`). The invariant says that a kept word is
  never `UNKNOWN`, that `rx_tready` is low while a word is kept, and that nothing is
  ready or kept in reset. With it, `SkidImplements`: the buffer implements `StreamFifo` with capacity
  one (initial states, and each action a step or a stutter).
* **PacketBuffer**. The queue inside takes steps of a queue although its reset is
  synchronized once more (`QueueClocks`, `QueueHeld`, `QueueEmptied`), so its
  invariant is carried over and not proved again. `CountersBehind` is not inductive,
  because a counter decides whether to count on flags of the clock before. The
  invariant adds what the flags still say now (`FlagsInv`): a counter at its limit is
  marked full; while the counter is valid, a set `almost_empty` leaves at most 2 and
  a cleared one at least 1; while it is not valid, it is 0 and the synchronizer is
  still cleared, so nothing can have been read or written that it missed. The number
  of packets inside is the number of ends of packets in the row of queued words; a
  step changes it by what enters and leaves (`LastsPut`, `LastsTaken`). Theorems:
  `NeverAhead`, `OnlyWholePackets`, `Implements`.
* **ClockDomainCrossing**. Three parts.
  *The code.* A sample taken while a bus changes is any mixture of old and new
  bits; if at most one bit changes, the mixture is the old or the new value
  (`Sampled`). That neighbouring pointers differ in one bit, around the end too
  (`OneBit`), and that the two converters are inverse (`RoundTrip`), is proved for
  every width from the digits of a number, by induction written as a property of a
  set of naturals (`Induction`), since an induction theorem with an operator as
  parameter is beyond the provers.
  *The order.* Seen from `read_pointer_synced` and going around, come the read
  pointers on their way to Rx, the oldest first, the read pointer, the write
  pointers on their way to Tx, and the write pointer (`Ordered`). With it go the
  invariants that what is sent is one step old at most (`Recent`) and what the flags,
  computed from differences one and two clocks old, still say (`RxFlags`, `TxFlags`).
  One lemma (`ClockOrder`) covers the three kinds of edges: each side moves or stays.
  From this, `BeliefsAreSafe` and `NeitherOvertakes`.
  *The words.* `Held` says what the two resets, released at different times, leave
  empty; then `Implements` as above, with an edge of one clock, of the other, or of
  both.
* **MCClocking**. *Synchronizer*: the history variable `elapsed` counts the clocks
  since any reset was low; from the top, every chain is full at least as far as that,
  and one of them, that of the reset that went away last, exactly as far; the common
  chain follows. Hence `ReleasedInTimeAlways`. *PLL service*: `PhaseInv` says in each
  state of the service how the counter of the timer relates to the clocks counted by
  the history, in particular that the timer is never given a period it cannot take at
  once; `FilterInv` relates the filter to the last samples. Hence `ResetAlwaysLasts`,
  `TimeoutAlwaysExact` and `AlwaysFiltered`, which are action properties. *Crossing*:
  `CrossingImplements` carries the theorem about `ClockDomainCrossing` over to the
  composition.
* **StreamMux**. `PacketsAlwaysWhole`: for a tree of any depth. A unit looks at `tlast`
  only and does not know whose packet it lets pass; what it relies on is that the
  stream at its own input is not mixed either. The invariant `MuxInv` says that there is
  an owner of each stream (`Owned`): the input whose packet has begun and not ended in
  front of the unit, or none. Each word on its way continues the packet of its stream's
  owner or begins one (`Fits`); a unit that has selected an input is inside a packet of
  it, and its other input is between two packets (`Branch`); the stream of an input has
  no other owner (`Leaf`). A clock gives every stream its next owner (`UnitStep`,
  `LeafStep`), with the arithmetic of the numbering of the tree (`Heap`). The proof found
  two guards of the next state of a unit that overlapped, so that `CASE` left open which
  one holds; the model has the order of the code now.
* **MCStreamRouting**. `RoutesAsFifo`, the refinement of `StreamFifo` by the multiplexer
  for each input and by the demultiplexer for each port, for any depth of the tree, any
  number, grouping and map of the outputs, with the extra port or the drop. The words of
  one input, or for one port, are on a *way*: a row of cells, each a skid buffer and the
  register in front of it, of which any may be empty (`Cells`, `PortCells`). In a clock every
  cell passes on what the next one takes (`WayMoves`, `StageMoves`), so a row of any length
  gives up at its end what it shows there and takes at its beginning what is accepted
  (`Conveyed` of `Rows`, by induction over the length). What needs an invariant is that
  a word is never anywhere else. In the tree (`WayInv`): a word from
  input `k` is only on the way of `k`, and the numbers of the streams on this way are those
  `way` computes by halving (`WayTo`). In the stages (`DemuxInv`): a word that
  came to stage `n` is for no output of the stages before (`Beyond`), so the stages
  pass a word on exactly until the stage of its output takes it (`PortHere`),
  and what leaves the last one is for none (`PortBeyond`); a skid buffer that keeps a word
  takes no other. The room of the rows is that of their places (`WayRoom`, `PortRoom`).
* **MCStreamDistributor**. `DistributesAsFifo`, the refinement of `StreamFifo` by the first output
  of the extractor and by every output of the splitter behind the second one, for any
  words, identifiers and number of copies. The words of an output are in a row of two
  places, or of four: skid buffer and port of the extractor, skid buffer and port of
  the splitter. Each place takes what the one behind it gives
  (`ExtractSkidConveys`, `ExtractPortConveys`, `SplitSkidConveys`, `CopyPortConveys`), and two that
  follow each other are one (`ConveysOn`). What is to be shown is that a word taken off
  a skid buffer is loaded by every port it is meant for, in this clock and no other:
  the unit of the splitter is ready when all outputs are, so that each of them loads; the
  unit of the extractor is ready when the output of the word is, and the other output
  loads nothing. The invariant `DistributorInv` adds to the types that a skid buffer
  that keeps a word takes no other, and that a word on a port of the extractor is one
  for this port.
* **MCStreamResizer**. `RefinesBytes`, the refinement of `ByteStream` by the downsizer and
  the upsizer behind it, for any number of lanes; and `RefinesByteStreamAnyWords`, the same
  for a driver that sends any words. Here a word is a row of its own: of the kept
  lanes, and of a mark if it ends a packet. There are five places (the skid
  buffer and the port of the downsizer; the skid buffer, the lanes and the port of the
  upsizer), and each is shown to take what the one behind it gives
  (`DownSkidConveys`, `NarrowConveys`, `UpSkidConveys`, `UpUnitConveys`, `WideConveys`). Two of
  them do not pass words on as they are. The word in the skid buffer of the
  downsizer loses a lane in each clock, and when the unit calls a lane the last one, only
  the mark is left (`FromNext`, `FromEnd`). The lanes of the upsizer grow by one in each
  clock; a word is complete when the lanes behind are empty, which the invariant
  `ResizerInv` says of the lanes from `up_index` on, since the first write of a word
  clears them (`UpToNext`, `UpToSame`, `UpToRest`); and the first lane of the next word may be
  written in the clock in which the complete one leaves (`LaneGathered`). The invariant
  adds that the downsizer is past the first lane only of a word that waits in the skid
  buffer, and that the upsizer counts only while it gathers.
* **LiteBus**. `BusAnswersInOrder`, and `BlocksAnswerInOrder` for the
  specification that the run checks: for any number of slaves, whatever addresses
  they share, any capacity of the queues. The bus
  itself does not know which request a word belongs to, so the invariant `BusInv`
  says that there is a history of requests that fits: a row of all requests so far,
  how many of them were asked, forked, passed on, given data, selected and delivered
  (`Counts`), and which one each place before and behind a slave holds (`Places`).
  Each queue then holds a stretch of one function of that row: the requests
  themselves, their data, or the numbers of their slaves (`Holds`); one lemma about a
  queue that shows its words a clock late (`LineStep`) serves all of them. What
  is delicate is the slave numbers: the multiplexer, the demultiplexer of the data
  and the slave each take from another copy of them and at another time. `Serving` and `Writing` say
  that a slave has the requests, and the data, for it in order and none between
  them is missing; `Answering` that the oldest answer it has not given away
  is that of the first request for it that was not selected. The proof found two guards of
  the model that overlapped, so that `CASE` left open which one holds; they
  exclude each other now.
* **LiteWriteBridge**. `WritesAlwaysWhole`, and `BlocksWriteWhole` for the
  specification that the run checks (`WritesWhole`): a refinement, for any addresses
  and words. The invariant is that the
  two channels are in the same state behind `write_aligned` (`Together`, proved as
  `ChannelsStayTogether`): a step keeps it because both skid buffers see the same `valid`
  and the same `waitrequest`, and it is what makes one `write` deliver both. Then,
  per channel, the words inside are a row of three places (port, skid buffer,
  register) with at most one word each; a clock moves every word on by the places
  that are free (`AwMoves`, `WMoves`), and lemmas on rows say that this is a step
  of `StreamFifo` (`AwTransfer`, `WTransfer`).
* **MCLibrary**. *Ownership of buffers*: `OwnedOnceAlways`, for any number of objects
  and addresses, any width of a byte. The invariant `Inv` adds to `OwnedOnce` that what
  is allocated is an address. What a member function does to ownership is one of five
  things, each a lemma that does not mention bits: a new buffer for an object
  (`Reallocates`: sized and copy constructor, copy assignment, `resize`), the buffer of
  another object (`Transfers`: both moves), new bits in the same buffer (`Written`),
  the end of an object (`Destroyed`), or nothing (`Unchanged`).
  *Values*: `ImplementsValues` and `ValuesAlways`, bit streams implement `BitVector`.
  Ownership is what makes them values: since no other object points to the buffer that
  a call replaces, releases or writes, every other value stays (`ReallocatedValues`,
  `TransferredValues`, `WrittenValues`). The value of the object itself follows
  from the bits of its new buffer: bit `j` of a value is bit `j - 1` of the buffer,
  and the buffer has the room for it (`BufferHolds`). What is delicate is the last,
  incomplete byte: growing may bring back bits that were cut off, up to the end of
  that byte and no further (`GrowStep`); cutting between bytes leaves nothing behind
  (`ShrinkStep`); a transfer from or to memory reaches the bits `MovedBits` says; and
  comparing bytes is comparing numbers only if nothing was cut off (`EqualBytes`).
  The types `Typed` go with `Inv`.
  *Signals*: `ReadsLastWrittenAlways`, for every width and type (no assumption is
  used). The invariant `LanesKept` is that the member of the interface and the value
  on its way to the signal are what was last written, lane by lane.

* **StreamTestbench**, for any items, idle times, timeouts, number of rounds and width of
  the bus. Everything about traffic holds as long as it is not `disturbed`; `TestInv`
  says what holds until then. The transfers of an item are numbered (`Nth`), and what a
  monitor has collected after some of them is a function of the item (`Part`); the Rx
  driver, the register of the design that may hold one transfer more, and the two monitors
  are each at a place in the same row of transfers (`RxOK`, `DesignOK`), what a monitor has
  reported is a beginning of the packets that were sent (`SeenOK`), those are the packets
  of the items of the sequence (`SentOK`), and what is left in the fifos are the newest
  packets each monitor reported (`FifoOK`). The Tx side only has a lower bound
  (`TxOK`): the driver may leave `tready` high for a clock in which it no longer runs, so
  a packet can go by that the driver did not count, but that its monitor did. One lemma
  for each part of a clock edge, one for each step. Hence `MonitorsAlwaysSeeItems`,
  `NeverFalseAlarm` and `DriverHoldsOffer`. That the sequence of the Tx side has one item
  for each item with data is the one place where a definition counts (`DataAmong`): it is
  a function of the number of items looked at, and the lemmas about it are inductions over
  sets of naturals (`Induction`).
* **UvmPhases**. `TestbenchAlwaysWired`: a component that was built has created
  its parts (`PartsCreated`); a driver is only built in an agent that has an interface, or
  the simulation aborts (`InterfacesKnown`); a component that was connected has made its
  bindings, and there are no others (`BindingsMade`); and a phase begins when the one
  before it is over (`InOrder`). So when everything is connected, nothing is missing.

Only model-checked:

* liveness, since neither fairness nor `ENABLED` is in reach of the provers:
  `NeitherStarves`, `EveryRequestAnswered`, `Delivered`, `Retries`, `Locks`,
  `NeverBlocks`, `NoStarvation`, `RxAccepted`, `DistributorAccepts`, `PacketSent`, `TestEnds`;
* what recursive definitions compute: `ReadsBack` (the brackets open at each place of
  a text).

## What the runs found

Three runs end with a violation; they are reported in `PROJECT.json`.

1. `packet_buffer_stuck`. The counters of the packet buffer stop at `CAPACITY`,
   but the queue holds two words more in its data registers. What was not counted
   on the way in is counted on the way out, and a whole packet can stay
   in the buffer until further words arrive.
2. `timer_two`. With the default period of two the first event of the timer comes
   with the value 0. Longer periods are right, and the PLL service uses
   the timer with a period of two only when its reset lasts two clocks.
3. `verdict`. With a design that never answers, both drivers report a timeout, no
   monitor sees a packet, the scoreboard compares nothing, and the test ends with
   "TEST PASSED". Packets left in one fifo at the end are ignored in the same way.

Seen while modelling, and not the subject of a run:

* `logic_clock_domain_crossing_generic_read.sv:172` asserts that the difference
  never steps from 0 to its maximum. It may, legally, when the writer is
  much faster; the same holds for the overflow check of the writer.
* With a `CAPACITY` that is not a power of two (5, say) the flush threshold
  `2^CAPACITY_WIDTH - 1` of the packet buffer is above where its counter stops, so
  a packet longer than the buffer blocks it.
* `tvalid` of the packet buffer is not continuous, as its documentation says,
  when the read side of the queue takes a clock to restart.
* The PLL service with a reset shorter than its filter can announce a lock
  from samples taken before the reset.
* `logic_axi4_stream_extract_unit.sv:109` compares with 0 .. PACKETS-1 and does
  not use the parameter `EXTRACT`.
* The demultiplexer and the extractor derive the width of the map from
  `TUSER_WIDTH` when `tdest` is used, so the default map of a demultiplexer with a
  wide `tdest` and a narrow `tuser` repeats itself. The model takes the map as given
  and, in each group, injective: with two equal entries of one stage a word leaves the
  stage as soon as one of the two outputs is ready, and reaches that one or both.
* The `tx_driver` leaves `tready` high for a clock after the last word of a packet
  when the idle time is zero. A word accepted then belongs to no item, and the
  item meant for it waits until its timeout.
* A timeout, or a reset during traffic, leaves packets in one fifo of the
  scoreboard, which nothing empties: later packets are compared with the wrong
  ones, and a correct design fails the test. `NoFalseAlarm` and
  `MonitorSeesItems` therefore exempt these behaviours.
* A write response of the bus for an unmapped address (DECERR) may come before the
  data of the request: it needs the slave number only. And a master that sends
  `CAPACITY` requests before the data of the first one blocks the bus: `wready`
  waits for room in every queue of slave numbers
  (`logic_axi4_lite_bus_multi_slave_decoder.sv:62`), although the data need none.
* `logic_axi4_lite_bus_multi_slave` does not pass `DATA_BYTES` to its multiplexer
  (line 174), whose `rdata` then has the default of 4 bytes.
* The bridge to Avalon-MM alone, without `write_aligned`, loses an address or data
  that arrive without the other (`logic_axi4_lite_to_avalon_mm_main.sv:36-38, 59`).
  A read in the clock of a write shares its `address` (line 75), and a
  response that comes while `bready` or `rready` is low is lost (lines 84, 99).
* `operator<` of bit streams is a stub that returns `false` (`bitstream.cpp:328`).
  All keys of the monitor's map of packets are equivalent, so it has one entry:
  interleaved packets of two identifiers would become one.
* `assign` and `copy` between a bit stream and memory handle the bits of an
  incomplete last byte in byte 0 (`bitstream.cpp:222`, `bitstream.cpp:273`).
* A bit stream that shrinks inside a byte keeps the bits it lost: they take part in
  `==` and come back when it grows.
* A loop from `rbegin()` to `rend()` misses the last bit and visits the first one
  twice: `rbegin()` is made from `m_size - 1` and `rend()` from -1
  (`bitstream.cpp:147`), but `std::reverse_iterator` already refers to the element
  before the one it is made from.
* `utils::get_bool` shifts `1u` by the offset (`utils.hpp:65`), which is undefined
  from bit 32 on of signals of 33 to 64 bits.

## What is not modelled

* Vendor macros (`scfifo`, `dcfifo`): not in the repository.
* Metastability beyond the mixture of old and new bits; setup, hold and
  reset recovery violations in a single-clock block.
* `tid`, `tdest`, `tuser`, `tstrb` in the resizers; `tdata` contents anywhere.
* `USE_TKEEP = 0`, `USE_TLAST = 0` and similar variants, which remove fields.
* The conversion of nanoseconds to clocks in the PLL service (constants).
* OVL checks and design-rule checks, except as assumptions (`ASSUME`).
* Build scripts, wrappers for simulation, unit tests.
* In the test bench: `tid` and `tdest` (zero in every test), a bus without bytes,
  time stamps, `do_copy()`, the `do_compare()` of the items (no caller), passive
  agents.
* In the C++ library: the members of `bitstream` that hand its buffer to client
  code (`operator T&`, `get<T>`, `data()`), arithmetic of iterators beyond a loop,
  order and packing of `tdata_byte`, indentation of JSON, `range` in the
  `config_db`, wave files, command line, the factory of tests.
* The printer, phases and ports of UVM, the `sc_signal` of SystemC: external, modelled as
  the code uses them.
* In the bus: resets after the first; several masters, which the code does not
  allow. In the write bridge: reads, responses, `wstrb`, and the two reset
  synchronizers of the wrappers, which may release a clock apart. `awprot` and
  `arprot` everywhere.
* Everything in the plan below.

## Plan

Done: the basic modules and their proofs; the crossing; the PLL service; the
stream blocks; the bus and the way of a write to Avalon-MM; the test bench and its
library. Left, in this order:

1. The reads and responses of the bridge to Avalon-MM, and the bridge from it.
2. The Avalon-ST bridges and the delay line.

Modules meant for proofs use no RECURSIVE operator.
