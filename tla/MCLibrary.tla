----------------------------- MODULE MCLibrary -----------------------------
(***************************************************************************)
(* The data structures of the testbench library: bit streams, the signals  *)
(* of an interface, and transactions that are printed.  They do not share  *)
(* state, so a behaviour uses one of them, its `part'.                     *)
(***************************************************************************)
EXTENDS Bitstream, TdataByte, TLC

CONSTANTS UNSIGNED, MaxWidth, Data   \* of BusSignal

VARIABLES part,                         \* "bitstream", "signal" or "json"
          access, width, member, pending, signal, written, got,   \* of BusSignal
          rows, m_row, calls, output    \* of JsonPrinter

bus == <<access, width, member, pending, signal, written, got>>

printer == <<rows, m_row, calls, output>>

-----------------------------------------------------------------------------
\* What is printed: transactions of every kind, with no, one or several values
\* of tuser and bytes of every type, and packets of up to two transfers.

BitsOf(n, value) == [width |-> n, value |-> value]

Tuser == {<<>>, <<BitsOf(1, 1)>>, <<BitsOf(5, 17), BitsOf(5, 0)>>}

Tdata == {<<>>, <<TdataByte(200, "DATA_BYTE")>>,
          <<TdataByte(3, "POSITION_BYTE"), TdataByte(0, "NULL_BYTE"),
            TdataByte(255, "RESERVED")>>}

RxItems == [type : {"DATA", "IDLE"}, timeout : {10000},
            idle : {[min |-> 0, max |-> 3]}, tid : {BitsOf(1, 0)},
            tdest : {BitsOf(0, 0)}, tuser : Tuser, tdata : Tdata]

Packet(transfers, bus_size) ==
    [tid |-> BitsOf(1, 1), tdest |-> BitsOf(1, 0), bus_size |-> bus_size,
     tuser |-> [i \in 1 .. transfers |-> BitsOf(1, i % 2)],
     timestamps |-> [i \in 1 .. transfers |-> 10 * i],
     tdata |-> [i \in 1 .. transfers * bus_size |->
                   TdataByte(i, IF i = 3 THEN "NULL_BYTE" ELSE "DATA_BYTE")]]

TxItem == [timeout |-> 0, idle |-> [min |-> 0, max |-> 0],
           tid |-> BitsOf(0, 0), tdest |-> BitsOf(0, 0)]

ResetItem == [duration |-> 1, idle |-> 0]

\* The rows of a transaction do not depend on which transactions are printed.
Json == INSTANCE JsonPrinter WITH Transactions <- {}

Transactions ==
    {Json!RxItemRows(item) : item \in RxItems}
    \cup {Json!PacketRows(Packet(n, bus_size)) : n \in 0 .. 2, bus_size \in 1 .. 2}
    \cup {Json!TxItemRows(TxItem), Json!ResetItemRows(ResetItem)}

-----------------------------------------------------------------------------

Signal == INSTANCE BusSignal WITH next <- pending, result <- got

ASSUME SignalAssumption == Signal!Parameters

Printer == INSTANCE JsonPrinter

MCInit ==
    /\ part \in {"bitstream", "signal", "json"}
    /\ Init
    /\ IF part = "signal" THEN Signal!Init
       ELSE /\ access = "whole" /\ width = 0 /\ got = <<>>
            /\ member = <<>> /\ pending = <<>> /\ signal = <<>> /\ written = <<>>
    /\ IF part = "json" THEN Printer!Init
       ELSE rows = <<>> /\ m_row = 1 /\ calls = <<>> /\ output = <<>>

MCNext ==
    /\ UNCHANGED part
    /\ \/ part = "bitstream" /\ Next /\ UNCHANGED <<bus, printer>>
       \/ part = "signal" /\ Signal!Next /\ UNCHANGED <<vars, printer>>
       \/ part = "json" /\ Printer!Next /\ UNCHANGED <<vars, bus>>

MCSpec == MCInit /\ [][MCNext]_<<part, vars, bus, printer>>

Symmetry == Permutations(Objects) \cup Permutations(Addresses)

-----------------------------------------------------------------------------

(***************************************************************************)
(* See BusSignal: what is read of a signal is what was written last.       *)
(***************************************************************************)
ReadsLastWritten == part = "signal" => Signal!ReadsLastWritten

(***************************************************************************)
(* See JsonPrinter: the text read back has the rows of the transaction.    *)
(***************************************************************************)
ReadsBack == part = "json" => Printer!ReadsBack

=============================================================================
