----------------------------- MODULE JsonPrinter -----------------------------
(***************************************************************************)
(* logic::printer::json and the do_print() functions of the transactions:  *)
(* a transaction hands its fields to a UVM printer, which keeps them as a  *)
(* sequence of rows, and the emitter walks over the rows and writes JSON.  *)
(*                                                                         *)
(* A row has a name, the level of its nesting, a type name and a value.    *)
(* The text is a sequence of tokens: brackets, commas, names and values,   *)
(* each a tuple that begins with what it is.  A number is printed in the   *)
(* digits of its base.  Indentation is left out.                           *)
(***************************************************************************)
EXTENDS TdataByte

LOCAL INSTANCE SequencesExt

CONSTANT Transactions   \* the transactions that are printed: sequences of rows

VARIABLES rows,    \* m_rows of the printer
          m_row,   \* index of the row the emitter has reached
          calls,   \* the active calls of print(): type and level, innermost last
          output   \* m_output

vars == <<rows, m_row, calls, output>>

-----------------------------------------------------------------------------

\* What the UVM printer records for each kind of field.
Row(name, type_name, prefix, size, digits) ==
    [name |-> name, level |-> 0, type_name |-> type_name,
     prefix |-> prefix, size |-> size, digits |-> digits]

PrintString(name, text) == <<Row(name, "string", "", 0, <<text>>)>>

PrintTime(name, time) == <<Row(name, "time", "", 0, <<time>>)>>

PrintDecimal(name, n) == <<Row(name, "int", "", 0, <<n>>)>>

Hex(n) == LET Digits[m \in Nat] == IF m < 16 THEN <<m>>
                                   ELSE Append(Digits[m \div 16], m % 16)
          IN  Digits[n]

PrintHex(name, n, width) == <<Row(name, "int", "0x", width, Hex(n))>>

Nested(header, fields) ==
    <<header>> \o [i \in DOMAIN fields |->
                      [fields[i] EXCEPT !.level = @ + 1]]

PrintObject(name, fields) == Nested(Row(name, "object", "", 0, <<>>), fields)

\* Each item is a sequence of rows.
PrintArray(name, items) ==
    Nested(Row(name, "array", "", 0, <<>>), FlattenSeq(items))

-----------------------------------------------------------------------------
\* The transactions.  A vector of bits is its width and its value.

PrintWidthValue(name, bits) ==
    PrintObject(name, PrintDecimal("width", bits.width)
                      \o PrintHex("value", bits.value, bits.width))

PrintIdle(idle) ==
    PrintObject("idle", PrintDecimal("min", idle.min)
                        \o PrintDecimal("max", idle.max))

\* One value of tuser is printed as such, any other number as an array.
PrintTuser(tuser) ==
    LET width == IF tuser = <<>> THEN 0 ELSE tuser[1].width
        values == [i \in DOMAIN tuser |->
                      PrintHex("value", tuser[i].value, width)]
    IN  PrintObject("tuser", PrintDecimal("width", width) \o
            IF Len(tuser) = 1 THEN values[1] ELSE PrintArray("value", values))

TypeName == [DATA_BYTE |-> "data", POSITION_BYTE |-> "position",
             RESERVED |-> "reserved", NULL_BYTE |-> "null"]

RxItemRows(item) ==
    LET bytes == [i \in DOMAIN item.tdata |->
                     PrintObject("item",
                         PrintString("type", TypeName[item.tdata[i].type])
                         \o PrintHex("value", item.tdata[i].data, 8))]
    IN  PrintString("type", IF item.type = "DATA" THEN "data" ELSE "idle")
        \o PrintDecimal("timeout", item.timeout)
        \o PrintIdle(item.idle)
        \o PrintWidthValue("tid", item.tid)
        \o PrintWidthValue("tdest", item.tdest)
        \o PrintTuser(item.tuser)
        \o PrintArray("tdata", bytes)

TxItemRows(item) ==
    PrintDecimal("timeout", item.timeout)
    \o PrintIdle(item.idle)
    \o PrintWidthValue("tid", item.tid)
    \o PrintWidthValue("tdest", item.tdest)

ResetItemRows(item) ==
    PrintDecimal("duration", item.duration) \o PrintDecimal("idle", item.idle)

\* A transfer of a packet: its flags and bytes as numbers.
TransferRows(time, tuser, bytes) ==
    LET Bits(flag(_)) == NumberOf([i \in DOMAIN bytes |-> Flag(flag(bytes[i]))], 2)
        tdata == NumberOf([i \in DOMAIN bytes |-> bytes[i].data], 256)
        n == Len(bytes)
    IN  PrintTime("time", time)
        \o PrintHex("tuser", tuser.value, tuser.width)
        \o PrintHex("tkeep", Bits(Tkeep), n)
        \o PrintHex("tstrb", Bits(Tstrb), n)
        \o PrintHex("tdata", tdata, 8 * n)

PacketRows(packet) ==
    LET tuser_width == IF packet.tuser = <<>> THEN 0 ELSE packet.tuser[1].width
        Width(name, n) == PrintObject(name, PrintDecimal("width", n))
        transfers == [i \in DOMAIN packet.timestamps |->
            PrintObject("item", TransferRows(packet.timestamps[i], packet.tuser[i],
                SubSeq(packet.tdata, packet.bus_size * (i - 1) + 1,
                                     packet.bus_size * i)))]
    IN  PrintWidthValue("tid", packet.tid)
        \o PrintWidthValue("tdest", packet.tdest)
        \o Width("tuser", tuser_width)
        \o Width("tkeep", packet.bus_size)
        \o Width("tstrb", packet.bus_size)
        \o Width("tdata", 8 * packet.bus_size)
        \o PrintArray("transaction", transfers)

-----------------------------------------------------------------------------
\* The emitter.

AtEnd(row) == row > Len(rows)

Top == calls[Len(calls)]

\* The loop of the innermost call goes on with the row.
Inside(row, call) == ~AtEnd(row) /\ rows[row].level >= call.level

IsContainer ==
    ~AtEnd(m_row + 1) /\ rows[m_row].level < rows[m_row + 1].level

Open(type) == IF type = "ARRAY" THEN <<"[">> ELSE <<"{">>

Close(type) == IF type = "ARRAY" THEN <<"]">> ELSE <<"}">>

Name == IF Top.type = "OBJECT" THEN <<<<"name", rows[m_row].name>>>> ELSE <<>>

\* Mutant: the digits are not reversed before they are resized.
ResizedBehind(digits, n) ==
    [i \in 1 .. n |-> IF i > Len(digits) THEN 0 ELSE digits[i]]

\* The digits reversed, resized to n with zeros, and reversed again.
Resized(digits, n) ==
    [i \in 1 .. n |-> LET j == i + Len(digits) - n
                      IN  IF j < 1 THEN 0 ELSE digits[j]]

DigitsOf(row) ==
    LET size == IF row.size < 1 THEN 1 ELSE row.size
    IN  CASE row.type_name = "int" /\ row.prefix = "0x" ->
                Resized(row.digits, (size + 3) \div 4)
          [] row.type_name = "int" /\ row.prefix = "0b" ->
                Resized(row.digits, size)
          [] OTHER -> row.digits

Quoted(row) ==
    IF row.type_name = "double" \/ (row.type_name = "int" /\ row.prefix = "")
      THEN "plain" ELSE "quoted"

Value == <<"value", Quoted(rows[m_row]), rows[m_row].prefix, DigitsOf(rows[m_row])>>

\* A comma, if the call goes on with the next row.
Comma(row, call) == IF Inside(row, call) THEN <<<<",">>>> ELSE <<>>

Init ==
    /\ rows \in Transactions
    /\ m_row = 1
    /\ calls = <<[type |-> "OBJECT", level |-> IF rows = <<>> THEN 0
                                               ELSE rows[1].level]>>
    /\ output = <<Open("OBJECT")>>

\* A row of its own.
EmitValue ==
    /\ calls # <<>>
    /\ Inside(m_row, Top)
    /\ ~IsContainer
    /\ output' = output \o Name \o <<Value>> \o Comma(m_row + 1, Top)
    /\ m_row' = m_row + 1
    /\ UNCHANGED <<rows, calls>>

\* A row with rows below it: print() calls itself for those.
EmitContainer ==
    /\ calls # <<>>
    /\ Inside(m_row, Top)
    /\ IsContainer
    /\ LET type == IF rows[m_row].type_name = "array" THEN "ARRAY" ELSE "OBJECT"
       IN  /\ output' = output \o Name \o <<Open(type)>>
           /\ calls' = Append(calls, [type |-> type,
                                      level |-> rows[m_row + 1].level])
    /\ m_row' = m_row + 1
    /\ UNCHANGED rows

\* print() returns, and the loop of its caller looks for the next row.
Return ==
    LET callers == SubSeq(calls, 1, Len(calls) - 1) IN
    /\ calls # <<>>
    /\ ~Inside(m_row, Top)
    /\ output' = Append(output, Close(Top.type)) \o
           (IF callers = <<>> THEN <<>>
            ELSE Comma(m_row, callers[Len(callers)]))
    /\ calls' = callers
    /\ UNCHANGED <<rows, m_row>>

Next == EmitValue \/ EmitContainer \/ Return

Spec == Init /\ [][Next]_vars

-----------------------------------------------------------------------------

Is(k, kinds) == k \in DOMAIN output /\ output[k][1] \in kinds

\* The text before token k: the brackets that are open, the innermost last.
Brackets ==
    LET Before[k \in 1 .. Len(output) + 1] ==
            CASE k = 1 -> <<>>
              [] k > 1 /\ Is(k - 1, {"{", "["}) ->
                    Append(Before[k - 1], output[k - 1][1])
              [] k > 1 /\ Is(k - 1, {"}", "]"}) ->
                    SubSeq(Before[k - 1], 1, Len(Before[k - 1]) - 1)
              [] OTHER -> Before[k - 1]
    IN  Before

\* The tokens that stand for a row, in their order.
Entries ==
    SelectSeq([k \in 1 .. Len(output) - 1 |-> k + 1],
              LAMBDA k : Is(k, {"value", "{", "["}))

SameNumber(digits, others) ==
    LET Place(s, i) == IF i < Len(s) THEN s[Len(s) - i] ELSE 0
    IN  \A i \in 0 .. Len(digits) + Len(others) :
            Place(digits, i) = Place(others, i)

(***************************************************************************)
(* The finished text is JSON: brackets match, members of objects and only  *)
(* these have names, and there is one comma between neighbours.  Read back *)
(* it has the rows of the transaction, with their nesting and the numbers  *)
(* they had.                                                               *)
(***************************************************************************)
ReadsBack ==
    calls = <<>> =>
        LET open == Brackets
            Named(k) == open[k][Len(open[k])] = "{"
        IN  /\ open[Len(output) + 1] = <<>>
            /\ \A k \in 2 .. Len(output) :
                  /\ Is(k, {"}", "name"}) => Named(k)
                  /\ Is(k, {"]"}) => ~Named(k)
                  /\ Is(k, {"name"}) => Is(k - 1, {",", "{"})
                  /\ Is(k, {"value", "{", "["}) =>
                        Is(k - 1, IF Named(k) THEN {"name"} ELSE {",", "["})
                  /\ Is(k, {",", "]", "}"}) => ~Is(k - 1, {",", "name"})
            /\ Len(Entries) = Len(rows)
            /\ \A n \in DOMAIN rows :
                  LET k == Entries[n] IN
                  /\ Len(open[k]) = rows[n].level + 1
                  /\ Named(k) => output[k - 1][2] = rows[n].name
                  /\ Is(k, {"value"}) /\ rows[n].prefix # "" =>
                        SameNumber(output[k][4], rows[n].digits)

=============================================================================
