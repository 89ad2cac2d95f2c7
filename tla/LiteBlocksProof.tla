--------------------------- MODULE LiteBlocksProof ---------------------------
(***************************************************************************)
(* Theorems about the blocks of AXI4-Lite.                                 *)
(*   - The bus (LiteBus), for every map, every number of slaves and every  *)
(*     depth of its queues: it answers in order.                           *)
(*   - The way of a write to Avalon-MM (LiteWriteBridge), for every set of *)
(*     addresses and of words: address and data stay together, and each of *)
(*     the two channels is a FIFO that delivers with `write'.              *)
(***************************************************************************)
EXTENDS MCLiteBlocks, Rows

-----------------------------------------------------------------------------
\* Rows of words, counted.

\* Words on the ports of the bus and in its queues.
Requests == [address : ADDRESSES, number : {0, 1}]

SlaveIds == [valid : BOOLEAN, value : Bus!Slaves]

BusWords == Requests \cup SlaveIds \cup {0, 1}

\* A number that grows when a thing happens.
Rises(x, y, b) == y = IF b THEN x + 1 ELSE x

\* The numbers of the requests and of the data: 0, 1, 0, 1 ...
Numbers == [n \in Nat |-> (n - 1) % 2]

\* What the decoder makes of each request.
IdsOf(h) == [n \in Nat |-> Bus!SlaveId(h[n].address)]

\* A row of words holds those after number low, up to number high.
Holds(row, f, low, high) ==
    /\ Len(row) = high - low
    /\ \A i \in 1 .. Len(row) : row[i] = f[low + i]

\* Every set of slaves has a last one.
LEMMA Largest ==
    ASSUME NEW N \in Nat, NEW S \in SUBSET (0 .. N - 1), S # {}
    PROVE  \E k \in S : \A j \in S : j <= k
<1> DEFINE T == {n \in Nat : N - 1 - n \in S}
<1>1. T # {}
  <2>1. PICK k \in S : TRUE
    OBVIOUS
  <2>2. N - 1 - k \in T
    BY <2>1
  <2> QED
    BY <2>2
<1>2. PICK n \in T : \A m \in T : n <= m
  BY <1>1, Smallest
<1>3. ASSUME NEW j \in S PROVE j <= N - 1 - n
  <2>1. N - 1 - j \in T /\ j \in Nat
    OBVIOUS
  <2>2. n <= N - 1 - j
    BY <1>2, <2>1
  <2> QED
    BY <2>1, <2>2
<1> QED
  BY <1>2, <1>3

\* A slave number is that of a slave that has the address, if there is one.
LEMMA SlaveIdType ==
    ASSUME NEW a
    PROVE  /\ Bus!SlaveId(a) \in SlaveIds
           /\ Bus!SlaveId(a).valid =>
                 /\ Bus!SlaveId(a).value \in Bus!Slaves
                 /\ Bus!InMap(Bus!SlaveId(a).value, a)
           /\ ~Bus!SlaveId(a).valid =>
                 {k \in Bus!Slaves : Bus!InMap(k, a)} = {}
<1> DEFINE mapped == {k \in Bus!Slaves : Bus!InMap(k, a)}
           last == CHOOSE k \in mapped : \A j \in mapped : j <= k
<1>1. SLAVES \in Nat /\ SLAVES >= 1
  BY BusAssumption DEF Bus!Parameters
<1>2. CASE mapped = {}
  <2>1. Bus!SlaveId(a) = [valid |-> FALSE, value |-> 0]
    BY <1>2 DEF Bus!SlaveId
  <2> QED
    BY <1>1, <1>2, <2>1 DEF SlaveIds, Bus!Slaves
<1>3. CASE mapped # {}
  <2>1. last \in mapped
    <3>1. mapped \in SUBSET (0 .. SLAVES - 1)
      BY DEF Bus!Slaves
    <3>2. \E k \in mapped : \A j \in mapped : j <= k
      BY <1>1, <1>3, <3>1, Largest
    <3> QED
      BY <3>2
  <2>2. Bus!SlaveId(a) = [valid |-> TRUE, value |-> last]
    BY <1>3 DEF Bus!SlaveId
  <2> QED
    BY <2>1, <2>2 DEF SlaveIds
<1> QED
  BY <1>2, <1>3

\* An empty row.
LEMMA HoldsNothing ==
    ASSUME NEW f, NEW n \in Nat
    PROVE  Holds(<<>>, f, n, n)
BY DEF Holds

\* What comes after the last word of a row does not matter to it.
LEMMA HoldsSame ==
    ASSUME NEW S, NEW row \in Seq(S), NEW f, NEW g,
           NEW low \in Nat, NEW high \in Nat,
           Holds(row, f, low, high), \A n \in 1 .. high : f[n] = g[n]
    PROVE  Holds(row, g, low, high)
<1>1. Len(row) \in Nat
  BY LenProperties
<1>2. ASSUME NEW i \in 1 .. Len(row) PROVE row[i] = g[low + i]
  <2>1. low + i \in 1 .. high
    BY <1>1 DEF Holds
  <2> QED
    BY <2>1 DEF Holds
<1> QED
  BY <1>2 DEF Holds

\* A word leaves the row ...
LEMMA HoldsTail ==
    ASSUME NEW S, NEW row \in Seq(S), row # <<>>, NEW f,
           NEW low \in Nat, NEW high \in Nat, Holds(row, f, low, high)
    PROVE  /\ low < high
           /\ Head(row) = f[low + 1]
           /\ Holds(Tail(row), f, low + 1, high)
<1>1. Len(row) \in Nat /\ Len(row) >= 1
  BY EmptySeq
<1>2. /\ Tail(row) \in Seq(S)
      /\ Len(Tail(row)) = Len(row) - 1
      /\ \A i \in 1 .. Len(Tail(row)) : Tail(row)[i] = row[i + 1]
  BY HeadTailProperties
<1>3. low < high
  BY <1>1 DEF Holds
<1>4. Head(row) = f[low + 1]
  <2>1. Head(row) = row[1]
    OBVIOUS
  <2> QED
    BY <1>1, <2>1 DEF Holds
<1>5. ASSUME NEW i \in 1 .. Len(Tail(row)) PROVE Tail(row)[i] = f[low + 1 + i]
  <2>1. i + 1 \in 1 .. Len(row) /\ low + (i + 1) = low + 1 + i
    BY <1>1, <1>2
  <2>2. row[i + 1] = f[low + (i + 1)]
    BY <2>1 DEF Holds
  <2> QED
    BY <1>2, <2>1, <2>2
<1>6. Len(Tail(row)) = high - (low + 1)
  BY <1>2 DEF Holds
<1> QED
  BY <1>3, <1>4, <1>5, <1>6 DEF Holds

\* ... and one enters it.
LEMMA HoldsMore ==
    ASSUME NEW S, NEW row \in Seq(S), NEW word \in S, NEW f,
           NEW low \in Nat, NEW high \in Nat, Holds(row, f, low, high),
           word = f[high + 1]
    PROVE  Holds(row \o <<word>>, f, low, high + 1)
<1>1. <<word>> \in Seq(S) /\ Len(<<word>>) = 1 /\ <<word>>[1] = word
  OBVIOUS
<1>2. Len(row) \in Nat /\ Len(row) = high - low
  BY LenProperties DEF Holds
<1>3. /\ Len(row \o <<word>>) = Len(row) + 1
      /\ \A i \in 1 .. Len(row) + 1 : (row \o <<word>>)[i] =
             IF i <= Len(row) THEN row[i] ELSE <<word>>[i - Len(row)]
  BY <1>1, ConcatProperties
<1>4. ASSUME NEW i \in 1 .. Len(row) + 1
      PROVE  (row \o <<word>>)[i] = f[low + i]
  <2>1. CASE i <= Len(row)
    <3>1. i \in 1 .. Len(row)
      BY <1>2, <2>1
    <3> QED
      BY <1>3, <2>1, <3>1 DEF Holds
  <2>2. CASE ~(i <= Len(row))
    <3>1. i - Len(row) = 1 /\ low + i = high + 1
      BY <1>2, <2>2
    <3> QED
      BY <1>1, <1>3, <2>2, <3>1
  <2> QED
    BY <2>1, <2>2
<1>5. Len(row \o <<word>>) = high + 1 - low
  BY <1>2, <1>3
<1> HIDE DEF Holds
<1> QED
  BY <1>3, <1>4, <1>5 DEF Holds

\* A clock of a queue and of the register before it: words are taken up to
\* low2, and enter up to high2.
Clocked(S, row, waiting, f, low, low2, high, high2, rest, queue, coming) ==
    /\ \/ low2 = low + 1 /\ row # <<>> /\ rest = Tail(row)
       \/ low2 = low /\ rest = row
    /\ \/ /\ high2 = high + 1 /\ f[high2] \in S
          /\ queue = Row(rest, waiting) /\ coming = <<f[high2]>>
       \/ high2 = high /\ queue = Row(rest, waiting) /\ coming = <<>>
       \/ high2 = high /\ queue = rest /\ coming = waiting

\* A clock keeps the words in their order.
LEMMA LineStep ==
    ASSUME NEW S, NEW row \in Seq(S), NEW waiting \in Seq(S),
           NEW f, NEW low \in Nat, NEW low2, NEW high \in Nat, NEW high2,
           Holds(Row(row, waiting), f, low, high),
           NEW rest, NEW queue, NEW coming,
           Clocked(S, row, waiting, f, low, low2, high, high2, rest, queue, coming)
    PROVE  /\ Holds(Row(queue, coming), f, low2, high2)
           /\ low2 <= high
           /\ queue \in Seq(S)
           /\ coming \in Seq(S)
<1> DEFINE left == Row(rest, waiting)
<1>1. Row(row, waiting) \in Seq(S)
  BY RowSeq
<1>2. /\ rest \in Seq(S)
      /\ left \in Seq(S)
      /\ Holds(left, f, low2, high)
      /\ low2 <= high
      /\ low2 \in Nat
  <2>1. CASE low2 = low + 1 /\ row # <<>> /\ rest = Tail(row)
    <3>1. rest \in Seq(S)
      BY <2>1, HeadTailProperties
    <3>2. left \in Seq(S)
      BY <3>1, RowSeq
    <3>3. Row(row, waiting) # <<>> /\ Tail(Row(row, waiting)) = left
      BY <2>1, RowTail
    <3>4. Holds(Tail(Row(row, waiting)), f, low + 1, high) /\ low < high
      BY <1>1, <3>3, HoldsTail
    <3>5. low2 <= high /\ low2 \in Nat
      BY <2>1, <3>4
    <3> HIDE DEF left
    <3>6. Holds(left, f, low2, high)
      BY <2>1, <3>3, <3>4
    <3> QED
      BY <3>1, <3>2, <3>5, <3>6
  <2>2. CASE low2 = low /\ rest = row
    <3>1. Len(Row(row, waiting)) \in Nat
      BY <1>1, LenProperties
    <3>2. low <= high
      BY <3>1 DEF Holds
    <3> QED
      BY <1>1, <2>2, <3>2
  <2> QED
    BY <2>1, <2>2 DEF Clocked
<1> HIDE DEF left
<1>3. CASE high2 = high + 1 /\ f[high2] \in S /\ queue = left /\ coming = <<f[high2]>>
  <2> DEFINE word == f[high2]
  <2>1. word \in S /\ coming = <<word>> /\ word = f[high + 1]
    BY <1>3
  <2> HIDE DEF word
  <2>2. Holds(left \o <<word>>, f, low2, high + 1)
    BY <1>2, <2>1, HoldsMore
  <2>3. coming \in Seq(S)
    BY <2>1, Single
  <2> QED
    BY <1>2, <1>3, <2>1, <2>2, <2>3 DEF Row
<1>4. CASE high2 = high /\ queue = left /\ coming = <<>>
  <2>1. Row(left, <<>>) = left
    BY <1>2, RowEmpty
  <2>2. <<>> \in Seq(S)
    OBVIOUS
  <2> QED
    BY <1>2, <1>4, <2>1, <2>2
<1>5. CASE high2 = high /\ queue = rest /\ coming = waiting
  BY <1>2, <1>5 DEF left
<1> QED
  BY <1>3, <1>4, <1>5 DEF Clocked, left

-----------------------------------------------------------------------------
\* The invariant of the bus.

(***************************************************************************)
(* What has happened so far, as numbers of requests ...                    *)
(***************************************************************************)
Counts == [asked : Nat, forked : Nat, passed : Nat, given : Nat, entered : Nat,
           written : Nat, selected : Nat, delivered : Nat]

\* ... and, by slave, the numbers of the words in its places.
Places == [answered : [Bus!Slaves -> Nat],
           job : [Bus!Slaves -> Nat], to_slave : [Bus!Slaves -> Nat],
           given : [Bus!Slaves -> Nat], w_slave : [Bus!Slaves -> Nat]]

\* Request n is one for slave k.
For(h, n, k) ==
    Bus!SlaveId(h[n].address).valid /\ Bus!SlaveId(h[n].address).value = k

\* A queue and the register of the decoder before it.
Line(s) == Row(fifo[s], decoded[s])

\* The types that the proof needs.
BusType ==
    /\ path \in {"write", "read"}
    /\ request \in Seq(Requests) /\ Len(request) <= 1
    /\ data \in Seq({0, 1}) /\ Len(data) <= 1
    /\ bready \in BOOLEAN
    /\ fifo \in [Bus!Streams -> Seq(BusWords)]
    /\ decoded \in [Bus!Streams -> Seq(BusWords)]
    /\ shown \in [Bus!Streams -> BOOLEAN]
    /\ ready \in [Bus!Streams -> BOOLEAN]
    /\ owed \in Seq(Requests)
    /\ asked \in {0, 1} /\ gave \in {0, 1}
    /\ \A s \in Bus!Streams : shown[s] => fifo[s] # <<>>

\* The requests so far, those of them that wait, and those without a response.
Asking(h, c) ==
    /\ \A n \in 1 .. c.asked : h[n] \in Requests /\ h[n].number = Numbers[n]
    /\ asked = Numbers[c.asked + 1]
    /\ Holds(request, h, c.forked, c.asked)
    /\ Holds(owed, h, c.delivered, c.asked)

\* The data, whose numbers are those of their requests.
Giving(c) ==
    /\ gave = Numbers[c.given + 1]
    /\ Holds(data, Numbers, c.entered, c.given)

\* Each queue has the words between two counts, none missing.
Queued(h, c) ==
    /\ Holds(Line("request"), h, c.passed, c.forked)
    /\ Holds(Line("address"), IdsOf(h), c.passed, c.forked)
    /\ Holds(Line("response"), IdsOf(h), c.selected, c.forked)
    /\ path = "write" =>
          /\ Holds(Line("data"), IdsOf(h), c.written, c.forked)
          /\ Holds(Line("wdata"), Numbers, c.written, c.entered)

\* The response on the port is that to the oldest request.
Responding(h, c) ==
    IF response = <<>>
      THEN c.selected = c.delivered
      ELSE /\ c.selected = c.delivered + 1
           /\ Bus!Answers(response[1], h[c.selected])

(***************************************************************************)
(* Two places in a row before a slave, with the numbers i and j of their   *)
(* words: all words for the slave between low and high, and in order.      *)
(***************************************************************************)
Pair(h, k, low, high, first, i, second, j) ==
    /\ low <= high
    /\ first # <<>> => i \in low + 1 .. high /\ For(h, i, k)
    /\ second # <<>> => j \in low + 1 .. high /\ For(h, j, k)
    /\ first # <<>> /\ second # <<>> => i < j
    /\ \A n \in low + 1 .. high : For(h, n, k) =>
          \/ first # <<>> /\ n = i
          \/ second # <<>> /\ n = j

\* The requests that a slave has, or will have next ...
Serving(h, c, p, k) ==
    /\ Pair(h, k, p.answered[k], c.passed, job[k], p.job[k], to_slave[k], p.to_slave[k])
    /\ job[k] # <<>> => job[k] = <<h[p.job[k]]>>
    /\ to_slave[k] # <<>> => to_slave[k] = <<h[p.to_slave[k]]>>

\* ... and the data, although they come through queues of their own.
Writing(h, c, p, k) ==
    /\ Pair(h, k, p.answered[k], c.written, given[k], p.given[k], w_slave[k], p.w_slave[k])
    /\ given[k] # <<>> => given[k] = <<Numbers[p.given[k]]>>
    /\ w_slave[k] # <<>> => w_slave[k] = <<Numbers[p.w_slave[k]]>>

\* The right answer of slave k to request n.
AnswerOf(h, n, k) == [slave |-> k, request |-> h[n], data |-> h[n].number]

(***************************************************************************)
(* The last request that the slave answered is waiting to be selected, or  *)
(* everything it was asked is; none before it waits.                       *)
(***************************************************************************)
Answering(h, c, last, k) ==
    /\ \A n \in last + 1 .. c.selected : ~For(h, n, k)
    /\ answer[k] = <<>> => last <= c.selected
    /\ answer[k] # <<>> =>
          /\ last > c.selected /\ last <= c.asked
          /\ For(h, last, k)
          /\ \A n \in c.selected + 1 .. last - 1 : ~For(h, n, k)
          /\ answer[k] = <<AnswerOf(h, last, k)>>

\* All of it, for a history, counts and places.
InOrder(h, c, p) ==
    /\ Asking(h, c) /\ Giving(c) /\ Queued(h, c) /\ Responding(h, c)
    /\ \A k \in Bus!Slaves :
          /\ Serving(h, c, p, k)
          /\ path = "write" => Writing(h, c, p, k)
          /\ Answering(h, c, p.answered[k], k)

(***************************************************************************)
(* The inductive invariant.  The bus has no state that says which request  *)
(* a word belongs to: there is some history of requests that fits.         *)
(***************************************************************************)
BusInv ==
    /\ BusType
    /\ \E h \in Seq(Requests), c \in Counts, p \in Places :
          Len(h) = c.asked /\ InOrder(h, c, p)

-----------------------------------------------------------------------------
\* A clock: what enters the queues and what is taken from them.

\* The decoder forks the request on the port, and passes the data on.
Loaded == request # <<>> /\ \A s \in Bus!Forked : ready[s]

Entered == data # <<>> /\ \A s \in Bus!Ids \cup {"wdata"} : ready[s]

\* How a clock changes the counts ...
Counted(c, d) ==
    /\ Rises(c.asked, d.asked, asked' # asked)
    /\ Rises(c.forked, d.forked, Loaded)
    /\ Rises(c.passed, d.passed, Bus!Taken("request"))
    /\ Rises(c.given, d.given, gave' # gave)
    /\ Rises(c.entered, d.entered, Entered)
    /\ Rises(c.written, d.written, path = "write" /\ Bus!Taken("wdata"))
    /\ Rises(c.selected, d.selected, bready /\ Bus!Answered)
    /\ Rises(c.delivered, d.delivered, bready /\ response # <<>>)

\* ... and the places.
Placed(p, c, answering, q) ==
    q = [answered |-> [k \in Bus!Slaves |-> IF k \in answering THEN p.job[k]
                                                               ELSE p.answered[k]],
         job      |-> [k \in Bus!Slaves |-> IF job[k] = <<>> THEN p.to_slave[k]
                                                             ELSE p.job[k]],
         to_slave |-> [k \in Bus!Slaves |-> IF job[k] = <<>> THEN c.passed + 1
                                                             ELSE p.to_slave[k]],
         given    |-> [k \in Bus!Slaves |-> IF given[k] = <<>> THEN p.w_slave[k]
                                                               ELSE p.given[k]],
         w_slave  |-> [k \in Bus!Slaves |-> IF given[k] = <<>> THEN c.written + 1
                                                               ELSE p.w_slave[k]]]

\* A clock, seen from the history that has the new request already.
Stepping(h, c, d, p) ==
    /\ BusType /\ Bus!Clock
    /\ InOrder(h, c, p) /\ Counted(c, d)
    /\ asked' # asked => request' = <<h[c.asked + 1]>> /\ h[c.asked + 1] \in Requests

\* There are such counts ...
LEMMA Count ==
    ASSUME NEW c \in Counts
    PROVE  \E d \in Counts : Counted(c, d)
<1> DEFINE d == [asked     |-> IF asked' # asked THEN c.asked + 1 ELSE c.asked,
                 forked    |-> IF Loaded THEN c.forked + 1 ELSE c.forked,
                 passed    |-> IF Bus!Taken("request") THEN c.passed + 1 ELSE c.passed,
                 given     |-> IF gave' # gave THEN c.given + 1 ELSE c.given,
                 entered   |-> IF Entered THEN c.entered + 1 ELSE c.entered,
                 written   |-> IF path = "write" /\ Bus!Taken("wdata")
                               THEN c.written + 1 ELSE c.written,
                 selected  |-> IF bready /\ Bus!Answered THEN c.selected + 1
                                                         ELSE c.selected,
                 delivered |-> IF bready /\ response # <<>> THEN c.delivered + 1
                                                            ELSE c.delivered]
<1>1. PICK e : e = d
  OBVIOUS
<1>2. Counted(c, e)
  BY <1>1 DEF Counted, Rises
<1>3. e \in Counts
  <2>1. /\ c.asked \in Nat /\ c.forked \in Nat /\ c.passed \in Nat
        /\ c.given \in Nat /\ c.entered \in Nat /\ c.written \in Nat
        /\ c.selected \in Nat /\ c.delivered \in Nat
    BY DEF Counts
  <2>2. /\ e.asked \in Nat /\ e.forked \in Nat /\ e.passed \in Nat
        /\ e.given \in Nat /\ e.entered \in Nat /\ e.written \in Nat
        /\ e.selected \in Nat /\ e.delivered \in Nat
    <3>1. e.asked \in Nat /\ e.forked \in Nat
      BY <1>2, <2>1 DEF Counted, Rises
    <3>2. e.passed \in Nat /\ e.given \in Nat
      BY <1>2, <2>1 DEF Counted, Rises
    <3>3. e.entered \in Nat /\ e.written \in Nat
      BY <1>2, <2>1 DEF Counted, Rises
    <3>4. e.selected \in Nat /\ e.delivered \in Nat
      BY <1>2, <2>1 DEF Counted, Rises
    <3> QED
      BY <3>1, <3>2, <3>3, <3>4
  <2> HIDE DEF d
  <2> QED
    BY <1>1, <2>2 DEF Counts, d
<1> QED
  BY <1>2, <1>3

\* ... and such places.
LEMMA PlacedType ==
    ASSUME NEW p \in Places, NEW c \in Counts, NEW answering, NEW q,
           Placed(p, c, answering, q)
    PROVE  q \in Places
<1>1. \A k \in Bus!Slaves :
         /\ p.answered[k] \in Nat /\ p.job[k] \in Nat /\ p.to_slave[k] \in Nat
         /\ p.given[k] \in Nat /\ p.w_slave[k] \in Nat
  BY DEF Places
<1>2. c.passed + 1 \in Nat /\ c.written + 1 \in Nat
  BY DEF Counts
<1>3. /\ q.answered \in [Bus!Slaves -> Nat]
      /\ q.job \in [Bus!Slaves -> Nat] /\ q.to_slave \in [Bus!Slaves -> Nat]
      /\ q.given \in [Bus!Slaves -> Nat] /\ q.w_slave \in [Bus!Slaves -> Nat]
  BY <1>1, <1>2 DEF Placed
<1> QED
  BY <1>3 DEF Places, Placed

\* Which streams there are.
LEMMA StreamNames ==
    /\ Bus!Forked \subseteq Bus!Streams
    /\ {"request", "address", "response"} \subseteq Bus!Forked
    /\ path = "write" => Bus!Ids \cup {"wdata"} \subseteq Bus!Streams /\ "data" \in Bus!Ids
    /\ \A s \in Bus!Streams : s = "wdata" \/ s \in Bus!Forked
    /\ \A s \in Bus!Streams : s = "wdata" => path = "write"
    /\ \A s \in Bus!Forked : s # "wdata"
    /\ Bus!Ids \subseteq Bus!Forked
BY DEF Bus!Forked, Bus!Ids, Bus!Streams

\* The registers of the streams a request is forked into are loaded together.
LEMMA EntersTogether ==
    ASSUME BusType
    PROVE  /\ \A s \in Bus!Forked : ready[s] /\ Bus!Enters(s) <=> Loaded
           /\ path = "write" => (ready["wdata"] /\ Bus!Enters("wdata") <=> Entered)
<1>1. \A s \in Bus!Forked : ready[s] /\ Bus!Enters(s) <=> Loaded
  BY StreamNames DEF BusType, Bus!Enters, Loaded
<1>2. path = "write" => (ready["wdata"] /\ Bus!Enters("wdata") <=> Entered)
  BY StreamNames DEF BusType, Bus!Enters, Entered
<1> QED
  BY <1>1, <1>2

\* A request and its slave number are taken together, and so are data and theirs.
LEMMA TakenTogether ==
    /\ Bus!Taken("request") <=> shown["request"] /\ Bus!AddressPasses
    /\ Bus!Taken("address") <=> Bus!Taken("request")
    /\ Bus!Taken("wdata") <=> shown["wdata"] /\ Bus!DataPasses
    /\ Bus!Taken("data") <=> Bus!Taken("wdata")
    /\ Bus!Taken("response") <=> bready /\ Bus!Answered
<1>1. Bus!AddressPasses => shown["address"]
  BY DEF Bus!AddressPasses, Bus!Unmapped, Bus!Chosen
<1>2. Bus!DataPasses => shown["data"]
  BY DEF Bus!DataPasses, Bus!Unmapped, Bus!Chosen
<1>3. Bus!Answered => shown["response"]
  BY DEF Bus!Answered, Bus!Unmapped, Bus!Chosen
<1>4. /\ Bus!Taken("request") <=> shown["request"] /\ Bus!AddressPasses
      /\ Bus!Taken("address") <=> shown["address"] /\ shown["request"] /\ Bus!AddressPasses
  BY DEF Bus!Taken
<1>5. /\ Bus!Taken("wdata") <=> shown["wdata"] /\ Bus!DataPasses
      /\ Bus!Taken("data") <=> shown["data"] /\ shown["wdata"] /\ Bus!DataPasses
  BY DEF Bus!Taken
<1>6. Bus!Taken("response") <=> shown["response"] /\ bready /\ Bus!Answered
  BY DEF Bus!Taken
<1> QED
  BY <1>1, <1>2, <1>3, <1>4, <1>5, <1>6

\* Only words that are there are taken.
LEMMA TakenShown ==
    ASSUME BusType, NEW s \in Bus!Streams
    PROVE  /\ Bus!Taken(s) \in BOOLEAN
           /\ Bus!Taken(s) => fifo[s] # <<>>
<1>1. Bus!Taken(s) => shown[s]
  BY DEF Bus!Taken
<1>2. Bus!Taken(s) \in BOOLEAN
  BY DEF Bus!Taken
<1> QED
  BY <1>1, <1>2 DEF BusType

\* What a queue and the register before it hold after a clock.
LEMMA LineNext ==
    ASSUME BusType, Bus!Clock, NEW s \in Bus!Streams,
           NEW f, NEW low \in Nat, NEW high \in Nat, Holds(Line(s), f, low, high),
           NEW low2, Rises(low, low2, Bus!Taken(s)),
           NEW high2, Rises(high, high2, ready[s] /\ Bus!Enters(s)),
           high2 = high + 1 => Bus!Carried(s) = <<f[high2]>> /\ f[high2] \in BusWords
    PROVE  /\ Holds(Line(s)', f, low2, high2)
           /\ low2 <= high
           /\ fifo'[s] \in Seq(BusWords)
           /\ decoded'[s] \in Seq(BusWords)
<1> DEFINE row == fifo[s]
           waiting == decoded[s]
           coming == decoded'[s]
           queue == fifo'[s]
           rest == IF Bus!Taken(s) THEN Tail(row) ELSE row
<1>1. /\ row \in Seq(BusWords) /\ waiting \in Seq(BusWords)
      /\ ready[s] \in BOOLEAN
  BY DEF BusType
<1>2. queue = IF ready[s] THEN Row(rest, waiting) ELSE rest
  BY DEF Bus!Clock, Bus!Queues, Row
<1>3. coming = CASE ready[s] /\ Bus!Enters(s) -> Bus!Carried(s)
                 [] ready[s] /\ ~Bus!Enters(s) -> <<>>
                 [] OTHER -> waiting
  BY DEF Bus!Clock, Bus!Decoder
<1>4. \/ low2 = low + 1 /\ row # <<>> /\ rest = Tail(row)
      \/ low2 = low /\ rest = row
  <2>1. Bus!Taken(s) => row # <<>>
    BY TakenShown
  <2> QED
    BY <2>1 DEF Rises
<1> HIDE DEF row, waiting, coming, queue, rest
<1>5. \/ /\ high2 = high + 1 /\ f[high2] \in BusWords
         /\ queue = Row(rest, waiting) /\ coming = <<f[high2]>>
      \/ high2 = high /\ queue = Row(rest, waiting) /\ coming = <<>>
      \/ high2 = high /\ queue = rest /\ coming = waiting
  <2>1. CASE ready[s] /\ Bus!Enters(s)
    BY <1>2, <1>3, <2>1 DEF Rises
  <2>2. CASE ready[s] /\ ~Bus!Enters(s)
    BY <1>2, <1>3, <2>2 DEF Rises
  <2>3. CASE ~ready[s]
    BY <1>2, <1>3, <2>3 DEF Rises
  <2> QED
    BY <1>1, <2>1, <2>2, <2>3
<1>6. Clocked(BusWords, row, waiting, f, low, low2, high, high2, rest, queue, coming)
  BY <1>4, <1>5 DEF Clocked
<1>7. Holds(Row(row, waiting), f, low, high)
  BY DEF Line, row, waiting
<1>8. /\ Holds(Row(queue, coming), f, low2, high2)
      /\ low2 <= high
      /\ queue \in Seq(BusWords)
      /\ coming \in Seq(BusWords)
  BY <1>1, <1>6, <1>7, LineStep
<1>9. Line(s)' = Row(queue, coming)
  BY DEF Line, coming, queue
<1> QED
  BY <1>8, <1>9 DEF coming, queue

\* The row of a stream is a sequence.
LEMMA LineType ==
    ASSUME BusType, NEW s \in Bus!Streams
    PROVE  Line(s) \in Seq(BusWords) /\ Len(Line(s)) \in Nat
<1>1. fifo[s] \in Seq(BusWords) /\ decoded[s] \in Seq(BusWords)
  BY DEF BusType
<1>2. Line(s) \in Seq(BusWords)
  BY <1>1, RowSeq DEF Line
<1> QED
  BY <1>2, LenProperties

\* How far each count can be.
LEMMA Bounds ==
    ASSUME NEW h, NEW c \in Counts, NEW p, BusType, InOrder(h, c, p)
    PROVE  /\ c.delivered <= c.selected /\ c.selected <= c.forked /\ c.forked <= c.asked
           /\ c.passed <= c.forked
           /\ path = "write" => c.written <= c.forked
           /\ request = <<>> => c.forked = c.asked
           /\ request # <<>> => c.forked + 1 = c.asked /\ request = <<h[c.asked]>>
           /\ data = <<>> => c.entered = c.given
           /\ data # <<>> => c.entered + 1 = c.given /\ data = <<Numbers[c.given]>>
<1>1. /\ c.asked \in Nat /\ c.forked \in Nat /\ c.passed \in Nat /\ c.given \in Nat
      /\ c.entered \in Nat /\ c.written \in Nat /\ c.selected \in Nat
      /\ c.delivered \in Nat
  BY DEF Counts
<1>2. c.delivered <= c.selected
  BY <1>1 DEF InOrder, Responding
<1>3. c.selected <= c.forked /\ c.passed <= c.forked
  <2>1. Len(Line("response")) \in Nat /\ Len(Line("request")) \in Nat
    BY LineType, StreamNames
  <2> QED
    BY <1>1, <2>1 DEF InOrder, Queued, Holds
<1>4. path = "write" => c.written <= c.forked
  <2> SUFFICES ASSUME path = "write" PROVE c.written <= c.forked
    OBVIOUS
  <2>1. Len(Line("data")) \in Nat
    BY LineType, StreamNames
  <2> QED
    BY <1>1, <2>1 DEF InOrder, Queued, Holds
<1>5. /\ request = <<>> => c.forked = c.asked
      /\ request # <<>> => c.forked + 1 = c.asked /\ request = <<h[c.asked]>>
  <2>1. /\ request \in Seq(Requests) /\ Len(request) \in {0, 1}
        /\ request = <<>> <=> Len(request) = 0
    BY ShortSeq DEF BusType
  <2>2. /\ Len(request) = c.asked - c.forked
        /\ \A i \in 1 .. Len(request) : request[i] = h[c.forked + i]
    BY DEF InOrder, Asking, Holds
  <2>3. Len(request) = 1 => request = <<h[c.asked]>>
    <3> SUFFICES ASSUME Len(request) = 1 PROVE request = <<h[c.asked]>>
      OBVIOUS
    <3>1. request[1] = h[c.asked]
      BY <1>1, <2>2
    <3>2. request = <<request[1]>>
      BY ShortSeq DEF BusType
    <3> QED
      BY <3>1, <3>2
  <2> QED
    BY <1>1, <2>1, <2>2, <2>3
<1>6. /\ data = <<>> => c.entered = c.given
      /\ data # <<>> => c.entered + 1 = c.given /\ data = <<Numbers[c.given]>>
  <2>1. /\ data \in Seq({0, 1}) /\ Len(data) \in {0, 1}
        /\ data = <<>> <=> Len(data) = 0
    BY ShortSeq DEF BusType
  <2>2. /\ Len(data) = c.given - c.entered
        /\ \A i \in 1 .. Len(data) : data[i] = Numbers[c.entered + i]
    BY DEF InOrder, Giving, Holds
  <2>3. Len(data) = 1 => data = <<Numbers[c.given]>>
    <3> SUFFICES ASSUME Len(data) = 1 PROVE data = <<Numbers[c.given]>>
      OBVIOUS
    <3>1. data[1] = Numbers[c.given]
      BY <1>1, <2>2
    <3>2. data = <<data[1]>>
      BY ShortSeq DEF BusType
    <3> QED
      BY <3>1, <3>2
  <2> QED
    BY <1>1, <2>1, <2>2, <2>3
<1>7. c.forked <= c.asked
  BY <1>1, <1>5
<1> QED
  BY <1>2, <1>3, <1>4, <1>5, <1>6, <1>7

\* The numbers alternate.
LEMMA NumbersStep ==
    ASSUME NEW n \in Nat
    PROVE  /\ Numbers[n + 1] \in {0, 1}
           /\ Numbers[n + 2] = 1 - Numbers[n + 1]
BY DEF Numbers

\* A clock keeps the requests in order ...
LEMMA AskingStep ==
    ASSUME NEW h, NEW c \in Counts, NEW d \in Counts, NEW p, Stepping(h, c, d, p)
    PROVE  /\ Asking(h, d)'
           /\ request' \in Seq(Requests) /\ Len(request') <= 1
           /\ owed' \in Seq(Requests)
           /\ asked' \in {0, 1}
<1>1. /\ c.asked \in Nat /\ c.forked \in Nat /\ c.delivered \in Nat /\ c.selected \in Nat
      /\ d.asked \in Nat /\ d.forked \in Nat /\ d.delivered \in Nat
  BY DEF Counts
<1>2. BusType /\ Bus!Ask /\ InOrder(h, c, p)
  BY DEF Stepping, Bus!Clock
<1>3. /\ asked = Numbers[c.asked + 1]
      /\ \A n \in 1 .. c.asked : h[n] \in Requests /\ h[n].number = Numbers[n]
      /\ Holds(request, h, c.forked, c.asked)
      /\ Holds(owed, h, c.delivered, c.asked)
  BY <1>2 DEF InOrder, Asking
<1>4. /\ request = <<>> => c.forked = c.asked
      /\ request # <<>> => c.forked + 1 = c.asked /\ request = <<h[c.asked]>>
  BY <1>2, Bounds
<1>5. /\ Rises(c.asked, d.asked, asked' # asked)
      /\ Rises(c.forked, d.forked, Loaded)
      /\ Rises(c.delivered, d.delivered, bready /\ response # <<>>)
  BY DEF Stepping, Counted
<1> DEFINE left == Bus!Unanswered
<1>6. left \in Seq(Requests) /\ Holds(left, h, d.delivered, c.asked)
  <2>1. response # <<>> => owed # <<>>
    <3> SUFFICES ASSUME response # <<>> PROVE owed # <<>>
      OBVIOUS
    <3>1. c.selected = c.delivered + 1
      BY <1>2 DEF InOrder, Responding
    <3>2. c.selected <= c.asked
      <4>1. c.selected <= c.forked /\ c.forked <= c.asked
        BY <1>2, Bounds
      <4> QED
        BY <1>1, <4>1
    <3>3. Len(owed) = c.asked - c.delivered
      BY <1>3 DEF Holds
    <3>4. Len(owed) # 0
      BY <1>1, <3>1, <3>2, <3>3
    <3> QED
      BY <3>4
  <2>2. \/ d.delivered = c.delivered
        \/ d.delivered = c.delivered + 1 /\ owed # <<>>
    BY <1>5, <2>1 DEF Rises
  <2>3. left = IF d.delivered = c.delivered THEN owed ELSE Tail(owed)
    BY <1>1, <1>5 DEF Rises, Bus!Unanswered
  <2>4. owed \in Seq(Requests)
    BY <1>2 DEF BusType
  <2> HIDE DEF left
  <2>5. CASE d.delivered = c.delivered
    BY <1>3, <2>3, <2>4, <2>5
  <2>6. CASE d.delivered = c.delivered + 1 /\ owed # <<>>
    <3>1. left = Tail(owed)
      BY <1>1, <2>3, <2>6
    <3>2. Holds(Tail(owed), h, c.delivered + 1, c.asked)
      BY <1>1, <1>3, <2>4, <2>6, HoldsTail
    <3>3. Tail(owed) \in Seq(Requests)
      BY <2>4, <2>6, HeadTailProperties
    <3> QED
      BY <2>6, <3>1, <3>2, <3>3
  <2> QED
    BY <2>2, <2>5, <2>6
<1>7. CASE asked' = asked
  <2>1. /\ request' = IF Bus!AddressReady THEN <<>> ELSE request
        /\ owed' = left
    <3>1. 1 - asked # asked
      BY <1>2 DEF BusType
    <3> QED
      BY <1>2, <1>7, <3>1 DEF Bus!Ask
  <2>2. d.asked = c.asked
    BY <1>5, <1>7 DEF Rises
  <2>3. CASE Bus!AddressReady
    <3>1. d.forked = c.asked
      BY <1>1, <1>4, <1>5, <2>3 DEF Bus!AddressReady, Loaded, Rises
    <3>2. Holds(request', h, d.forked, d.asked)
      BY <1>1, <2>1, <2>2, <2>3, <3>1, HoldsNothing
    <3>3. request' \in Seq(Requests) /\ Len(request') <= 1
      BY <2>1, <2>3
    <3> HIDE DEF left
    <3> QED
      BY <1>2, <1>3, <1>6, <1>7, <2>1, <2>2, <3>2, <3>3 DEF Asking, BusType
  <2>4. CASE ~Bus!AddressReady
    <3>1. d.forked = c.forked
      BY <1>5, <2>4 DEF Bus!AddressReady, Loaded, Rises
    <3>2. Holds(request', h, d.forked, d.asked)
      BY <1>3, <2>1, <2>2, <2>4, <3>1
    <3>3. request' \in Seq(Requests) /\ Len(request') <= 1
      BY <1>2, <2>1, <2>4 DEF BusType
    <3> HIDE DEF left
    <3> QED
      BY <1>2, <1>3, <1>6, <1>7, <2>1, <2>2, <3>2, <3>3 DEF Asking, BusType
  <2> QED
    BY <2>3, <2>4
<1>8. CASE asked' # asked
  <2> DEFINE new == h[c.asked + 1]
  <2>1. /\ Bus!AddressReady
        /\ \E a \in ADDRESSES : request' = <<[address |-> a, number |-> asked]>>
        /\ owed' = left \o request'
        /\ asked' = 1 - asked
    BY <1>2, <1>8 DEF Bus!Ask
  <2>2. request' = <<new>> /\ new \in Requests
    BY <1>8 DEF Stepping
  <2>3. new.number = Numbers[c.asked + 1]
    <3>1. PICK a \in ADDRESSES : request' = <<[address |-> a, number |-> asked]>>
      BY <2>1
    <3>2. new = [address |-> a, number |-> asked]
      BY <2>2, <3>1
    <3> QED
      BY <1>3, <3>2
  <2>4. d.asked = c.asked + 1
    BY <1>5, <1>8 DEF Rises
  <2>5. d.forked = c.asked
    BY <1>1, <1>4, <1>5, <2>1 DEF Bus!AddressReady, Loaded, Rises
  <2>6. \A n \in 1 .. d.asked : h[n] \in Requests /\ h[n].number = Numbers[n]
    <3> SUFFICES ASSUME NEW n \in 1 .. d.asked
                 PROVE  h[n] \in Requests /\ h[n].number = Numbers[n]
      OBVIOUS
    <3>1. n \in 1 .. c.asked \/ n = c.asked + 1
      BY <1>1, <2>4
    <3> QED
      BY <1>3, <2>2, <2>3, <3>1
  <2>7. asked' = Numbers[d.asked + 1] /\ asked' \in {0, 1}
    <3>1. /\ Numbers[c.asked + 1] \in {0, 1}
          /\ Numbers[c.asked + 2] = 1 - Numbers[c.asked + 1]
      BY <1>1, NumbersStep
    <3>2. d.asked + 1 = c.asked + 2
      BY <1>1, <2>4
    <3> QED
      BY <1>3, <2>1, <3>1, <3>2
  <2> HIDE DEF new, left
  <2>8. <<>> \o <<new>> = <<new>>
    <3> DEFINE one == <<new>>
    <3>1. one \in Seq(Requests)
      BY <2>2, Single
    <3> HIDE DEF one
    <3>2. <<>> \o one = one
      BY <3>1, ConcatEmptySeq
    <3> QED
      BY <3>2 DEF one
  <2>9. Holds(<<new>>, h, c.asked, c.asked + 1)
    <3>1. Holds(<<>>, h, c.asked, c.asked)
      BY <1>1, HoldsNothing
    <3>2. <<>> \in Seq(Requests)
      OBVIOUS
    <3>3. new = h[c.asked + 1]
      BY DEF new
    <3>4. Holds(<<>> \o <<new>>, h, c.asked, c.asked + 1)
      BY <1>1, <2>2, <3>1, <3>2, <3>3, HoldsMore
    <3> QED
      BY <2>8, <3>4
  <2>10. Holds(owed', h, d.delivered, d.asked) /\ owed' \in Seq(Requests)
    <3>1. new = h[c.asked + 1]
      BY DEF new
    <3>2. Holds(left \o <<new>>, h, d.delivered, c.asked + 1)
      BY <1>1, <1>6, <2>2, <3>1, HoldsMore
    <3>3. left \o <<new>> \in Seq(Requests)
      <4> DEFINE one == <<new>>
      <4>1. one \in Seq(Requests)
        BY <2>2, Single
      <4> HIDE DEF one
      <4>2. left \o one \in Seq(Requests)
        BY <1>6, <4>1, ConcatProperties
      <4> QED
        BY <4>2 DEF one
    <3> QED
      BY <2>1, <2>2, <2>4, <3>2, <3>3
  <2>11. request' \in Seq(Requests) /\ Len(request') <= 1
    BY <2>2
  <2>12. Holds(request', h, d.forked, d.asked)
    BY <2>2, <2>4, <2>5, <2>9
  <2> QED
    BY <2>6, <2>7, <2>10, <2>11, <2>12 DEF Asking
<1> QED
  BY <1>7, <1>8

\* ... and the data ...
LEMMA GivingStep ==
    ASSUME NEW h, NEW c \in Counts, NEW d \in Counts, NEW p, Stepping(h, c, d, p)
    PROVE  /\ Giving(d)'
           /\ data' \in Seq({0, 1}) /\ Len(data') <= 1
           /\ gave' \in {0, 1}
<1>1. c.given \in Nat /\ c.entered \in Nat /\ d.given \in Nat /\ d.entered \in Nat
  BY DEF Counts
<1>2. BusType /\ Bus!Give /\ InOrder(h, c, p)
  BY DEF Stepping, Bus!Clock
<1>3. /\ gave = Numbers[c.given + 1]
      /\ Holds(data, Numbers, c.entered, c.given)
  BY <1>2 DEF InOrder, Giving
<1>4. /\ data = <<>> => c.entered = c.given
      /\ data # <<>> => c.entered + 1 = c.given
  BY <1>2, Bounds
<1>5. /\ Rises(c.given, d.given, gave' # gave)
      /\ Rises(c.entered, d.entered, Entered)
  BY DEF Stepping, Counted
<1>6. CASE gave' = gave
  <2>1. data' = IF Bus!DataReady THEN <<>> ELSE data
    <3>1. 1 - gave # gave
      BY <1>2 DEF BusType
    <3> QED
      BY <1>2, <1>6, <3>1 DEF Bus!Give
  <2>2. d.given = c.given
    BY <1>5, <1>6 DEF Rises
  <2>3. CASE Bus!DataReady
    <3>1. d.entered = c.given
      BY <1>1, <1>4, <1>5, <2>3 DEF Bus!DataReady, Entered, Rises
    <3>2. Holds(data', Numbers, d.entered, d.given)
      BY <1>1, <2>1, <2>2, <2>3, <3>1, HoldsNothing
    <3>3. data' \in Seq({0, 1}) /\ Len(data') <= 1
      BY <2>1, <2>3
    <3> QED
      BY <1>2, <1>3, <1>6, <2>2, <3>2, <3>3 DEF Giving, BusType
  <2>4. CASE ~Bus!DataReady
    <3>1. d.entered = c.entered
      BY <1>5, <2>4 DEF Bus!DataReady, Entered, Rises
    <3>2. Holds(data', Numbers, d.entered, d.given)
      BY <1>3, <2>1, <2>2, <2>4, <3>1
    <3>3. data' \in Seq({0, 1}) /\ Len(data') <= 1
      BY <1>2, <2>1, <2>4 DEF BusType
    <3> QED
      BY <1>2, <1>3, <1>6, <2>2, <3>2, <3>3 DEF Giving, BusType
  <2> QED
    BY <2>3, <2>4
<1>7. CASE gave' # gave
  <2>1. Bus!DataReady /\ data' = <<gave>> /\ gave' = 1 - gave
    BY <1>2, <1>7 DEF Bus!Give
  <2>2. d.given = c.given + 1
    BY <1>5, <1>7 DEF Rises
  <2>3. d.entered = c.given
    BY <1>1, <1>4, <1>5, <2>1 DEF Bus!DataReady, Entered, Rises
  <2>4. gave' = Numbers[d.given + 1] /\ gave' \in {0, 1} /\ gave \in {0, 1}
    <3>1. /\ Numbers[c.given + 1] \in {0, 1}
          /\ Numbers[c.given + 2] = 1 - Numbers[c.given + 1]
      BY <1>1, NumbersStep
    <3>2. d.given + 1 = c.given + 2
      BY <1>1, <2>2
    <3> QED
      BY <1>3, <2>1, <3>1, <3>2
  <2>5. Holds(data', Numbers, d.entered, d.given)
    <3>1. Len(data') = 1 /\ data'[1] = gave
      BY <2>1
    <3>2. gave = Numbers[d.entered + 1]
      BY <1>3, <2>3
    <3>3. \A i \in 1 .. Len(data') : data'[i] = Numbers[d.entered + i]
      BY <3>1, <3>2
    <3>4. d.given - d.entered = 1
      BY <1>1, <2>2, <2>3
    <3> QED
      BY <3>1, <3>3, <3>4 DEF Holds
  <2>6. data' \in Seq({0, 1}) /\ Len(data') <= 1
    BY <2>1, <2>4
  <2> QED
    BY <2>4, <2>5, <2>6 DEF Giving
<1> QED
  BY <1>6, <1>7

\* The word that a queue shows.
LEMMA ShownWord ==
    ASSUME BusType, NEW s \in Bus!Streams, fifo[s] # <<>>,
           NEW f, NEW low \in Nat, NEW high \in Nat, Holds(Line(s), f, low, high)
    PROVE  low < high /\ Head(fifo[s]) = f[low + 1]
<1> DEFINE row == fifo[s]
           waiting == decoded[s]
<1>1. row \in Seq(BusWords) /\ waiting \in Seq(BusWords) /\ row # <<>>
  BY DEF BusType
<1>2. Holds(Row(row, waiting), f, low, high)
  BY DEF Line
<1> HIDE DEF row, waiting
<1>3. /\ Row(row, waiting) # <<>> /\ Head(Row(row, waiting)) = Head(row)
      /\ Row(row, waiting) \in Seq(BusWords)
  BY <1>1, RowTail, RowSeq
<1>4. low < high /\ Head(Row(row, waiting)) = f[low + 1]
  BY <1>2, <1>3, HoldsTail
<1> QED
  BY <1>3, <1>4 DEF row

\* Slave numbers are words of the queues.
LEMMA IdsType ==
    ASSUME NEW h, NEW n \in Nat
    PROVE  /\ IdsOf(h)[n] = Bus!SlaveId(h[n].address)
           /\ IdsOf(h)[n] \in BusWords
BY SlaveIdType DEF IdsOf, BusWords

\* What the streams have to carry.
LEMMA CarriedWords ==
    ASSUME NEW h, NEW c \in Counts, NEW p, BusType, InOrder(h, c, p)
    PROVE  /\ Loaded =>
                /\ Bus!Carried("request") = <<h[c.forked + 1]>>
                /\ h[c.forked + 1] \in BusWords
                /\ \A s \in Bus!Ids : /\ Bus!Carried(s) = <<IdsOf(h)[c.forked + 1]>>
                                      /\ IdsOf(h)[c.forked + 1] \in BusWords
           /\ Entered => /\ Bus!Carried("wdata") = <<Numbers[c.entered + 1]>>
                         /\ Numbers[c.entered + 1] \in BusWords
<1>1. c.asked \in Nat /\ c.forked \in Nat /\ c.given \in Nat /\ c.entered \in Nat
  BY DEF Counts
<1>2. ASSUME Loaded
      PROVE  /\ Bus!Carried("request") = <<h[c.forked + 1]>>
             /\ h[c.forked + 1] \in BusWords
             /\ \A s \in Bus!Ids : /\ Bus!Carried(s) = <<IdsOf(h)[c.forked + 1]>>
                                   /\ IdsOf(h)[c.forked + 1] \in BusWords
  <2>1. c.forked + 1 = c.asked /\ request = <<h[c.asked]>>
    BY <1>2, Bounds DEF Loaded
  <2>2. c.asked \in 1 .. c.asked
    BY <1>1, <2>1
  <2>3. h[c.asked] \in Requests
    BY <2>2 DEF InOrder, Asking
  <2>4. Bus!Carried("request") = request
    BY DEF Bus!Carried
  <2>5. \A s \in Bus!Ids : Bus!Carried(s) = <<Bus!SlaveId(request[1].address)>>
    BY DEF Bus!Carried, Bus!Ids
  <2>6. request[1] = h[c.asked]
    BY <2>1
  <2>7. IdsOf(h)[c.asked] = Bus!SlaveId(h[c.asked].address) /\ IdsOf(h)[c.asked] \in BusWords
    BY <1>1, IdsType
  <2> QED
    BY <2>1, <2>3, <2>4, <2>5, <2>6, <2>7 DEF BusWords
<1>3. ASSUME Entered
      PROVE  /\ Bus!Carried("wdata") = <<Numbers[c.entered + 1]>>
             /\ Numbers[c.entered + 1] \in BusWords
  <2>1. c.entered + 1 = c.given /\ data = <<Numbers[c.given]>>
    BY <1>3, Bounds DEF Entered
  <2>2. Bus!Carried("wdata") = data
    BY DEF Bus!Carried
  <2>3. Numbers[c.entered + 1] \in {0, 1}
    BY <1>1, NumbersStep
  <2> QED
    BY <2>1, <2>2, <2>3 DEF BusWords
<1> QED
  BY <1>2, <1>3

\* The queues after a clock, and which requests they have served.
Lines(h, d) ==
    /\ Queued(h, d)'
    /\ \A s \in Bus!Streams : fifo'[s] \in Seq(BusWords) /\ decoded'[s] \in Seq(BusWords)

\* ... and the queues.
LEMMA QueuedStep ==
    ASSUME NEW h, NEW c \in Counts, NEW d \in Counts, NEW p, Stepping(h, c, d, p)
    PROVE  Lines(h, d)
<1>1. /\ c.forked \in Nat /\ c.passed \in Nat /\ c.entered \in Nat
      /\ c.written \in Nat /\ c.selected \in Nat
  BY DEF Counts
<1>2. BusType /\ Bus!Clock /\ InOrder(h, c, p) /\ Queued(h, c)
  BY DEF Stepping, InOrder
<1>3. /\ Rises(c.forked, d.forked, Loaded)
      /\ Rises(c.passed, d.passed, Bus!Taken("request"))
      /\ Rises(c.entered, d.entered, Entered)
      /\ Rises(c.written, d.written, path = "write" /\ Bus!Taken("wdata"))
      /\ Rises(c.selected, d.selected, bready /\ Bus!Answered)
  BY DEF Stepping, Counted
<1>4. ASSUME NEW s \in Bus!Forked
      PROVE  Rises(c.forked, d.forked, ready[s] /\ Bus!Enters(s))
  BY <1>2, <1>3, EntersTogether DEF Rises
<1>5. d.forked = c.forked + 1 => Loaded
  BY <1>1, <1>3 DEF Rises
<1>6. Bus!Forked \subseteq Bus!Streams /\ Bus!Ids \subseteq Bus!Forked
  BY StreamNames
<1>7. /\ Holds(Line("request")', h, d.passed, d.forked)
      /\ fifo'["request"] \in Seq(BusWords) /\ decoded'["request"] \in Seq(BusWords)
  <2>1. "request" \in Bus!Forked
    BY StreamNames
  <2>2. d.forked = c.forked + 1 =>
           Bus!Carried("request") = <<h[d.forked]>> /\ h[d.forked] \in BusWords
    BY <1>2, <1>5, CarriedWords
  <2>3. Holds(Line("request"), h, c.passed, c.forked)
    BY <1>2 DEF Queued
  <2> QED
    BY <1>1, <1>2, <1>3, <1>4, <1>6, <2>1, <2>2, <2>3, LineNext
<1>8. ASSUME NEW s \in Bus!Ids
      PROVE  d.forked = c.forked + 1 =>
                /\ Bus!Carried(s) = <<IdsOf(h)[d.forked]>>
                /\ IdsOf(h)[d.forked] \in BusWords
  BY <1>2, <1>5, CarriedWords
<1>9. /\ Holds(Line("address")', IdsOf(h), d.passed, d.forked)
      /\ fifo'["address"] \in Seq(BusWords) /\ decoded'["address"] \in Seq(BusWords)
  <2>1. "address" \in Bus!Ids
    BY DEF Bus!Ids
  <2>2. Rises(c.passed, d.passed, Bus!Taken("address"))
    BY <1>3, TakenTogether DEF Rises
  <2>3. Holds(Line("address"), IdsOf(h), c.passed, c.forked)
    BY <1>2 DEF Queued
  <2> QED
    BY <1>1, <1>2, <1>4, <1>6, <1>8, <2>1, <2>2, <2>3, LineNext
<1>10. /\ Holds(Line("response")', IdsOf(h), d.selected, d.forked)
       /\ fifo'["response"] \in Seq(BusWords) /\ decoded'["response"] \in Seq(BusWords)
  <2>1. "response" \in Bus!Ids
    BY DEF Bus!Ids
  <2>2. Rises(c.selected, d.selected, Bus!Taken("response"))
    BY <1>3, TakenTogether DEF Rises
  <2>3. Holds(Line("response"), IdsOf(h), c.selected, c.forked)
    BY <1>2 DEF Queued
  <2> QED
    BY <1>1, <1>2, <1>4, <1>6, <1>8, <2>1, <2>2, <2>3, LineNext
<1>11. ASSUME path = "write"
       PROVE  /\ Holds(Line("data")', IdsOf(h), d.written, d.forked)
              /\ fifo'["data"] \in Seq(BusWords) /\ decoded'["data"] \in Seq(BusWords)
  <2>1. "data" \in Bus!Ids
    BY <1>11, StreamNames
  <2>2. Rises(c.written, d.written, Bus!Taken("data"))
    BY <1>3, <1>11, TakenTogether DEF Rises
  <2>3. Holds(Line("data"), IdsOf(h), c.written, c.forked)
    BY <1>2, <1>11 DEF Queued
  <2> QED
    BY <1>1, <1>2, <1>4, <1>6, <1>8, <2>1, <2>2, <2>3, LineNext
<1>12. ASSUME path = "write"
       PROVE  /\ Holds(Line("wdata")', Numbers, d.written, d.entered)
              /\ fifo'["wdata"] \in Seq(BusWords) /\ decoded'["wdata"] \in Seq(BusWords)
  <2>1. "wdata" \in Bus!Streams
    BY <1>12, StreamNames
  <2>2. Rises(c.written, d.written, Bus!Taken("wdata"))
    BY <1>3, <1>12 DEF Rises
  <2>3. Rises(c.entered, d.entered, ready["wdata"] /\ Bus!Enters("wdata"))
    BY <1>2, <1>3, <1>12, EntersTogether DEF Rises
  <2>4. d.entered = c.entered + 1 =>
           Bus!Carried("wdata") = <<Numbers[d.entered]>> /\ Numbers[d.entered] \in BusWords
    <3>1. d.entered = c.entered + 1 => Entered
      BY <1>1, <1>3 DEF Rises
    <3> QED
      BY <1>2, <3>1, CarriedWords
  <2>5. Holds(Line("wdata"), Numbers, c.written, c.entered)
    BY <1>2, <1>12 DEF Queued
  <2> QED
    BY <1>1, <1>2, <2>1, <2>2, <2>3, <2>4, <2>5, LineNext
<1>13. path' = path
  BY <1>2 DEF Bus!Clock
<1>14. Queued(h, d)'
  BY <1>7, <1>9, <1>10, <1>11, <1>12, <1>13 DEF Queued
<1>15. ASSUME NEW s \in Bus!Streams
       PROVE  fifo'[s] \in Seq(BusWords) /\ decoded'[s] \in Seq(BusWords)
  <2>1. \/ s \in {"request", "address", "response"}
        \/ path = "write" /\ s \in {"data", "wdata"}
    BY DEF Bus!Streams, Bus!Forked, Bus!Ids
  <2> QED
    BY <1>7, <1>9, <1>10, <1>11, <1>12, <2>1
<1> QED
  BY <1>14, <1>15 DEF Lines

\* A clock keeps the types.
LEMMA BusTypeStep ==
    ASSUME NEW h, NEW c \in Counts, NEW d \in Counts, NEW p, Stepping(h, c, d, p)
    PROVE  BusType'
<1>1. BusType /\ Bus!Clock
  BY DEF Stepping
<1>2. path' = path /\ path' \in {"write", "read"} /\ bready' \in BOOLEAN
  BY <1>1 DEF Bus!Clock, BusType
<1>3. Bus!Streams' = Bus!Streams
  BY <1>2 DEF Bus!Streams, Bus!Forked, Bus!Ids
<1>4. /\ request' \in Seq(Requests) /\ Len(request') <= 1
      /\ owed' \in Seq(Requests) /\ asked' \in {0, 1}
  BY AskingStep
<1>5. data' \in Seq({0, 1}) /\ Len(data') <= 1 /\ gave' \in {0, 1}
  BY GivingStep
<1>6. /\ fifo' = [s \in Bus!Streams |-> fifo'[s]]
      /\ decoded' = [s \in Bus!Streams |-> decoded'[s]]
  BY <1>1 DEF Bus!Clock, Bus!Queues, Bus!Decoder
<1>7. /\ fifo' \in [Bus!Streams -> Seq(BusWords)]
      /\ decoded' \in [Bus!Streams -> Seq(BusWords)]
  BY <1>6, QueuedStep DEF Lines
<1>8. ready' \in [Bus!Streams -> BOOLEAN] /\ shown' \in [Bus!Streams -> BOOLEAN]
  BY <1>1 DEF Bus!Clock, Bus!Queues
<1>9. ASSUME NEW s \in Bus!Streams, shown'[s] PROVE fifo'[s] # <<>>
  <2> DEFINE row == fifo[s]
             waiting == decoded[s]
             rest == IF Bus!Taken(s) THEN Tail(row) ELSE row
  <2>1. rest # <<>> /\ fifo'[s] = IF ready[s] THEN Row(rest, waiting) ELSE rest
    BY <1>1, <1>9 DEF Bus!Clock, Bus!Queues, Row
  <2>2. row \in Seq(BusWords) /\ waiting \in Seq(BusWords)
    BY <1>1 DEF BusType
  <2>3. rest \in Seq(BusWords)
    <3>1. Bus!Taken(s) => row # <<>>
      BY <1>1, TakenShown
    <3> QED
      BY <2>2, <3>1, HeadTailProperties
  <2> HIDE DEF row, waiting, rest
  <2>4. Row(rest, waiting) # <<>>
    BY <2>1, <2>2, <2>3, RowTail
  <2> QED
    BY <2>1, <2>4
<1> QED
  BY <1>2, <1>3, <1>4, <1>5, <1>7, <1>8, <1>9 DEF BusType

\* The next response: that of the slave whose number the queue shows.
LEMMA NextResponse ==
    ASSUME NEW h, NEW c \in Counts, NEW p \in Places, BusType, InOrder(h, c, p),
           Bus!Answered
    PROVE  /\ c.selected < c.asked
           /\ Bus!Selected # <<>>
           /\ Bus!Answers(Bus!Selected[1], h[c.selected + 1])
           /\ \A k \in Bus!Slaves : Bus!Chosen("response", k) =>
                 answer[k] # <<>> /\ p.answered[k] = c.selected + 1
           /\ \A k \in Bus!Slaves :
                 For(h, c.selected + 1, k) => Bus!Chosen("response", k)
<1> DEFINE n == c.selected + 1
           r == h[n]
<1>1. c.asked \in Nat /\ c.forked \in Nat /\ c.selected \in Nat /\ n \in Nat
  BY DEF Counts
<1>2. shown["response"] /\ "response" \in Bus!Streams
  BY StreamNames DEF Bus!Answered, Bus!Unmapped, Bus!Chosen
<1>3. fifo["response"] # <<>>
  BY <1>2 DEF BusType
<1>4. /\ c.selected < c.forked
      /\ Bus!Id("response") = Bus!SlaveId(r.address)
  <2>1. Holds(Line("response"), IdsOf(h), c.selected, c.forked)
    BY DEF InOrder, Queued
  <2>2. c.selected < c.forked /\ Head(fifo["response"]) = IdsOf(h)[n]
    BY <1>1, <1>2, <1>3, <2>1, ShownWord
  <2> QED
    BY <1>1, <2>2, IdsType DEF Bus!Id
<1>5. c.selected < c.asked /\ n \in 1 .. c.asked
  <2>1. c.forked <= c.asked
    BY Bounds
  <2>2. c.selected < c.asked
    BY <1>1, <1>4, <2>1
  <2> QED
    BY <1>1, <2>2
<1>6. r \in Requests
  BY <1>5 DEF InOrder, Asking
<1>0. ASSUME NEW k \in Bus!Slaves, For(h, n, k) PROVE Bus!Chosen("response", k)
  BY <1>0, <1>2, <1>4 DEF Bus!Chosen, For
<1> HIDE DEF r
<1>7. CASE Bus!Unmapped("response")
  <2>1. ~Bus!SlaveId(r.address).valid
    BY <1>4, <1>7 DEF Bus!Unmapped
  <2>2. {k \in Bus!Slaves : Bus!InMap(k, r.address)} = {}
    BY <2>1, SlaveIdType
  <2>3. Bus!Selected = <<DECERR>>
    BY <1>7 DEF Bus!Selected
  <2>4. Bus!Answers(DECERR, r)
    BY <2>2 DEF Bus!Answers
  <2>5. \A k \in Bus!Slaves : ~Bus!Chosen("response", k)
    BY <1>4, <2>1 DEF Bus!Chosen
  <2> QED
    BY <1>0, <1>5, <2>3, <2>4, <2>5 DEF r
<1>8. CASE ~Bus!Unmapped("response")
  <2>1. PICK k \in Bus!Slaves : Bus!Chosen("response", k) /\ answer[k] # <<>>
    BY <1>8 DEF Bus!Answered
  <2>2. /\ Bus!SlaveId(r.address).valid /\ Bus!SlaveId(r.address).value = k
        /\ For(h, n, k)
    BY <1>4, <2>1 DEF Bus!Chosen, For, r
  <2>3. p.answered[k] = n
    <3> DEFINE last == p.answered[k]
    <3>1. last \in Nat
      BY DEF Places
    <3>2. last > c.selected /\ \A m \in c.selected + 1 .. last - 1 : ~For(h, m, k)
      BY <2>1 DEF InOrder, Answering
    <3> HIDE DEF last
    <3>3. ~(n \in c.selected + 1 .. last - 1)
      BY <2>2, <3>2
    <3>4. last = n
      BY <1>1, <3>1, <3>2, <3>3
    <3> QED
      BY <3>4 DEF last
  <2>4. answer[k] = <<AnswerOf(h, n, k)>>
    BY <2>1, <2>3 DEF InOrder, Answering
  <2>5. Bus!Selected = <<AnswerOf(h, n, k)>>
    BY <1>4, <1>8, <2>2, <2>4 DEF Bus!Selected
  <2>6. k \in {j \in Bus!Slaves : Bus!InMap(j, r.address)}
    BY <2>2, SlaveIdType
  <2>7. AnswerOf(h, n, k) # DECERR
    <3>1. r.number \in {0, 1} /\ r \in [address : ADDRESSES, number : {0, 1}]
      BY <1>6 DEF Requests
    <3>2. AnswerOf(h, n, k) \in [slave : 0 .. SLAVES - 1, data : {0, 1},
                                 request : [address : ADDRESSES, number : {0, 1}]]
      BY <3>1 DEF AnswerOf, Bus!Slaves, r
    <3> QED
      BY <3>2, BusAssumption DEF Bus!Parameters
  <2>8. Bus!Answers(AnswerOf(h, n, k), r)
    BY <2>6, <2>7 DEF Bus!Answers, AnswerOf, r
  <2>9. \A j \in Bus!Slaves : Bus!Chosen("response", j) => j = k
    BY <1>4, <2>2 DEF Bus!Chosen
  <2> QED
    BY <1>0, <1>5, <2>1, <2>3, <2>5, <2>8, <2>9 DEF r
<1> QED
  BY <1>7, <1>8

\* The response that is put on the port is that to the next request.
LEMMA RespondingStep ==
    ASSUME NEW h, NEW c \in Counts, NEW d \in Counts, NEW p \in Places,
           Stepping(h, c, d, p)
    PROVE  Responding(h, d)'
<1>1. c.selected \in Nat /\ c.delivered \in Nat
  BY DEF Counts
<1>2. BusType /\ Bus!Response /\ InOrder(h, c, p)
  BY DEF Stepping, Bus!Clock
<1>3. /\ Rises(c.selected, d.selected, bready /\ Bus!Answered)
      /\ Rises(c.delivered, d.delivered, bready /\ response # <<>>)
  BY DEF Stepping, Counted
<1>4. /\ response = <<>> => c.selected = c.delivered
      /\ response # <<>> => /\ c.selected = c.delivered + 1
                            /\ Bus!Answers(response[1], h[c.selected])
  BY <1>2 DEF InOrder, Responding
<1>5. CASE ~bready
  <2>1. response' = response
    BY <1>2, <1>5 DEF Bus!Response, BusType
  <2>2. d.selected = c.selected /\ d.delivered = c.delivered
    BY <1>3, <1>5 DEF Rises
  <2> QED
    BY <1>4, <2>1, <2>2 DEF Responding
<1>6. CASE bready
  <2>1. d.delivered = c.selected
    BY <1>3, <1>4, <1>6 DEF Rises
  <2>2. CASE Bus!Answered
    <3>1. response' = Bus!Selected
      BY <1>2, <1>6, <2>2 DEF Bus!Response
    <3>2. d.selected = c.selected + 1
      BY <1>3, <1>6, <2>2 DEF Rises
    <3>3. Bus!Selected # <<>> /\ Bus!Answers(Bus!Selected[1], h[c.selected + 1])
      BY <1>2, <2>2, NextResponse
    <3> QED
      BY <2>1, <3>1, <3>2, <3>3 DEF Responding
  <2>3. CASE ~Bus!Answered
    <3>1. response' = <<>>
      BY <1>2, <1>6, <2>3 DEF Bus!Response
    <3>2. d.selected = c.selected
      BY <1>3, <2>3 DEF Rises
    <3> QED
      BY <2>1, <3>1, <3>2 DEF Responding
  <2> QED
    BY <2>2, <2>3
<1> QED
  BY <1>5, <1>6

\* A clock of the two places of a slave: the words go through second and first.
Paired(h, k, low, low2, high, high2, first, first2, i, i2, second, second2, j, j2) ==
    /\ high2 \in {high, high + 1}
    /\ \/ /\ first = <<>>
          /\ first2 = second /\ i2 = j /\ j2 = high + 1 /\ low2 = low
          /\ second2 # <<>> => high2 = high + 1 /\ For(h, high + 1, k)
          /\ high2 = high + 1 /\ For(h, high + 1, k) => second2 # <<>>
       \/ /\ first # <<>>
          /\ second2 = second /\ i2 = i /\ j2 = j
          /\ high2 = high + 1 => ~For(h, high + 1, k)
          /\ \/ first2 = <<>> /\ low2 = i
             \/ first2 = first /\ low2 = low

\* No word for the slave is left out, and none overtakes another.
LEMMA PairStep ==
    ASSUME NEW h, NEW k, NEW low \in Nat, NEW low2, NEW high \in Nat, NEW high2,
           NEW first, NEW first2, NEW i \in Nat, NEW i2,
           NEW second, NEW second2, NEW j \in Nat, NEW j2,
           Pair(h, k, low, high, first, i, second, j),
           Paired(h, k, low, low2, high, high2, first, first2, i, i2, second, second2, j, j2)
    PROVE  Pair(h, k, low2, high2, first2, i2, second2, j2)
<1>1. high2 \in Nat /\ high <= high2 /\ (high2 = high \/ high2 = high + 1)
  BY DEF Paired
<1>2. CASE /\ first = <<>>
           /\ first2 = second /\ i2 = j /\ j2 = high + 1 /\ low2 = low
           /\ second2 # <<>> => high2 = high + 1 /\ For(h, high + 1, k)
           /\ high2 = high + 1 /\ For(h, high + 1, k) => second2 # <<>>
  <2>1. first2 # <<>> => i2 \in low2 + 1 .. high2 /\ For(h, i2, k)
    BY <1>1, <1>2 DEF Pair
  <2>2. second2 # <<>> => j2 \in low2 + 1 .. high2 /\ For(h, j2, k)
    <3>1. low <= high
      BY DEF Pair
    <3>2. ASSUME second2 # <<>> PROVE For(h, high + 1, k) /\ high2 = high + 1
      BY <1>2, <3>2
    <3> QED
      BY <1>1, <1>2, <3>1, <3>2
  <2>3. first2 # <<>> /\ second2 # <<>> => i2 < j2
    BY <1>1, <1>2, <2>1 DEF Pair
  <2>0. low2 <= high2
    BY <1>1, <1>2 DEF Pair
  <2>4. ASSUME NEW n \in low2 + 1 .. high2, For(h, n, k)
        PROVE  (first2 # <<>> /\ n = i2) \/ (second2 # <<>> /\ n = j2)
    <3>1. CASE n \in low + 1 .. high
      <4>1. (first # <<>> /\ n = i) \/ (second # <<>> /\ n = j)
        BY <2>4, <3>1 DEF Pair
      <4> QED
        BY <1>2, <4>1
    <3>2. CASE n = high + 1 /\ high2 = high + 1
      BY <1>2, <2>4, <3>2
    <3> QED
      BY <1>1, <1>2, <3>1, <3>2
  <2> QED
    BY <2>0, <2>1, <2>2, <2>3, <2>4 DEF Pair
<1>3. CASE /\ first # <<>>
           /\ second2 = second /\ i2 = i /\ j2 = j
           /\ high2 = high + 1 => ~For(h, high + 1, k)
           /\ \/ first2 = <<>> /\ low2 = i
              \/ first2 = first /\ low2 = low
  <2>1. i \in low + 1 .. high /\ For(h, i, k)
    BY <1>3 DEF Pair
  <2>2. low2 \in Nat /\ low <= low2 /\ low2 <= high2
    BY <1>1, <1>3, <2>1
  <2>3. first2 # <<>> => i2 \in low2 + 1 .. high2 /\ For(h, i2, k)
    BY <1>1, <1>3, <2>1
  <2>4. second2 # <<>> => j2 \in low2 + 1 .. high2 /\ For(h, j2, k) /\ i < j2
    BY <1>1, <1>3, <2>1 DEF Pair
  <2>5. ASSUME NEW n \in low2 + 1 .. high2, For(h, n, k)
        PROVE  (first2 # <<>> /\ n = i2) \/ (second2 # <<>> /\ n = j2)
    <3>1. n \in low + 1 .. high
      BY <1>1, <1>3, <2>2, <2>5
    <3>2. n = i \/ (second # <<>> /\ n = j)
      BY <2>5, <3>1 DEF Pair
    <3>3. n = i => first2 # <<>>
      BY <1>3, <2>1
    <3> QED
      BY <1>3, <3>2, <3>3
  <2> QED
    BY <1>3, <2>2, <2>3, <2>4, <2>5 DEF Pair
<1> QED
  BY <1>2, <1>3 DEF Paired

\* What the queues for the slaves show, and what is taken from them.
LEMMA PassedWord ==
    ASSUME NEW h, NEW c \in Counts, NEW p, BusType, InOrder(h, c, p),
           NEW k \in Bus!Slaves
    PROVE  /\ Bus!Passed("request", "address", k) # <<>> =>
                /\ Bus!Passed("request", "address", k) = <<h[c.passed + 1]>>
                /\ For(h, c.passed + 1, k)
                /\ job[k] = <<>> => Bus!Taken("request")
           /\ Bus!Taken("request") /\ For(h, c.passed + 1, k) =>
                /\ job[k] = <<>>
                /\ Bus!Passed("request", "address", k) # <<>>
<1> DEFINE n == c.passed + 1
           r == h[n]
<1>1. c.passed \in Nat /\ c.forked \in Nat /\ n \in Nat
  BY DEF Counts
<1>2. ASSUME shown["request"]
      PROVE  Head(fifo["request"]) = r
  <2>1. "request" \in Bus!Streams /\ fifo["request"] # <<>>
    BY <1>2, StreamNames DEF BusType
  <2>2. Holds(Line("request"), h, c.passed, c.forked)
    BY DEF InOrder, Queued
  <2> QED
    BY <1>1, <2>1, <2>2, ShownWord
<1>3. ASSUME shown["address"]
      PROVE  Bus!Id("address") = Bus!SlaveId(r.address)
  <2>1. "address" \in Bus!Streams /\ fifo["address"] # <<>>
    BY <1>3, StreamNames DEF BusType
  <2>2. Holds(Line("address"), IdsOf(h), c.passed, c.forked)
    BY DEF InOrder, Queued
  <2>3. Head(fifo["address"]) = IdsOf(h)[n]
    BY <1>1, <2>1, <2>2, ShownWord
  <2> QED
    BY <1>1, <2>3, IdsType DEF Bus!Id
<1>4. ASSUME Bus!Passed("request", "address", k) # <<>>
      PROVE  /\ Bus!Passed("request", "address", k) = <<r>>
             /\ For(h, n, k)
             /\ job[k] = <<>> => Bus!Taken("request")
  <2>1. shown["request"] /\ Bus!Chosen("address", k)
    BY <1>4 DEF Bus!Passed
  <2>2. shown["address"]
    BY <2>1 DEF Bus!Chosen
  <2>3. For(h, n, k)
    BY <1>3, <2>1, <2>2 DEF Bus!Chosen, For
  <2>4. job[k] = <<>> => Bus!Taken("request")
    BY <2>1, TakenTogether DEF Bus!AddressPasses
  <2> QED
    BY <1>2, <2>1, <2>3, <2>4 DEF Bus!Passed
<1>5. ASSUME Bus!Taken("request"), For(h, n, k)
      PROVE  job[k] = <<>> /\ Bus!Passed("request", "address", k) # <<>>
  <2>1. shown["request"] /\ Bus!AddressPasses
    BY <1>5, TakenTogether
  <2>2. shown["address"]
    BY <2>1 DEF Bus!AddressPasses, Bus!Unmapped, Bus!Chosen
  <2>3. Bus!Id("address").valid /\ Bus!Id("address").value = k
    BY <1>3, <1>5, <2>2 DEF For
  <2>4. Bus!Chosen("address", k) /\ job[k] = <<>>
    BY <2>1, <2>2, <2>3 DEF Bus!AddressPasses, Bus!Unmapped, Bus!Chosen
  <2> QED
    BY <2>1, <2>4 DEF Bus!Passed
<1> QED
  BY <1>4, <1>5

\* The same for the words of data.
LEMMA WrittenWord ==
    ASSUME NEW h, NEW c \in Counts, NEW p, BusType, InOrder(h, c, p),
           path = "write", NEW k \in Bus!Slaves
    PROVE  /\ Bus!Passed("wdata", "data", k) # <<>> =>
                /\ Bus!Passed("wdata", "data", k) = <<Numbers[c.written + 1]>>
                /\ For(h, c.written + 1, k)
                /\ given[k] = <<>> => Bus!Taken("wdata")
           /\ Bus!Taken("wdata") /\ For(h, c.written + 1, k) =>
                /\ given[k] = <<>>
                /\ Bus!Passed("wdata", "data", k) # <<>>
<1> DEFINE n == c.written + 1
<1>1. c.written \in Nat /\ c.forked \in Nat /\ c.entered \in Nat /\ n \in Nat
  BY DEF Counts
<1>2. ASSUME shown["wdata"]
      PROVE  Head(fifo["wdata"]) = Numbers[n]
  <2>1. "wdata" \in Bus!Streams /\ fifo["wdata"] # <<>>
    BY <1>2, StreamNames DEF BusType
  <2>2. Holds(Line("wdata"), Numbers, c.written, c.entered)
    BY DEF InOrder, Queued
  <2> QED
    BY <1>1, <2>1, <2>2, ShownWord
<1>3. ASSUME shown["data"]
      PROVE  Bus!Id("data") = Bus!SlaveId(h[n].address)
  <2>1. "data" \in Bus!Streams /\ fifo["data"] # <<>>
    BY <1>3, StreamNames DEF BusType
  <2>2. Holds(Line("data"), IdsOf(h), c.written, c.forked)
    BY DEF InOrder, Queued
  <2>3. Head(fifo["data"]) = IdsOf(h)[n]
    BY <1>1, <2>1, <2>2, ShownWord
  <2> QED
    BY <1>1, <2>3, IdsType DEF Bus!Id
<1>4. ASSUME Bus!Passed("wdata", "data", k) # <<>>
      PROVE  /\ Bus!Passed("wdata", "data", k) = <<Numbers[n]>>
             /\ For(h, n, k)
             /\ given[k] = <<>> => Bus!Taken("wdata")
  <2>1. shown["wdata"] /\ Bus!Chosen("data", k)
    BY <1>4 DEF Bus!Passed
  <2>2. shown["data"]
    BY <2>1 DEF Bus!Chosen
  <2>3. For(h, n, k)
    BY <1>3, <2>1, <2>2 DEF Bus!Chosen, For
  <2>4. given[k] = <<>> => Bus!Taken("wdata")
    BY <2>1, TakenTogether DEF Bus!DataPasses
  <2> QED
    BY <1>2, <2>1, <2>3, <2>4 DEF Bus!Passed
<1>5. ASSUME Bus!Taken("wdata"), For(h, n, k)
      PROVE  given[k] = <<>> /\ Bus!Passed("wdata", "data", k) # <<>>
  <2>1. shown["wdata"] /\ Bus!DataPasses
    BY <1>5, TakenTogether
  <2>2. shown["data"]
    BY <2>1 DEF Bus!DataPasses, Bus!Unmapped, Bus!Chosen
  <2>3. Bus!Id("data").valid /\ Bus!Id("data").value = k
    BY <1>3, <1>5, <2>2 DEF For
  <2>4. Bus!Chosen("data", k) /\ given[k] = <<>>
    BY <2>1, <2>2, <2>3 DEF Bus!DataPasses, Bus!Unmapped, Bus!Chosen
  <2> QED
    BY <2>1, <2>4 DEF Bus!Passed
<1> QED
  BY <1>4, <1>5

\* The request and the data that a slave has are those of the same number:
\* the first one after the last one that it answered.
LEMMA SameNumber ==
    ASSUME NEW h, NEW c \in Counts, NEW p \in Places, InOrder(h, c, p),
           path = "write", NEW k \in Bus!Slaves, job[k] # <<>>, given[k] # <<>>
    PROVE  p.job[k] = p.given[k]
<1> DEFINE low == p.answered[k]
           i == p.job[k]
           g == p.given[k]
<1>1. low \in Nat /\ i \in Nat /\ g \in Nat /\ p.to_slave[k] \in Nat /\ p.w_slave[k] \in Nat
  BY DEF Places
<1>2. c.passed \in Nat /\ c.written \in Nat
  BY DEF Counts
<1>3. /\ Pair(h, k, low, c.passed, job[k], i, to_slave[k], p.to_slave[k])
      /\ Pair(h, k, low, c.written, given[k], g, w_slave[k], p.w_slave[k])
  BY DEF InOrder, Serving, Writing
<1> HIDE DEF low, i, g
<1>4. /\ i \in low + 1 .. c.passed /\ For(h, i, k)
      /\ g \in low + 1 .. c.written /\ For(h, g, k)
  BY <1>3 DEF Pair
<1>5. ~(i < g)
  <2> SUFFICES ASSUME i < g PROVE FALSE
    OBVIOUS
  <2>1. i \in low + 1 .. c.written
    BY <1>1, <1>2, <1>4
  <2>2. w_slave[k] # <<>> /\ i = p.w_slave[k]
    BY <1>3, <1>4, <2>1 DEF Pair
  <2>3. g < p.w_slave[k]
    BY <1>3, <2>2 DEF Pair
  <2> QED
    BY <1>1, <2>2, <2>3
<1>6. ~(g < i)
  <2> SUFFICES ASSUME g < i PROVE FALSE
    OBVIOUS
  <2>1. g \in low + 1 .. c.passed
    BY <1>1, <1>2, <1>4
  <2>2. to_slave[k] # <<>> /\ g = p.to_slave[k]
    BY <1>3, <1>4, <2>1 DEF Pair
  <2>3. i < p.to_slave[k]
    BY <1>3, <2>2 DEF Pair
  <2> QED
    BY <1>1, <2>2, <2>3
<1>7. i = g
  BY <1>1, <1>5, <1>6
<1> QED
  BY <1>7 DEF i, g

\* A slave and what goes to it, after a clock.
LEMMA ServingStep ==
    ASSUME NEW h, NEW c \in Counts, NEW d \in Counts, NEW p \in Places,
           Stepping(h, c, d, p),
           NEW answering \in SUBSET Bus!CanAnswer, Bus!SlavesStep(answering),
           NEW q, Placed(p, c, answering, q), NEW k \in Bus!Slaves
    PROVE  Serving(h, d, q, k)'
<1> DEFINE low == p.answered[k]
           i == p.job[k]
           j == p.to_slave[k]
           coming == Bus!Passed("request", "address", k)
<1>1. /\ c.passed \in Nat /\ low \in Nat /\ i \in Nat /\ j \in Nat
  BY DEF Counts, Places
<1>2. BusType /\ Bus!ToSlaves /\ InOrder(h, c, p) /\ Serving(h, c, p, k)
  BY DEF Stepping, Bus!Clock, InOrder
<1>3. Rises(c.passed, d.passed, Bus!Taken("request"))
  BY DEF Stepping, Counted
<1>4. /\ job'[k] = CASE job[k] = <<>> -> to_slave[k]
                     [] k \in answering -> <<>>
                     [] OTHER -> job[k]
      /\ to_slave'[k] = IF job[k] = <<>> THEN coming ELSE to_slave[k]
  BY <1>2 DEF Bus!SlavesStep, Bus!ToSlaves
<1>5. k \in answering => job[k] # <<>>
  BY DEF Bus!CanAnswer
<1>6. /\ q.answered[k] = IF k \in answering THEN i ELSE low
      /\ q.job[k] = IF job[k] = <<>> THEN j ELSE i
      /\ q.to_slave[k] = IF job[k] = <<>> THEN c.passed + 1 ELSE j
  BY DEF Placed
<1>7. /\ coming # <<>> => /\ coming = <<h[c.passed + 1]>>
                          /\ For(h, c.passed + 1, k)
                          /\ job[k] = <<>> => Bus!Taken("request")
      /\ Bus!Taken("request") /\ For(h, c.passed + 1, k) => job[k] = <<>> /\ coming # <<>>
  BY <1>2, PassedWord
<1>8. Pair(h, k, low, c.passed, job[k], i, to_slave[k], j)
  BY <1>2 DEF Serving
<1>9. Paired(h, k, low, q.answered[k], c.passed, d.passed, job[k], job'[k],
             i, q.job[k], to_slave[k], to_slave'[k], j, q.to_slave[k])
  <2> HIDE DEF low, i, j, coming
  <2>1. d.passed \in {c.passed, c.passed + 1}
    BY <1>3 DEF Rises
  <2>2. CASE job[k] = <<>>
    BY <1>1, <1>3, <1>4, <1>5, <1>6, <1>7, <2>1, <2>2 DEF Paired, Rises
  <2>3. CASE job[k] # <<>>
    BY <1>1, <1>3, <1>4, <1>5, <1>6, <1>7, <2>1, <2>3 DEF Paired, Rises
  <2> QED
    BY <2>2, <2>3
<1>10. Pair(h, k, q.answered[k], d.passed, job'[k], q.job[k], to_slave'[k], q.to_slave[k])
  <2> HIDE DEF low, i, j
  <2> QED
    BY <1>1, <1>8, <1>9, PairStep
<1>11. job'[k] # <<>> => job'[k] = <<h[q.job[k]]>>
  BY <1>2, <1>4, <1>6 DEF Serving
<1>12. to_slave'[k] # <<>> => to_slave'[k] = <<h[q.to_slave[k]]>>
  BY <1>2, <1>4, <1>6, <1>7 DEF Serving
<1> QED
  BY <1>10, <1>11, <1>12 DEF Serving

\* The same for the data.
LEMMA WritingStep ==
    ASSUME NEW h, NEW c \in Counts, NEW d \in Counts, NEW p \in Places,
           Stepping(h, c, d, p), path = "write",
           NEW answering \in SUBSET Bus!CanAnswer, Bus!SlavesStep(answering),
           NEW q, Placed(p, c, answering, q), NEW k \in Bus!Slaves
    PROVE  Writing(h, d, q, k)'
<1> DEFINE low == p.answered[k]
           i == p.given[k]
           j == p.w_slave[k]
           coming == Bus!Passed("wdata", "data", k)
<1>1. /\ c.written \in Nat /\ low \in Nat /\ i \in Nat /\ j \in Nat
  BY DEF Counts, Places
<1>2. BusType /\ Bus!ToSlaves /\ InOrder(h, c, p) /\ Writing(h, c, p, k)
  BY DEF Stepping, Bus!Clock, InOrder
<1>3. Rises(c.written, d.written, Bus!Taken("wdata"))
  BY DEF Stepping, Counted, Rises
<1>4. /\ given'[k] = CASE given[k] = <<>> -> w_slave[k]
                       [] k \in answering -> <<>>
                       [] OTHER -> given[k]
      /\ w_slave'[k] = IF given[k] = <<>> THEN coming ELSE w_slave[k]
  BY <1>2 DEF Bus!SlavesStep, Bus!ToSlaves
<1>5. k \in answering => given[k] # <<>> /\ p.job[k] = i
  <2>1. k \in answering => job[k] # <<>> /\ given[k] # <<>>
    BY DEF Bus!CanAnswer
  <2> QED
    BY <1>2, <2>1, SameNumber
<1>6. /\ q.answered[k] = IF k \in answering THEN p.job[k] ELSE low
      /\ q.given[k] = IF given[k] = <<>> THEN j ELSE i
      /\ q.w_slave[k] = IF given[k] = <<>> THEN c.written + 1 ELSE j
  BY DEF Placed
<1>7. /\ coming # <<>> => /\ coming = <<Numbers[c.written + 1]>>
                          /\ For(h, c.written + 1, k)
                          /\ given[k] = <<>> => Bus!Taken("wdata")
      /\ Bus!Taken("wdata") /\ For(h, c.written + 1, k) => given[k] = <<>> /\ coming # <<>>
  BY <1>2, WrittenWord
<1>8. Pair(h, k, low, c.written, given[k], i, w_slave[k], j)
  BY <1>2 DEF Writing
<1>9. Paired(h, k, low, q.answered[k], c.written, d.written, given[k], given'[k],
             i, q.given[k], w_slave[k], w_slave'[k], j, q.w_slave[k])
  <2> HIDE DEF low, i, j, coming
  <2>1. d.written \in {c.written, c.written + 1}
    BY <1>3 DEF Rises
  <2>2. CASE given[k] = <<>>
    BY <1>1, <1>3, <1>4, <1>5, <1>6, <1>7, <2>1, <2>2 DEF Paired, Rises
  <2>3. CASE given[k] # <<>>
    BY <1>1, <1>3, <1>4, <1>5, <1>6, <1>7, <2>1, <2>3 DEF Paired, Rises
  <2> QED
    BY <2>2, <2>3
<1>10. Pair(h, k, q.answered[k], d.written, given'[k], q.given[k], w_slave'[k], q.w_slave[k])
  <2> HIDE DEF low, i, j
  <2> QED
    BY <1>1, <1>8, <1>9, PairStep
<1>11. given'[k] # <<>> => given'[k] = <<Numbers[q.given[k]]>>
  BY <1>2, <1>4, <1>6 DEF Writing
<1>12. w_slave'[k] # <<>> => w_slave'[k] = <<Numbers[q.w_slave[k]]>>
  BY <1>2, <1>4, <1>6, <1>7 DEF Writing
<1> QED
  BY <1>10, <1>11, <1>12 DEF Writing

(***************************************************************************)
(* A slave that answers has the first request after the last one that it   *)
(* answered, and its data; its answer is taken when it is its turn.        *)
(***************************************************************************)
LEMMA AnsweringStep ==
    ASSUME NEW h, NEW c \in Counts, NEW d \in Counts, NEW p \in Places,
           Stepping(h, c, d, p),
           NEW answering \in SUBSET Bus!CanAnswer, Bus!SlavesStep(answering),
           NEW q, Placed(p, c, answering, q), NEW k \in Bus!Slaves
    PROVE  Answering(h, d, q.answered[k], k)'
<1> DEFINE last == p.answered[k]
           i == p.job[k]
<1>1. /\ c.asked \in Nat /\ c.forked \in Nat /\ c.passed \in Nat /\ c.selected \in Nat
      /\ d.asked \in Nat /\ d.selected \in Nat /\ last \in Nat /\ i \in Nat
  BY DEF Counts, Places
<1>2. BusType /\ InOrder(h, c, p) /\ Serving(h, c, p, k) /\ Answering(h, c, last, k)
  BY DEF Stepping, InOrder
<1>3. /\ Rises(c.selected, d.selected, bready /\ Bus!Answered)
      /\ Rises(c.asked, d.asked, asked' # asked)
  BY DEF Stepping, Counted
<1>4. answer'[k] = CASE k \in answering -> <<Bus!Answer(k)>>
                     [] k \notin answering /\ bready /\ Bus!Chosen("response", k) -> <<>>
                     [] OTHER -> answer[k]
  BY DEF Bus!SlavesStep
<1>5. q.answered[k] = IF k \in answering THEN i ELSE last
  BY DEF Placed
<1>6. /\ c.asked <= d.asked
      /\ d.selected \in {c.selected, c.selected + 1}
      /\ d.selected = c.selected + 1 => bready /\ Bus!Answered
  BY <1>1, <1>3 DEF Rises
<1>7. d.selected = c.selected + 1 =>
         /\ Bus!Chosen("response", k) => answer[k] # <<>> /\ last = c.selected + 1
         /\ For(h, c.selected + 1, k) => Bus!Chosen("response", k)
  BY <1>2, <1>6, NextResponse
<1>8. /\ \A n \in last + 1 .. c.selected : ~For(h, n, k)
      /\ answer[k] = <<>> => last <= c.selected
      /\ answer[k] # <<>> =>
            /\ last > c.selected /\ last <= c.asked
            /\ For(h, last, k)
            /\ \A n \in c.selected + 1 .. last - 1 : ~For(h, n, k)
            /\ answer[k] = <<AnswerOf(h, last, k)>>
  BY <1>2 DEF Answering
<1> HIDE DEF last
<1>9. CASE k \in answering
  <2>1. /\ job[k] # <<>> /\ answer[k] = <<>>
        /\ path = "write" => given[k] # <<>>
    BY <1>9 DEF Bus!CanAnswer
  <2>2. /\ i \in last + 1 .. c.passed /\ For(h, i, k)
        /\ \A n \in last + 1 .. c.passed : For(h, n, k) =>
              n = i \/ (to_slave[k] # <<>> /\ n = p.to_slave[k])
        /\ to_slave[k] # <<>> => i < p.to_slave[k]
        /\ job[k] = <<h[i]>>
    BY <1>2, <2>1 DEF Serving, Pair, last
  <2> DEFINE t == p.to_slave[k]
  <2>3. t \in Nat
    BY DEF Places
  <2> HIDE DEF i, t
  <2>4. i > c.selected
    <3>1. ~(i \in last + 1 .. c.selected)
      BY <1>8, <2>2
    <3> QED
      BY <1>1, <2>2, <3>1
  <2>5. i > d.selected
    <3>1. CASE d.selected = c.selected
      BY <2>4, <3>1
    <3>2. CASE d.selected = c.selected + 1
      <4>1. i # c.selected + 1
        BY <1>7, <2>1, <2>2, <3>2
      <4> QED
        BY <1>1, <2>4, <3>2, <4>1
    <3> QED
      BY <1>6, <3>1, <3>2
  <2>6. i <= c.asked
    <3>1. c.passed <= c.forked /\ c.forked <= c.asked
      BY <1>2, Bounds
    <3> QED
      BY <1>1, <2>2, <3>1
  <2>7. i <= d.asked /\ i \in 1 .. c.asked
    BY <1>1, <1>6, <2>2, <2>6
  <2>8. ASSUME NEW n \in d.selected + 1 .. i - 1 PROVE ~For(h, n, k)
    <3>1. n >= c.selected + 1 /\ n <= i - 1
      BY <1>1, <1>6
    <3>2. c.selected >= last
      BY <1>8, <2>1
    <3>3. n \in last + 1 .. c.passed /\ n < i
      BY <1>1, <2>2, <3>1, <3>2
    <3>4. n # i /\ (to_slave[k] # <<>> => n # p.to_slave[k])
      BY <1>1, <2>2, <2>3, <3>3 DEF t
    <3> QED
      BY <2>2, <3>3, <3>4
  <2>9. \A n \in i + 1 .. d.selected : ~For(h, n, k)
    BY <1>1, <2>5
  <2>10. answer'[k] = <<AnswerOf(h, i, k)>>
    <3>1. Bus!Answer(k).data = h[i].number
      <4>1. h[i].number = Numbers[i]
        BY <1>2, <2>7 DEF InOrder, Asking
      <4>2. CASE path = "write"
        <5>1. given[k] = <<Numbers[i]>>
          <6>1. p.job[k] = p.given[k]
            BY <1>2, <2>1, <4>2, SameNumber
          <6>2. given[k] = <<Numbers[p.given[k]]>>
            BY <1>2, <2>1, <4>2 DEF InOrder, Writing
          <6> QED
            BY <6>1, <6>2 DEF i
        <5> QED
          BY <4>1, <4>2, <5>1 DEF Bus!Answer
      <4>3. CASE path # "write"
        BY <2>2, <4>3 DEF Bus!Answer
      <4> QED
        BY <4>2, <4>3
    <3>2. Bus!Answer(k) = AnswerOf(h, i, k)
      BY <2>2, <3>1 DEF Bus!Answer, AnswerOf
    <3> QED
      BY <1>4, <1>9, <3>2
  <2>11. q.answered[k] = i /\ answer'[k] # <<>>
    BY <1>5, <1>9, <2>10
  <2> QED
    BY <2>2, <2>5, <2>7, <2>8, <2>9, <2>10, <2>11 DEF Answering
<1>10. CASE k \notin answering /\ bready /\ Bus!Chosen("response", k) /\ answer[k] # <<>>
  <2>1. Bus!Answered
    BY <1>10 DEF Bus!Answered
  <2>2. d.selected = c.selected + 1
    BY <1>3, <1>10, <2>1 DEF Rises
  <2>3. last = c.selected + 1 /\ q.answered[k] = last /\ answer'[k] = <<>>
    BY <1>4, <1>5, <1>7, <1>10, <2>2
  <2>4. last <= d.selected /\ \A n \in last + 1 .. d.selected : ~For(h, n, k)
    BY <1>1, <2>2, <2>3
  <2> QED
    BY <2>3, <2>4 DEF Answering
<1>11. CASE k \notin answering /\ ~(bready /\ Bus!Chosen("response", k) /\ answer[k] # <<>>)
  <2>1. answer'[k] = answer[k] /\ q.answered[k] = last
    BY <1>4, <1>5, <1>11
  <2>2. d.selected = c.selected + 1 => ~For(h, c.selected + 1, k)
    BY <1>6, <1>7, <1>11
  <2>3. ASSUME NEW n \in last + 1 .. d.selected PROVE ~For(h, n, k)
    <3>1. \/ n \in last + 1 .. c.selected
          \/ n = c.selected + 1 /\ d.selected = c.selected + 1
      BY <1>1, <1>6
    <3> QED
      BY <1>8, <2>2, <3>1
  <2>4. answer[k] = <<>> => last <= d.selected
    BY <1>1, <1>6, <1>8
  <2>5. ASSUME answer[k] # <<>>
        PROVE  /\ last > d.selected /\ last <= d.asked /\ For(h, last, k)
               /\ \A n \in d.selected + 1 .. last - 1 : ~For(h, n, k)
               /\ answer[k] = <<AnswerOf(h, last, k)>>
    <3>1. /\ last > c.selected /\ last <= c.asked /\ For(h, last, k)
          /\ \A n \in c.selected + 1 .. last - 1 : ~For(h, n, k)
          /\ answer[k] = <<AnswerOf(h, last, k)>>
      BY <1>8, <2>5
    <3>2. d.selected = c.selected + 1 => last # c.selected + 1
      BY <2>2, <3>1
    <3>3. last > d.selected /\ last <= d.asked
      BY <1>1, <1>6, <3>1, <3>2
    <3>4. \A n \in d.selected + 1 .. last - 1 : n \in c.selected + 1 .. last - 1
      BY <1>1, <1>6
    <3> QED
      BY <3>1, <3>3, <3>4
  <2> QED
    BY <2>1, <2>3, <2>4, <2>5 DEF Answering
<1> QED
  BY <1>9, <1>10, <1>11

\* More requests change nothing for those before them.
LEMMA MoreRequests ==
    ASSUME NEW h, NEW h2, NEW c \in Counts, NEW p \in Places, BusType,
           InOrder(h, c, p), \A n \in 1 .. c.asked : h2[n] = h[n]
    PROVE  InOrder(h2, c, p)
<1>1. /\ c.asked \in Nat /\ c.forked \in Nat /\ c.passed \in Nat /\ c.selected \in Nat
      /\ c.delivered \in Nat /\ c.written \in Nat
  BY DEF Counts
<1>2. /\ c.forked <= c.asked /\ c.passed <= c.forked /\ c.selected <= c.forked
      /\ path = "write" => c.written <= c.forked
  BY Bounds
<1>3. \A n \in 1 .. c.asked, k \in Bus!Slaves : For(h2, n, k) <=> For(h, n, k)
  BY DEF For
<1>4. \A n \in 1 .. c.forked : n \in 1 .. c.asked /\ n \in Nat
  BY <1>1, <1>2
<1>5. \A n \in 1 .. c.forked : h[n] = h2[n] /\ IdsOf(h)[n] = IdsOf(h2)[n]
  BY <1>4 DEF IdsOf
<1>6. Asking(h2, c)
  <2>1. Holds(request, h, c.forked, c.asked) /\ Holds(owed, h, c.delivered, c.asked)
    BY DEF InOrder, Asking
  <2>2. Holds(request, h2, c.forked, c.asked)
    BY <1>1, <2>1, HoldsSame DEF BusType
  <2>3. Holds(owed, h2, c.delivered, c.asked)
    BY <1>1, <2>1, HoldsSame DEF BusType
  <2> QED
    BY <2>2, <2>3 DEF InOrder, Asking
<1>7. Queued(h2, c)
  <2>1. Queued(h, c)
    BY DEF InOrder
  <2>2. Holds(Line("request"), h2, c.passed, c.forked)
    <3>1. Line("request") \in Seq(BusWords)
      BY LineType, StreamNames
    <3> QED
      BY <1>1, <1>5, <2>1, <3>1, HoldsSame DEF Queued
  <2>3. ASSUME NEW s \in Bus!Ids, NEW low \in Nat, Holds(Line(s), IdsOf(h), low, c.forked)
        PROVE  Holds(Line(s), IdsOf(h2), low, c.forked)
    <3>1. Line(s) \in Seq(BusWords)
      BY LineType, StreamNames
    <3> QED
      BY <1>1, <1>5, <2>3, <3>1, HoldsSame
  <2>4. /\ Holds(Line("address"), IdsOf(h2), c.passed, c.forked)
        /\ Holds(Line("response"), IdsOf(h2), c.selected, c.forked)
    BY <1>1, <2>1, <2>3 DEF Queued, Bus!Ids
  <2>5. path = "write" => Holds(Line("data"), IdsOf(h2), c.written, c.forked)
    BY <1>1, <2>1, <2>3, StreamNames DEF Queued
  <2> QED
    BY <2>1, <2>2, <2>4, <2>5 DEF Queued
<1>8. Responding(h2, c)
  <2>1. Responding(h, c)
    BY DEF InOrder
  <2>2. response # <<>> => c.selected \in 1 .. c.asked
    BY <1>1, <1>2, <2>1 DEF Responding
  <2> QED
    BY <2>1, <2>2 DEF Responding
<1>9. ASSUME NEW k, NEW low \in Nat, NEW high \in Nat, high <= c.asked, k \in Bus!Slaves,
             NEW first, NEW i, NEW second, NEW j, Pair(h, k, low, high, first, i, second, j)
      PROVE  /\ Pair(h2, k, low, high, first, i, second, j)
             /\ first # <<>> => h2[i] = h[i]
             /\ second # <<>> => h2[j] = h[j]
  <2>1. \A n \in low + 1 .. high : n \in 1 .. c.asked
    BY <1>1, <1>9
  <2>2. /\ first # <<>> => i \in 1 .. c.asked
        /\ second # <<>> => j \in 1 .. c.asked
    BY <1>9, <2>1 DEF Pair
  <2>3. \A n \in low + 1 .. high : For(h2, n, k) <=> For(h, n, k)
    BY <1>3, <1>9, <2>1
  <2> QED
    BY <1>9, <2>2, <2>3 DEF Pair
<1>10. ASSUME NEW k \in Bus!Slaves PROVE Serving(h2, c, p, k)
  <2>1. Serving(h, c, p, k) /\ p.answered[k] \in Nat /\ c.passed <= c.asked
    BY <1>1, <1>2 DEF InOrder, Places
  <2>2. Pair(h, k, p.answered[k], c.passed, job[k], p.job[k], to_slave[k], p.to_slave[k])
    BY <2>1 DEF Serving
  <2>3. /\ Pair(h2, k, p.answered[k], c.passed, job[k], p.job[k],
                to_slave[k], p.to_slave[k])
        /\ job[k] # <<>> => h2[p.job[k]] = h[p.job[k]]
        /\ to_slave[k] # <<>> => h2[p.to_slave[k]] = h[p.to_slave[k]]
    BY <1>1, <1>9, <2>1, <2>2
  <2> QED
    BY <2>1, <2>3 DEF Serving
<1>11. ASSUME NEW k \in Bus!Slaves, path = "write" PROVE Writing(h2, c, p, k)
  <2>1. Writing(h, c, p, k) /\ p.answered[k] \in Nat /\ c.written <= c.asked
    BY <1>1, <1>2, <1>11 DEF InOrder, Places
  <2>2. Pair(h, k, p.answered[k], c.written, given[k], p.given[k], w_slave[k], p.w_slave[k])
    BY <2>1 DEF Writing
  <2>3. Pair(h2, k, p.answered[k], c.written, given[k], p.given[k],
             w_slave[k], p.w_slave[k])
    BY <1>1, <1>9, <2>1, <2>2
  <2> QED
    BY <2>1, <2>3 DEF Writing
<1>12. ASSUME NEW k \in Bus!Slaves PROVE Answering(h2, c, p.answered[k], k)
  <2> DEFINE last == p.answered[k]
  <2>1. Answering(h, c, last, k) /\ last \in Nat
    BY DEF InOrder, Places
  <2> HIDE DEF last
  <2>2. \A n \in last + 1 .. c.selected : n \in 1 .. c.asked
    BY <1>1, <1>2, <2>1
  <2>3. answer[k] # <<>> =>
           /\ last \in 1 .. c.asked
           /\ \A n \in c.selected + 1 .. last - 1 : n \in 1 .. c.asked
    <3>1. answer[k] # <<>> => last > c.selected /\ last <= c.asked
      BY <2>1 DEF Answering
    <3> QED
      BY <1>1, <2>1, <3>1
  <2>4. answer[k] # <<>> => AnswerOf(h2, last, k) = AnswerOf(h, last, k)
    BY <2>3 DEF AnswerOf
  <2>5. Answering(h2, c, last, k)
    BY <1>3, <2>1, <2>2, <2>3, <2>4 DEF Answering
  <2> QED
    BY <2>5 DEF last
<1> QED
  BY <1>6, <1>7, <1>8, <1>10, <1>11, <1>12 DEF InOrder, Giving

-----------------------------------------------------------------------------
\* The theorem about the bus.

\* The reset leaves a bus without requests.
LEMMA BusBegins == Bus!Init => BusInv
<1> SUFFICES ASSUME Bus!Init PROVE BusInv
  OBVIOUS
<1>1. PICK h \in Seq(Requests) : h = <<>>
  <2>1. <<>> \in Seq(Requests)
    BY EmptySeq
  <2> QED
    BY <2>1
<1>2. PICK c \in Counts : c = [asked |-> 0, forked |-> 0, passed |-> 0, given |-> 0,
                               entered |-> 0, written |-> 0, selected |-> 0,
                               delivered |-> 0]
  BY DEF Counts
<1>3. PICK z : z = [k \in Bus!Slaves |-> 0]
  OBVIOUS
<1>4. PICK p \in Places : p = [answered |-> z, job |-> z, to_slave |-> z,
                               given |-> z, w_slave |-> z]
  BY <1>3 DEF Places
<1>5. /\ c.asked = 0 /\ c.forked = 0 /\ c.passed = 0 /\ c.given = 0
      /\ c.entered = 0 /\ c.written = 0 /\ c.selected = 0 /\ c.delivered = 0
  BY <1>2
<1>6. <<>> \in Seq(BusWords) /\ <<>> \in Seq(Requests) /\ <<>> \in Seq({0, 1}) /\ Len(<<>>) = 0
  BY EmptySeq
<1>7. BusType
  <2>1. /\ path \in {"write", "read"} /\ bready \in BOOLEAN
        /\ request = <<>> /\ data = <<>> /\ owed = <<>> /\ asked = 0 /\ gave = 0
        /\ fifo = [s \in Bus!Streams |-> <<>>]
        /\ decoded = [s \in Bus!Streams |-> <<>>]
        /\ shown = [s \in Bus!Streams |-> FALSE]
        /\ ready = [s \in Bus!Streams |-> FALSE]
    BY DEF Bus!Init
  <2> DEFINE none == <<>>
             streams == Bus!Streams
  <2>2. none \in Seq(BusWords)
    BY <1>6
  <2>3. fifo = [s \in streams |-> none] /\ decoded = [s \in streams |-> none]
    BY <2>1
  <2> HIDE DEF none, streams
  <2>4. fifo \in [streams -> Seq(BusWords)] /\ decoded \in [streams -> Seq(BusWords)]
    BY <2>2, <2>3
  <2>5. /\ shown \in [Bus!Streams -> BOOLEAN] /\ ready \in [Bus!Streams -> BOOLEAN]
        /\ \A s \in Bus!Streams : ~shown[s]
    BY <2>1
  <2>6. Len(request) <= 1 /\ Len(data) <= 1
    BY <1>6, <2>1
  <2> QED
    BY <1>6, <2>1, <2>4, <2>5, <2>6 DEF BusType, streams
<1>8. \A f : Holds(<<>>, f, 0, 0)
  BY HoldsNothing
<1>9. Numbers[1] = 0
  BY DEF Numbers
<1>10. Asking(h, c) /\ Giving(c)
  BY <1>5, <1>8, <1>9 DEF Bus!Init, Asking, Giving
<1>11. \A s \in Bus!Streams : Line(s) = <<>>
  <2>1. Row(<<>>, <<>>) = <<>>
    BY <1>6, RowEmpty
  <2> QED
    BY <2>1 DEF Bus!Init, Line
<1>12. Queued(h, c)
  <2>1. /\ Line("request") = <<>> /\ Line("address") = <<>> /\ Line("response") = <<>>
        /\ path = "write" => Line("data") = <<>> /\ Line("wdata") = <<>>
    BY <1>11, StreamNames
  <2> QED
    BY <1>5, <1>8, <2>1 DEF Queued
<1>13. Responding(h, c)
  BY <1>5 DEF Bus!Init, Responding
<1>14. ASSUME NEW k \in Bus!Slaves
       PROVE  Serving(h, c, p, k) /\ Writing(h, c, p, k) /\ Answering(h, c, p.answered[k], k)
  <2>1. /\ job[k] = <<>> /\ to_slave[k] = <<>> /\ given[k] = <<>> /\ w_slave[k] = <<>>
        /\ answer[k] = <<>>
    BY DEF Bus!Init
  <2>2. p.answered[k] = 0
    BY <1>3, <1>4
  <2>3. Serving(h, c, p, k)
    BY <1>5, <2>1, <2>2 DEF Serving, Pair
  <2>4. Writing(h, c, p, k)
    BY <1>5, <2>1, <2>2 DEF Writing, Pair
  <2>5. Answering(h, c, p.answered[k], k)
    BY <1>5, <2>1, <2>2 DEF Answering
  <2> QED
    BY <2>3, <2>4, <2>5
<1>15. InOrder(h, c, p)
  BY <1>10, <1>12, <1>13, <1>14 DEF InOrder
<1>16. Len(h) = c.asked
  BY <1>1, <1>5, <1>6
<1> QED
  BY <1>7, <1>15, <1>16 DEF BusInv

\* A clock keeps all of it.
LEMMA InOrderStep ==
    ASSUME NEW h, NEW c \in Counts, NEW d \in Counts, NEW p \in Places,
           Stepping(h, c, d, p)
    PROVE  BusType' /\ \E q \in Places : InOrder(h, d, q)'
<1>1. PICK answering \in SUBSET Bus!CanAnswer : Bus!SlavesStep(answering)
  BY DEF Stepping, Bus!Clock
<1>2. PICK q : Placed(p, c, answering, q)
  BY DEF Placed
<1>3. q \in Places
  BY <1>2, PlacedType
<1>4. path' = path /\ Bus!Slaves' = Bus!Slaves
  BY DEF Stepping, Bus!Clock, Bus!Slaves
<1>5. Asking(h, d)' /\ Giving(d)' /\ Queued(h, d)' /\ Responding(h, d)'
  BY AskingStep, GivingStep, QueuedStep, RespondingStep DEF Lines
<1>6. ASSUME NEW k \in Bus!Slaves
      PROVE  /\ Serving(h, d, q, k)'
             /\ path = "write" => Writing(h, d, q, k)'
             /\ Answering(h, d, q.answered[k], k)'
  BY <1>1, <1>2, ServingStep, WritingStep, AnsweringStep
<1>7. InOrder(h, d, q)'
  BY <1>4, <1>5, <1>6 DEF InOrder
<1> QED
  BY <1>3, <1>7, BusTypeStep

\* So a clock keeps the invariant: a new request makes the history longer.
LEMMA BusGoesOn == BusInv /\ Bus!Clock => BusInv'
<1> SUFFICES ASSUME BusInv, Bus!Clock PROVE BusInv'
  OBVIOUS
<1>1. PICK h \in Seq(Requests), c \in Counts, p \in Places :
          Len(h) = c.asked /\ InOrder(h, c, p)
  BY DEF BusInv
<1>2. BusType
  BY DEF BusInv
<1>3. PICK d \in Counts : Counted(c, d)
  BY Count
<1>4. c.asked \in Nat /\ Rises(c.asked, d.asked, asked' # asked)
  BY <1>3 DEF Counts, Counted
<1>5. \E h2 \in Seq(Requests) :
         /\ Len(h2) = d.asked
         /\ \A n \in 1 .. c.asked : h2[n] = h[n]
         /\ asked' # asked => request' = <<h2[c.asked + 1]>> /\ h2[c.asked + 1] \in Requests
  <2>1. CASE asked' # asked
    <3>1. Bus!Ask
      BY DEF Bus!Clock
    <3>2. PICK a \in ADDRESSES : request' = <<[address |-> a, number |-> asked]>>
      BY <2>1, <3>1 DEF Bus!Ask
    <3>3. PICK r : r = [address |-> a, number |-> asked]
      OBVIOUS
    <3>4. r \in Requests /\ request' = <<r>>
      BY <1>2, <3>2, <3>3 DEF BusType, Requests
    <3>5. /\ Append(h, r) \in Seq(Requests)
          /\ Len(Append(h, r)) = Len(h) + 1
          /\ \A n \in 1 .. Len(h) : Append(h, r)[n] = h[n]
          /\ Append(h, r)[Len(h) + 1] = r
      BY <3>4, AppendProperties
    <3>6. d.asked = c.asked + 1
      BY <1>4, <2>1 DEF Rises
    <3> QED
      BY <1>1, <3>4, <3>5, <3>6
  <2>2. CASE asked' = asked
    BY <1>1, <1>4, <2>2 DEF Rises
  <2> QED
    BY <2>1, <2>2
<1>6. PICK h2 \in Seq(Requests) :
         /\ Len(h2) = d.asked
         /\ \A n \in 1 .. c.asked : h2[n] = h[n]
         /\ asked' # asked => request' = <<h2[c.asked + 1]>> /\ h2[c.asked + 1] \in Requests
  BY <1>5
<1>7. InOrder(h2, c, p)
  BY <1>1, <1>2, <1>6, MoreRequests
<1>8. Stepping(h2, c, d, p)
  BY <1>2, <1>3, <1>6, <1>7 DEF Stepping
<1>9. BusType' /\ \E q \in Places : InOrder(h2, d, q)'
  BY <1>8, InOrderStep
<1>10. PICK q \in Places : InOrder(h2, d, q)'
  BY <1>9
<1>11. Places' = Places
  BY DEF Places, Bus!Slaves
<1> QED
  BY <1>6, <1>9, <1>10, <1>11 DEF BusInv

\* Other blocks do not touch the bus.
LEMMA BusUnchanged == BusInv /\ UNCHANGED Bus!busVars => BusInv'
<1> SUFFICES ASSUME BusInv, UNCHANGED Bus!busVars PROVE BusInv'
  OBVIOUS
<1>1. PICK h \in Seq(Requests), c \in Counts, p \in Places :
          Len(h) = c.asked /\ InOrder(h, c, p)
  BY DEF BusInv
<1>2. /\ path' = path /\ request' = request /\ data' = data /\ bready' = bready
      /\ decoded' = decoded /\ fifo' = fifo /\ shown' = shown /\ ready' = ready
      /\ to_slave' = to_slave /\ w_slave' = w_slave /\ response' = response
      /\ job' = job /\ given' = given /\ answer' = answer
      /\ asked' = asked /\ gave' = gave /\ owed' = owed
  BY DEF Bus!busVars
<1>3. Bus!Streams' = Bus!Streams
  BY <1>2 DEF Bus!Streams, Bus!Forked, Bus!Ids
<1>4. BusType'
  BY <1>2, <1>3 DEF BusInv, BusType
<1>5. Asking(h, c)' /\ Giving(c)'
  BY <1>1, <1>2 DEF InOrder, Asking, Giving
<1>6. Queued(h, c)'
  BY <1>1, <1>2 DEF InOrder, Queued, Line
<1>7. Responding(h, c)'
  BY <1>1, <1>2 DEF InOrder, Responding
<1>8. ASSUME NEW k \in Bus!Slaves
      PROVE  /\ Serving(h, c, p, k)'
             /\ path = "write" => Writing(h, c, p, k)'
             /\ Answering(h, c, p.answered[k], k)'
  BY <1>1, <1>2 DEF InOrder, Serving, Writing, Answering
<1>9. InOrder(h, c, p)'
  BY <1>2, <1>5, <1>6, <1>7, <1>8 DEF InOrder, Bus!Slaves
<1>10. Places' = Places
  BY DEF Places, Bus!Slaves
<1> QED
  BY <1>1, <1>4, <1>9 DEF BusInv

\* The invariant says what the response is, and where requests go.
LEMMA BusOrder == BusInv => Bus!AnsweredInOrder
<1> SUFFICES ASSUME BusInv PROVE Bus!AnsweredInOrder
  OBVIOUS
<1>1. PICK h \in Seq(Requests), c \in Counts, p \in Places :
          Len(h) = c.asked /\ InOrder(h, c, p)
  BY DEF BusInv
<1>2. BusType
  BY DEF BusInv
<1>3. c.asked \in Nat /\ c.forked \in Nat /\ c.selected \in Nat /\ c.delivered \in Nat
  BY DEF Counts
<1>4. ASSUME response # <<>>
      PROVE  owed # <<>> /\ Bus!Answers(response[1], Head(owed))
  <2>1. c.selected = c.delivered + 1 /\ Bus!Answers(response[1], h[c.selected])
    BY <1>1, <1>4 DEF InOrder, Responding
  <2>2. c.selected <= c.forked /\ c.forked <= c.asked
    BY <1>1, <1>2, Bounds
  <2>3. owed \in Seq(Requests) /\ Holds(owed, h, c.delivered, c.asked)
    BY <1>1, <1>2 DEF BusType, InOrder, Asking
  <2>4. owed # <<>>
    <3>1. Len(owed) = c.asked - c.delivered
      BY <2>3 DEF Holds
    <3>2. Len(owed) # 0
      BY <1>3, <2>1, <2>2, <3>1
    <3> QED
      BY <2>3, <3>2, EmptySeq
  <2>5. Head(owed) = h[c.delivered + 1]
    BY <1>3, <2>3, <2>4, HoldsTail
  <2> QED
    BY <2>1, <2>4, <2>5
<1>5. ASSUME NEW k \in Bus!Slaves, to_slave[k] # <<>>
      PROVE  Bus!InMap(k, to_slave[k][1].address)
  <2> DEFINE j == p.to_slave[k]
  <2>1. to_slave[k] = <<h[j]>> /\ For(h, j, k)
    BY <1>1, <1>5 DEF InOrder, Serving, Pair
  <2>2. Bus!InMap(k, h[j].address)
    BY <2>1, SlaveIdType DEF For
  <2>3. to_slave[k][1] = h[j]
    BY <2>1
  <2> QED
    BY <2>2, <2>3
<1> QED
  BY <1>4, <1>5 DEF Bus!AnsweredInOrder

(***************************************************************************)
(* Whatever the map, the number of slaves, the depth of the queues and the *)
(* order in which slaves answer: each request gets one response, in order, *)
(* from the slave it is for and with its own data, or DECERR; no request   *)
(* reaches a slave that does not have its address.                         *)
(***************************************************************************)
THEOREM BusAnswersInOrder == Bus!BusSpec => []Bus!AnsweredInOrder
<1>1. Bus!Init => BusInv
  BY BusBegins
<1>2. BusInv /\ [Bus!Clock]_Bus!busVars => BusInv'
  BY BusGoesOn, BusUnchanged
<1>3. BusInv => Bus!AnsweredInOrder
  BY BusOrder
<1> QED
  BY <1>1, <1>2, <1>3, PTL DEF Bus!BusSpec

\* The same for the specification that the run checks.
THEOREM BlocksAnswerInOrder == MCSpec => []AnsweredInOrder
<1>1. MCInit => BusInv
  BY BusBegins DEF MCInit
<1>2. BusInv /\ [MCNext]_mcVars => BusInv'
  <2> SUFFICES ASSUME BusInv, [MCNext]_mcVars PROVE BusInv'
    OBVIOUS
  <2>1. Bus!Clock \/ UNCHANGED Bus!busVars
    BY DEF MCNext, QueueNext, BusNext, BridgeNext, mcVars, bus, Bus!busVars
  <2> QED
    BY <2>1, BusGoesOn, BusUnchanged
<1>3. BusInv => AnsweredInOrder
  BY BusOrder DEF AnsweredInOrder
<1> QED
  BY <1>1, <1>2, <1>3, PTL DEF MCSpec

-----------------------------------------------------------------------------
\* The bridge.

(***************************************************************************)
(* The skid buffers take the same steps because they start alike and see   *)
(* the same valid and ready; in reset nothing is ready or inside.          *)
(***************************************************************************)
BridgeInReset ==
    ~bridge_areset_n => ~aw_ready /\ ~aligned_awvalid /\ aw_state = "IDLE" /\ ~write

BridgeInv == Bridge!TypeOK /\ Bridge!Together /\ BridgeInReset

\* What holds when the reset is asserted at power-up.
LEMMA BridgeBegins == Bridge!Init => BridgeInv
BY DEF Bridge!Init, BridgeInv, Bridge!TypeOK, Bridge!Together, BridgeInReset

\* The environment drives values of the ports.
LEMMA BridgeDriveType == Bridge!TypeOK /\ Bridge!Drive =>
    /\ awvalid' \in BOOLEAN /\ awaddr' \in BRIDGE_ADDRESSES
    /\ wvalid' \in BOOLEAN /\ wdata' \in DATA
    /\ waitrequest' \in BOOLEAN
BY DEF Bridge!TypeOK, Bridge!Drive

\* Registers without a reset hold a word or what they powered up with.
LEMMA BridgeWordsType == Bridge!TypeOK /\ Bridge!Words =>
    /\ {aligned_awaddr', aw_buffered', address'} \subseteq BRIDGE_ADDRESSES \cup {UNKNOWN}
    /\ {aligned_wdata', w_buffered', writedata'} \subseteq DATA \cup {UNKNOWN}
<1> SUFFICES ASSUME Bridge!TypeOK, Bridge!Words
    PROVE  /\ {aligned_awaddr', aw_buffered', address'} \subseteq BRIDGE_ADDRESSES \cup {UNKNOWN}
           /\ {aligned_wdata', w_buffered', writedata'} \subseteq DATA \cup {UNKNOWN}
  OBVIOUS
<1>1. /\ aligned_awaddr' \in BRIDGE_ADDRESSES \cup {UNKNOWN}
      /\ aligned_wdata' \in DATA \cup {UNKNOWN}
  BY DEF Bridge!TypeOK, Bridge!Words, Bridge!AlignedWords
<1>2. /\ aw_buffered' \in BRIDGE_ADDRESSES \cup {UNKNOWN}
      /\ w_buffered' \in DATA \cup {UNKNOWN}
  BY DEF Bridge!TypeOK, Bridge!Words, Bridge!AwBuffer!Buffered,
     Bridge!WBuffer!Buffered
<1>3. address' \in BRIDGE_ADDRESSES \cup {UNKNOWN}
  BY DEF Bridge!TypeOK, Bridge!Words, Bridge!AvalonWords,
     Bridge!AwBuffer!tx_tdata
<1>4. writedata' \in DATA \cup {UNKNOWN}
  BY DEF Bridge!TypeOK, Bridge!Words, Bridge!AvalonWords,
     Bridge!WBuffer!tx_tdata
<1> QED
  BY <1>1, <1>2, <1>3, <1>4

\* A rising edge keeps the two channels in the same state.
LEMMA BridgeClock == BridgeInv /\ Bridge!Clock => BridgeInv'
<1> SUFFICES ASSUME BridgeInv, Bridge!Clock PROVE BridgeInv'
  OBVIOUS
<1> USE DEF BridgeInv
<1>1. Bridge!TypeOK'
  <2>1. aligned_awvalid' \in BOOLEAN /\ aligned_wvalid' \in BOOLEAN
    BY DEF Bridge!TypeOK, Bridge!Clock, Bridge!WriteAligned
  <2>2. /\ {aw_ready', w_ready'} \subseteq BOOLEAN
        /\ {aw_state', w_state'} \subseteq {"IDLE", "BUFFERED"}
    BY DEF Bridge!TypeOK, Bridge!Clock, Bridge!AwBuffer!FsmState,
       Bridge!AwBuffer!RxReady,
           Bridge!WBuffer!FsmState, Bridge!WBuffer!RxReady
  <2>3. write' \in BOOLEAN
    BY DEF Bridge!TypeOK, Bridge!Clock, Bridge!ToAvalon,
       Bridge!AwBuffer!tx_tvalid, Bridge!WBuffer!tx_tvalid
  <2> QED
    BY <2>1, <2>2, <2>3, BridgeDriveType, BridgeWordsType DEF Bridge!TypeOK,
       Bridge!Clock
<1>2. Bridge!Together'
  <2>1. aligned_awvalid' = aligned_wvalid'
    BY DEF Bridge!TypeOK, Bridge!Together, Bridge!Clock, Bridge!WriteAligned
  <2>2. aw_ready' = ~waitrequest /\ w_ready' = ~waitrequest
    BY DEF Bridge!Clock, Bridge!AwBuffer!RxReady, Bridge!WBuffer!RxReady
  <2>3. aw_state' = w_state'
    BY DEF Bridge!Together, Bridge!Clock, Bridge!AwBuffer!FsmState,
       Bridge!WBuffer!FsmState
  <2>4. aw_state' = "BUFFERED" => waitrequest
    BY DEF Bridge!TypeOK, Bridge!Together, Bridge!Clock,
       Bridge!AwBuffer!FsmState
  <2> QED
    BY <2>1, <2>2, <2>3, <2>4 DEF Bridge!Together, Bridge!TypeOK
<1>3. BridgeInReset'
  BY DEF Bridge!Clock, BridgeInReset
<1> QED
  BY <1>1, <1>2, <1>3

\* So does every step.
LEMMA BridgeStep == BridgeInv /\ [Bridge!Next]_(Bridge!vars) => BridgeInv'
<1> SUFFICES ASSUME BridgeInv, [Bridge!Next]_(Bridge!vars) PROVE BridgeInv'
  OBVIOUS
<1>1. CASE Bridge!Clock
  BY <1>1, BridgeClock
<1>2. CASE Bridge!ClockInReset
  BY <1>2, BridgeDriveType, BridgeWordsType
  DEF BridgeInv, Bridge!TypeOK, Bridge!Together, BridgeInReset,
     Bridge!ClockInReset, Bridge!resettable
<1>3. CASE Bridge!Reset
  BY <1>3 DEF BridgeInv, Bridge!TypeOK, Bridge!Together, BridgeInReset,
     Bridge!Reset, Bridge!words
<1>4. CASE Bridge!Release
  BY <1>4 DEF BridgeInv, Bridge!TypeOK, Bridge!Together, BridgeInReset,
     Bridge!Release, Bridge!inputs, Bridge!resettable, Bridge!words
<1>5. CASE UNCHANGED Bridge!vars
  BY <1>5 DEF BridgeInv, Bridge!TypeOK, Bridge!Together, BridgeInReset,
     Bridge!vars, Bridge!inputs, Bridge!resettable, Bridge!words
<1> QED
  BY <1>1, <1>2, <1>3, <1>4, <1>5 DEF Bridge!Next

(***************************************************************************)
(* Types, equal states of the two channels, and what a reset leaves.       *)
(***************************************************************************)
THEOREM BridgeInvariance == Bridge!Spec => []BridgeInv
BY BridgeBegins, BridgeStep, PTL DEF Bridge!Spec

(***************************************************************************)
(* Address and data stay together, whatever the order in which they        *)
(* arrive and however waitrequest stalls.                                  *)
(***************************************************************************)
THEOREM ChannelsStayTogether == Bridge!Spec => []Bridge!Together
<1>1. BridgeInv => Bridge!Together
  BY DEF BridgeInv
<1> QED
  BY <1>1, BridgeInvariance, PTL

-----------------------------------------------------------------------------
\* The refinement: rows of places, each of which has one word or none.  First
\* the channel of addresses.

AwPort == One(write, address)
AwHeld == One(aw_state = "BUFFERED", aw_buffered)
AwBefore == One(aligned_awvalid, aligned_awaddr)
AwComing == One(awvalid /\ wvalid /\ aw_ready, awaddr)

\* The words inside, and with the one that is accepted now, as a row.
LEMMA AwForm == BridgeInv =>
    /\ Bridge!Addresses = Row(Row(AwPort, AwHeld), AwBefore)
    /\ Bridge!AddressFifo!Offered = Row(Row(Row(AwPort, AwHeld), AwBefore), AwComing)
<1> SUFFICES ASSUME BridgeInv
    PROVE  /\ Bridge!Addresses = Row(Row(AwPort, AwHeld), AwBefore)
           /\ Bridge!AddressFifo!Offered = Row(Row(Row(AwPort, AwHeld), AwBefore), AwComing)
  OBVIOUS
<1>1. Bridge!Addresses = Row(Row(AwPort, AwHeld), AwBefore)
  BY DEF Bridge!Addresses, AwPort, AwHeld, AwBefore, One,
     Bridge!AwBuffer!Contents, Row
<1>2. Bridge!AddressFifo!Accepted = AwComing
  BY DEF BridgeInv, Bridge!Together, Bridge!TypeOK,
     Bridge!AddressFifo!Accepted, AwComing, One, Bridge!awready
<1> QED
  BY <1>1, <1>2 DEF Bridge!AddressFifo!Offered, Row

\* The places of the channel.
LEMMA AwTypes == BridgeInv =>
    LET S == BRIDGE_ADDRESSES \cup {UNKNOWN}
    IN  /\ AwPort \in Seq(S) /\ AwHeld \in Seq(S)
        /\ AwBefore \in Seq(S) /\ AwComing \in Seq(S)
        /\ Len(AwPort) <= 1 /\ Len(AwHeld) <= 1 /\ Len(AwBefore) <= 1
<1> SUFFICES ASSUME BridgeInv
    PROVE  LET S == BRIDGE_ADDRESSES \cup {UNKNOWN}
           IN  /\ AwPort \in Seq(S) /\ AwHeld \in Seq(S)
               /\ AwBefore \in Seq(S) /\ AwComing \in Seq(S)
               /\ Len(AwPort) <= 1 /\ Len(AwHeld) <= 1 /\ Len(AwBefore) <= 1
  OBVIOUS
<1> DEFINE S == BRIDGE_ADDRESSES \cup {UNKNOWN}
<1>1. /\ address \in S /\ aw_buffered \in S /\ aligned_awaddr \in S /\ awaddr \in S
      /\ write \in BOOLEAN /\ aligned_awvalid \in BOOLEAN
      /\ (aw_state = "BUFFERED") \in BOOLEAN
      /\ (awvalid /\ wvalid /\ aw_ready) \in BOOLEAN
  BY DEF BridgeInv, Bridge!TypeOK
<1> HIDE DEF S
<1>2. AwPort \in Seq(S) /\ Len(AwPort) <= 1
  BY <1>1, OneSeq DEF AwPort
<1>3. AwHeld \in Seq(S) /\ Len(AwHeld) <= 1
  BY <1>1, OneSeq DEF AwHeld
<1>4. AwBefore \in Seq(S) /\ Len(AwBefore) <= 1
  BY <1>1, OneSeq DEF AwBefore
<1>5. AwComing \in Seq(S)
  BY <1>1, OneSeq DEF AwComing
<1> QED
  BY <1>2, <1>3, <1>4, <1>5 DEF S

\* A clock moves every word on by as many places as are free.
LEMMA AwMoves == BridgeInv /\ Bridge!Clock =>
    /\ AwBefore' = IF aw_ready THEN AwComing ELSE AwBefore
    /\ AwHeld' = CASE ~waitrequest -> <<>>
                  [] waitrequest /\ aw_ready -> AwBefore
                  [] waitrequest /\ ~aw_ready -> AwHeld
    /\ AwPort' = CASE waitrequest -> AwPort
                  [] ~waitrequest /\ aw_ready -> AwBefore
                  [] ~waitrequest /\ ~aw_ready -> AwHeld
    /\ AwComing # <<>> => aw_ready
    /\ AwHeld # <<>> => ~aw_ready
<1> SUFFICES ASSUME BridgeInv, Bridge!Clock
    PROVE
    /\ AwBefore' = IF aw_ready THEN AwComing ELSE AwBefore
    /\ AwHeld' = CASE ~waitrequest -> <<>>
                  [] waitrequest /\ aw_ready -> AwBefore
                  [] waitrequest /\ ~aw_ready -> AwHeld
    /\ AwPort' = CASE waitrequest -> AwPort
                  [] ~waitrequest /\ aw_ready -> AwBefore
                  [] ~waitrequest /\ ~aw_ready -> AwHeld
    /\ AwComing # <<>> => aw_ready
    /\ AwHeld # <<>> => ~aw_ready
  OBVIOUS
<1>1. /\ aw_state \in {"IDLE", "BUFFERED"}
      /\ aw_state = "BUFFERED" => ~aw_ready
      /\ w_state = aw_state /\ w_ready = aw_ready
      /\ aligned_wvalid = aligned_awvalid
  BY DEF BridgeInv, Bridge!TypeOK, Bridge!Together
<1>2. AwBefore' = IF aw_ready THEN AwComing ELSE AwBefore
  BY <1>1 DEF Bridge!Clock, Bridge!Words, Bridge!WriteAligned,
     Bridge!AlignedWords, AwBefore, AwComing, One
<1>3. AwHeld' = CASE ~waitrequest -> <<>>
                  [] waitrequest /\ aw_ready -> AwBefore
                  [] waitrequest /\ ~aw_ready -> AwHeld
  BY <1>1 DEF Bridge!Clock, Bridge!Words, Bridge!AwBuffer!FsmState,
     Bridge!AwBuffer!Buffered, AwHeld, AwBefore, One
<1>4. AwPort' = CASE waitrequest -> AwPort
                  [] ~waitrequest /\ aw_ready -> AwBefore
                  [] ~waitrequest /\ ~aw_ready -> AwHeld
  BY <1>1 DEF Bridge!Clock, Bridge!Words, Bridge!ToAvalon, Bridge!AvalonWords,
     Bridge!AwBuffer!tx_tvalid,
     Bridge!WBuffer!tx_tvalid, Bridge!AwBuffer!tx_tdata, AwPort, AwHeld,
        AwBefore, One
<1>5. /\ AwComing # <<>> => aw_ready
      /\ AwHeld # <<>> => ~aw_ready
  BY <1>1 DEF AwHeld, AwComing, One
<1> QED
  BY <1>2, <1>3, <1>4, <1>5

\* There are never more than three words inside.
LEMMA AwBounded == BridgeInv => Len(Bridge!Addresses) <= 3
<1> SUFFICES ASSUME BridgeInv PROVE Len(Bridge!Addresses) <= 3
  OBVIOUS
<1> DEFINE S == BRIDGE_ADDRESSES \cup {UNKNOWN}
<1>1. /\ AwPort \in Seq(S) /\ AwHeld \in Seq(S) /\ AwBefore \in Seq(S)
      /\ Len(AwPort) <= 1 /\ Len(AwHeld) <= 1 /\ Len(AwBefore) <= 1
  BY AwTypes
<1> HIDE DEF S
<1>2. /\ Row(AwPort, AwHeld) \in Seq(S)
      /\ Len(Row(AwPort, AwHeld)) = Len(AwPort) + Len(AwHeld)
  BY <1>1, RowSeq
<1>3. Len(Bridge!Addresses) = Len(Row(AwPort, AwHeld)) + Len(AwBefore)
  BY <1>1, <1>2, RowSeq, AwForm
<1>4. Len(AwPort) \in Nat /\ Len(AwHeld) \in Nat /\ Len(AwBefore) \in Nat
  BY <1>1, LenProperties
<1> QED
  BY <1>1, <1>2, <1>3, <1>4

\* A rising edge is a transfer of the FIFO.
LEMMA AwTransfer == BridgeInv /\ BridgeInv' /\ Bridge!Clock => Bridge!AddressFifo!Transfer
<1> SUFFICES ASSUME BridgeInv, BridgeInv', Bridge!Clock PROVE Bridge!AddressFifo!Transfer
  OBVIOUS
<1> DEFINE S == BRIDGE_ADDRESSES \cup {UNKNOWN}
           all == Row(Row(Row(AwPort, AwHeld), AwBefore), AwComing)
           rest == Row(Row(AwHeld, AwBefore), AwComing)
<1>1. /\ AwPort \in Seq(S) /\ AwHeld \in Seq(S)
      /\ AwBefore \in Seq(S) /\ AwComing \in Seq(S)
  BY AwTypes
<1>2. address \in S /\ {write, waitrequest, aw_ready} \subseteq BOOLEAN
  BY DEF BridgeInv, Bridge!TypeOK
<1> HIDE DEF S
<1>3. Bridge!AddressFifo!Offered = all
  BY AwForm
<1>4. write => all # <<>> /\ Head(all) = address /\ Tail(all) = rest
  <2>1. rest \in Seq(S)
    BY <1>1, RowSeq
  <2>2. all = Row(AwPort, rest)
    BY <1>1, Grouped
  <2>3. write => AwPort = <<address>>
    BY DEF AwPort, One
  <2> HIDE DEF all, rest
  <2>4. /\ Row(<<address>>, rest) # <<>>
        /\ Head(Row(<<address>>, rest)) = address
        /\ Tail(Row(<<address>>, rest)) = rest
    BY <1>2, <2>1, RowWord
  <2> QED
    BY <2>2, <2>3, <2>4, Zenon
<1>5. ~write => all = rest
  <2> SUFFICES ASSUME ~write PROVE all = rest
    OBVIOUS
  <2>1. AwPort = <<>>
    BY DEF AwPort, One
  <2>2. Row(AwPort, AwHeld) = AwHeld
    BY <1>1, <2>1, RowEmpty
  <2> QED
    BY <2>2
<1>6. Bridge!Addresses' = Row(Row(AwPort', AwHeld'), AwBefore')
  BY DEF Bridge!Addresses, AwPort, AwHeld, AwBefore, One,
     Bridge!AwBuffer!Contents, Row
<1>7. ASSUME aw_ready PROVE Bridge!Addresses' = IF waitrequest THEN all ELSE rest
  <2>1. AwHeld = <<>>
    BY <1>7, AwMoves
  <2>2. /\ Row(AwPort, AwHeld) = AwPort
        /\ Row(AwHeld, AwBefore) = AwBefore
        /\ Row(AwBefore, <<>>) = AwBefore
    BY <1>1, <2>1, RowEmpty
  <2>3. /\ AwBefore' = AwComing
        /\ waitrequest => AwPort' = AwPort /\ AwHeld' = AwBefore
        /\ ~waitrequest => AwPort' = AwBefore /\ AwHeld' = <<>>
    BY <1>7, AwMoves
  <2> QED
    BY <1>2, <1>6, <2>2, <2>3
<1>8. ASSUME ~aw_ready PROVE Bridge!Addresses' = IF waitrequest THEN all ELSE rest
  <2>1. AwComing = <<>>
    BY <1>8, AwMoves
  <2>2. Row(AwPort, AwHeld) \in Seq(S) /\ Row(AwHeld, AwBefore) \in Seq(S)
    BY <1>1, RowSeq
  <2>3. Row(Row(AwPort, AwHeld), AwBefore) \in Seq(S)
    BY <1>1, <2>2, RowSeq
  <2>4. /\ all = Row(Row(AwPort, AwHeld), AwBefore)
        /\ rest = Row(AwHeld, AwBefore)
        /\ Row(AwHeld, <<>>) = AwHeld
    BY <1>1, <2>1, <2>2, <2>3, RowEmpty
  <2>5. /\ AwBefore' = AwBefore
        /\ waitrequest => AwPort' = AwPort /\ AwHeld' = AwHeld
        /\ ~waitrequest => AwPort' = AwHeld /\ AwHeld' = <<>>
    BY <1>8, AwMoves
  <2> QED
    BY <1>2, <1>6, <2>4, <2>5
<1>9. Bridge!Addresses' = IF waitrequest THEN all ELSE rest
  BY <1>7, <1>8
<1>10. Len(Bridge!Addresses') <= 3
  <2>1. (BridgeInv => Len(Bridge!Addresses) <= 3)'
    BY AwBounded, PTL
  <2> QED
    BY <2>1
<1>11. write /\ waitrequest => write' /\ address' = address
  BY DEF Bridge!Clock, Bridge!ToAvalon, Bridge!Words, Bridge!AvalonWords
<1> HIDE DEF all, rest
<1>12. Bridge!Addresses' = IF write /\ ~waitrequest THEN Tail(all) ELSE all
  BY <1>2, <1>4, <1>5, <1>9
<1>13. bridge_areset_n /\ bridge_areset_n'
  BY DEF Bridge!Clock
<1> QED
  BY <1>3, <1>4, <1>10, <1>11, <1>12, <1>13
  DEF Bridge!AddressFifo!Transfer, Bridge!AddressFifo!Delivered

\* The channel is quiet at power-up.
LEMMA AddressInit == Bridge!Init => Bridge!AddressFifo!Init
BY DEF Bridge!Init, Bridge!AddressFifo!Init, Bridge!AddressFifo!Quiet,
   Bridge!Addresses, Bridge!AwBuffer!Contents,
   Bridge!awready

\* Every step is one of the FIFO or changes nothing it shows.
LEMMA AddressNext ==
    BridgeInv /\ BridgeInv' /\ [Bridge!Next]_(Bridge!vars)
        => [Bridge!AddressFifo!Next]_(Bridge!AddressFifo!vars)
<1> SUFFICES ASSUME BridgeInv, BridgeInv', [Bridge!Next]_(Bridge!vars)
    PROVE  [Bridge!AddressFifo!Next]_(Bridge!AddressFifo!vars)
  OBVIOUS
<1>1. CASE Bridge!Clock
  BY <1>1, AwTransfer DEF Bridge!AddressFifo!Next
<1>2. CASE Bridge!ClockInReset \/ Bridge!Reset
  <2>1. ~bridge_areset_n'
    BY <1>2 DEF Bridge!ClockInReset, Bridge!Reset
  <2>2. /\ ~aw_ready' /\ ~w_ready' /\ ~aligned_awvalid' /\ ~aligned_wvalid'
        /\ aw_state' = "IDLE" /\ w_state' = "IDLE" /\ ~write'
    BY <2>1 DEF BridgeInv, BridgeInReset, Bridge!Together
  <2> QED
    BY <2>1, <2>2 DEF Bridge!AddressFifo!Next, Bridge!AddressFifo!Reset,
       Bridge!AddressFifo!Quiet,
       Bridge!Addresses, Bridge!AwBuffer!Contents, Bridge!awready
<1>3. CASE Bridge!Release
  BY <1>3 DEF Bridge!Release, Bridge!inputs, Bridge!resettable, Bridge!words,
     Bridge!AddressFifo!Next, Bridge!AddressFifo!Release,
     Bridge!Addresses, Bridge!AwBuffer!Contents, Bridge!awready
<1>4. CASE UNCHANGED Bridge!vars
  BY <1>4 DEF Bridge!vars, Bridge!inputs, Bridge!resettable, Bridge!words,
     Bridge!AddressFifo!vars, Bridge!Addresses,
     Bridge!AwBuffer!Contents, Bridge!awready
<1> QED
  BY <1>1, <1>2, <1>3, <1>4 DEF Bridge!Next

-----------------------------------------------------------------------------
\* The channel of data.

WPort == One(write, writedata)
WHeld == One(w_state = "BUFFERED", w_buffered)
WBefore == One(aligned_wvalid, aligned_wdata)
WComing == One(awvalid /\ wvalid /\ w_ready, wdata)

\* The words inside, and with the one that is accepted now, as a row.
LEMMA WForm == BridgeInv =>
    /\ Bridge!Data = Row(Row(WPort, WHeld), WBefore)
    /\ Bridge!DataFifo!Offered = Row(Row(Row(WPort, WHeld), WBefore), WComing)
<1> SUFFICES ASSUME BridgeInv
    PROVE  /\ Bridge!Data = Row(Row(WPort, WHeld), WBefore)
           /\ Bridge!DataFifo!Offered = Row(Row(Row(WPort, WHeld), WBefore), WComing)
  OBVIOUS
<1>1. Bridge!Data = Row(Row(WPort, WHeld), WBefore)
  BY DEF Bridge!Data, WPort, WHeld, WBefore, One, Bridge!WBuffer!Contents, Row
<1>2. Bridge!DataFifo!Accepted = WComing
  BY DEF BridgeInv, Bridge!Together, Bridge!TypeOK, Bridge!DataFifo!Accepted,
     WComing, One, Bridge!wready
<1> QED
  BY <1>1, <1>2 DEF Bridge!DataFifo!Offered, Row

\* The places of the channel.
LEMMA WTypes == BridgeInv =>
    LET S == DATA \cup {UNKNOWN}
    IN  /\ WPort \in Seq(S) /\ WHeld \in Seq(S)
        /\ WBefore \in Seq(S) /\ WComing \in Seq(S)
        /\ Len(WPort) <= 1 /\ Len(WHeld) <= 1 /\ Len(WBefore) <= 1
<1> SUFFICES ASSUME BridgeInv
    PROVE  LET S == DATA \cup {UNKNOWN}
           IN  /\ WPort \in Seq(S) /\ WHeld \in Seq(S)
               /\ WBefore \in Seq(S) /\ WComing \in Seq(S)
               /\ Len(WPort) <= 1 /\ Len(WHeld) <= 1 /\ Len(WBefore) <= 1
  OBVIOUS
<1> DEFINE S == DATA \cup {UNKNOWN}
<1>1. /\ writedata \in S /\ w_buffered \in S /\ aligned_wdata \in S /\ wdata \in S
      /\ write \in BOOLEAN /\ aligned_wvalid \in BOOLEAN
      /\ (w_state = "BUFFERED") \in BOOLEAN
      /\ (awvalid /\ wvalid /\ w_ready) \in BOOLEAN
  BY DEF BridgeInv, Bridge!TypeOK
<1> HIDE DEF S
<1>2. WPort \in Seq(S) /\ Len(WPort) <= 1
  BY <1>1, OneSeq DEF WPort
<1>3. WHeld \in Seq(S) /\ Len(WHeld) <= 1
  BY <1>1, OneSeq DEF WHeld
<1>4. WBefore \in Seq(S) /\ Len(WBefore) <= 1
  BY <1>1, OneSeq DEF WBefore
<1>5. WComing \in Seq(S)
  BY <1>1, OneSeq DEF WComing
<1> QED
  BY <1>2, <1>3, <1>4, <1>5 DEF S

\* A clock moves every word on by as many places as are free.
LEMMA WMoves == BridgeInv /\ Bridge!Clock =>
    /\ WBefore' = IF w_ready THEN WComing ELSE WBefore
    /\ WHeld' = CASE ~waitrequest -> <<>>
                  [] waitrequest /\ w_ready -> WBefore
                  [] waitrequest /\ ~w_ready -> WHeld
    /\ WPort' = CASE waitrequest -> WPort
                  [] ~waitrequest /\ w_ready -> WBefore
                  [] ~waitrequest /\ ~w_ready -> WHeld
    /\ WComing # <<>> => w_ready
    /\ WHeld # <<>> => ~w_ready
<1> SUFFICES ASSUME BridgeInv, Bridge!Clock
    PROVE
    /\ WBefore' = IF w_ready THEN WComing ELSE WBefore
    /\ WHeld' = CASE ~waitrequest -> <<>>
                  [] waitrequest /\ w_ready -> WBefore
                  [] waitrequest /\ ~w_ready -> WHeld
    /\ WPort' = CASE waitrequest -> WPort
                  [] ~waitrequest /\ w_ready -> WBefore
                  [] ~waitrequest /\ ~w_ready -> WHeld
    /\ WComing # <<>> => w_ready
    /\ WHeld # <<>> => ~w_ready
  OBVIOUS
<1>1. /\ aw_state \in {"IDLE", "BUFFERED"}
      /\ aw_state = "BUFFERED" => ~aw_ready
      /\ w_state = aw_state /\ w_ready = aw_ready
      /\ aligned_wvalid = aligned_awvalid
  BY DEF BridgeInv, Bridge!TypeOK, Bridge!Together
<1>2. WBefore' = IF w_ready THEN WComing ELSE WBefore
  BY <1>1 DEF Bridge!Clock, Bridge!Words, Bridge!WriteAligned,
     Bridge!AlignedWords, WBefore, WComing, One
<1>3. WHeld' = CASE ~waitrequest -> <<>>
                  [] waitrequest /\ w_ready -> WBefore
                  [] waitrequest /\ ~w_ready -> WHeld
  BY <1>1 DEF Bridge!Clock, Bridge!Words, Bridge!WBuffer!FsmState,
     Bridge!WBuffer!Buffered, WHeld, WBefore, One
<1>4. WPort' = CASE waitrequest -> WPort
                  [] ~waitrequest /\ w_ready -> WBefore
                  [] ~waitrequest /\ ~w_ready -> WHeld
  BY <1>1 DEF Bridge!Clock, Bridge!Words, Bridge!ToAvalon, Bridge!AvalonWords,
     Bridge!AwBuffer!tx_tvalid,
     Bridge!WBuffer!tx_tvalid, Bridge!WBuffer!tx_tdata, WPort, WHeld, WBefore,
        One
<1>5. /\ WComing # <<>> => w_ready
      /\ WHeld # <<>> => ~w_ready
  BY <1>1 DEF WHeld, WComing, One
<1> QED
  BY <1>2, <1>3, <1>4, <1>5

\* There are never more than three words inside.
LEMMA WBounded == BridgeInv => Len(Bridge!Data) <= 3
<1> SUFFICES ASSUME BridgeInv PROVE Len(Bridge!Data) <= 3
  OBVIOUS
<1> DEFINE S == DATA \cup {UNKNOWN}
<1>1. /\ WPort \in Seq(S) /\ WHeld \in Seq(S) /\ WBefore \in Seq(S)
      /\ Len(WPort) <= 1 /\ Len(WHeld) <= 1 /\ Len(WBefore) <= 1
  BY WTypes
<1> HIDE DEF S
<1>2. /\ Row(WPort, WHeld) \in Seq(S)
      /\ Len(Row(WPort, WHeld)) = Len(WPort) + Len(WHeld)
  BY <1>1, RowSeq
<1>3. Len(Bridge!Data) = Len(Row(WPort, WHeld)) + Len(WBefore)
  BY <1>1, <1>2, RowSeq, WForm
<1>4. Len(WPort) \in Nat /\ Len(WHeld) \in Nat /\ Len(WBefore) \in Nat
  BY <1>1, LenProperties
<1> QED
  BY <1>1, <1>2, <1>3, <1>4

\* A rising edge is a transfer of the FIFO.
LEMMA WTransfer == BridgeInv /\ BridgeInv' /\ Bridge!Clock => Bridge!DataFifo!Transfer
<1> SUFFICES ASSUME BridgeInv, BridgeInv', Bridge!Clock PROVE Bridge!DataFifo!Transfer
  OBVIOUS
<1> DEFINE S == DATA \cup {UNKNOWN}
           all == Row(Row(Row(WPort, WHeld), WBefore), WComing)
           rest == Row(Row(WHeld, WBefore), WComing)
<1>1. /\ WPort \in Seq(S) /\ WHeld \in Seq(S)
      /\ WBefore \in Seq(S) /\ WComing \in Seq(S)
  BY WTypes
<1>2. writedata \in S /\ {write, waitrequest, w_ready} \subseteq BOOLEAN
  BY DEF BridgeInv, Bridge!TypeOK
<1> HIDE DEF S
<1>3. Bridge!DataFifo!Offered = all
  BY WForm
<1>4. write => all # <<>> /\ Head(all) = writedata /\ Tail(all) = rest
  <2>1. rest \in Seq(S)
    BY <1>1, RowSeq
  <2>2. all = Row(WPort, rest)
    BY <1>1, Grouped
  <2>3. write => WPort = <<writedata>>
    BY DEF WPort, One
  <2> HIDE DEF all, rest
  <2>4. /\ Row(<<writedata>>, rest) # <<>>
        /\ Head(Row(<<writedata>>, rest)) = writedata
        /\ Tail(Row(<<writedata>>, rest)) = rest
    BY <1>2, <2>1, RowWord
  <2> QED
    BY <2>2, <2>3, <2>4, Zenon
<1>5. ~write => all = rest
  <2> SUFFICES ASSUME ~write PROVE all = rest
    OBVIOUS
  <2>1. WPort = <<>>
    BY DEF WPort, One
  <2>2. Row(WPort, WHeld) = WHeld
    BY <1>1, <2>1, RowEmpty
  <2> QED
    BY <2>2
<1>6. Bridge!Data' = Row(Row(WPort', WHeld'), WBefore')
  BY DEF Bridge!Data, WPort, WHeld, WBefore, One, Bridge!WBuffer!Contents, Row
<1>7. ASSUME w_ready PROVE Bridge!Data' = IF waitrequest THEN all ELSE rest
  <2>1. WHeld = <<>>
    BY <1>7, WMoves
  <2>2. /\ Row(WPort, WHeld) = WPort
        /\ Row(WHeld, WBefore) = WBefore
        /\ Row(WBefore, <<>>) = WBefore
    BY <1>1, <2>1, RowEmpty
  <2>3. /\ WBefore' = WComing
        /\ waitrequest => WPort' = WPort /\ WHeld' = WBefore
        /\ ~waitrequest => WPort' = WBefore /\ WHeld' = <<>>
    BY <1>7, WMoves
  <2> QED
    BY <1>2, <1>6, <2>2, <2>3
<1>8. ASSUME ~w_ready PROVE Bridge!Data' = IF waitrequest THEN all ELSE rest
  <2>1. WComing = <<>>
    BY <1>8, WMoves
  <2>2. Row(WPort, WHeld) \in Seq(S) /\ Row(WHeld, WBefore) \in Seq(S)
    BY <1>1, RowSeq
  <2>3. Row(Row(WPort, WHeld), WBefore) \in Seq(S)
    BY <1>1, <2>2, RowSeq
  <2>4. /\ all = Row(Row(WPort, WHeld), WBefore)
        /\ rest = Row(WHeld, WBefore)
        /\ Row(WHeld, <<>>) = WHeld
    BY <1>1, <2>1, <2>2, <2>3, RowEmpty
  <2>5. /\ WBefore' = WBefore
        /\ waitrequest => WPort' = WPort /\ WHeld' = WHeld
        /\ ~waitrequest => WPort' = WHeld /\ WHeld' = <<>>
    BY <1>8, WMoves
  <2> QED
    BY <1>2, <1>6, <2>4, <2>5
<1>9. Bridge!Data' = IF waitrequest THEN all ELSE rest
  BY <1>7, <1>8
<1>10. Len(Bridge!Data') <= 3
  <2>1. (BridgeInv => Len(Bridge!Data) <= 3)'
    BY WBounded, PTL
  <2> QED
    BY <2>1
<1>11. write /\ waitrequest => write' /\ writedata' = writedata
  BY DEF Bridge!Clock, Bridge!ToAvalon, Bridge!Words, Bridge!AvalonWords
<1> HIDE DEF all, rest
<1>12. Bridge!Data' = IF write /\ ~waitrequest THEN Tail(all) ELSE all
  BY <1>2, <1>4, <1>5, <1>9
<1>13. bridge_areset_n /\ bridge_areset_n'
  BY DEF Bridge!Clock
<1> QED
  BY <1>3, <1>4, <1>10, <1>11, <1>12, <1>13
  DEF Bridge!DataFifo!Transfer, Bridge!DataFifo!Delivered

\* The channel is quiet at power-up.
LEMMA DataInit == Bridge!Init => Bridge!DataFifo!Init
BY DEF Bridge!Init, Bridge!DataFifo!Init, Bridge!DataFifo!Quiet, Bridge!Data,
   Bridge!WBuffer!Contents,
   Bridge!wready

\* Every step is one of the FIFO or changes nothing it shows.
LEMMA DataNext ==
    BridgeInv /\ BridgeInv' /\ [Bridge!Next]_(Bridge!vars)
        => [Bridge!DataFifo!Next]_(Bridge!DataFifo!vars)
<1> SUFFICES ASSUME BridgeInv, BridgeInv', [Bridge!Next]_(Bridge!vars)
    PROVE  [Bridge!DataFifo!Next]_(Bridge!DataFifo!vars)
  OBVIOUS
<1>1. CASE Bridge!Clock
  BY <1>1, WTransfer DEF Bridge!DataFifo!Next
<1>2. CASE Bridge!ClockInReset \/ Bridge!Reset
  <2>1. ~bridge_areset_n'
    BY <1>2 DEF Bridge!ClockInReset, Bridge!Reset
  <2>2. /\ ~aw_ready' /\ ~w_ready' /\ ~aligned_awvalid' /\ ~aligned_wvalid'
        /\ aw_state' = "IDLE" /\ w_state' = "IDLE" /\ ~write'
    BY <2>1 DEF BridgeInv, BridgeInReset, Bridge!Together
  <2> QED
    BY <2>1, <2>2 DEF Bridge!DataFifo!Next, Bridge!DataFifo!Reset,
       Bridge!DataFifo!Quiet,
       Bridge!Data, Bridge!WBuffer!Contents, Bridge!wready
<1>3. CASE Bridge!Release
  BY <1>3 DEF Bridge!Release, Bridge!inputs, Bridge!resettable, Bridge!words,
     Bridge!DataFifo!Next, Bridge!DataFifo!Release,
     Bridge!Data, Bridge!WBuffer!Contents, Bridge!wready
<1>4. CASE UNCHANGED Bridge!vars
  BY <1>4 DEF Bridge!vars, Bridge!inputs, Bridge!resettable, Bridge!words,
     Bridge!DataFifo!vars, Bridge!Data,
     Bridge!WBuffer!Contents, Bridge!wready
<1> QED
  BY <1>1, <1>2, <1>3, <1>4 DEF Bridge!Next

-----------------------------------------------------------------------------

(***************************************************************************)
(* Both channels are FIFOs that deliver with the same `write': no address  *)
(* and no word of data is lost, written twice or with another's partner.   *)
(***************************************************************************)
THEOREM WritesAlwaysWhole == Bridge!Spec => Bridge!WritesWhole
<1>1. Bridge!Spec => Bridge!AddressFifo!Spec
  BY AddressInit, AddressNext, BridgeInvariance, PTL DEF Bridge!Spec,
     Bridge!AddressFifo!Spec
<1>2. Bridge!Spec => Bridge!DataFifo!Spec
  BY DataInit, DataNext, BridgeInvariance, PTL DEF Bridge!Spec,
     Bridge!DataFifo!Spec
<1> QED
  BY <1>1, <1>2, PTL DEF Bridge!WritesWhole

\* The specification that the run checks is that of the bridge, too.
THEOREM BlocksWriteWhole == MCSpec => WritesWhole
<1>1. MCInit => Bridge!Init
  BY DEF MCInit
<1>2. [MCNext]_mcVars => [Bridge!Next]_(Bridge!vars)
  BY DEF MCNext, QueueNext, BusNext, BridgeNext, mcVars, bridge, Bridge!vars,
     Bridge!inputs, Bridge!resettable, Bridge!words
<1>3. MCSpec => Bridge!Spec
  BY <1>1, <1>2, PTL DEF MCSpec, Bridge!Spec
<1> QED
  BY <1>3, WritesAlwaysWhole DEF WritesWhole

=============================================================================
