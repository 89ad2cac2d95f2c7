------------------------------- MODULE LiteBus -------------------------------
(***************************************************************************)
(* logic_axi4_lite_bus_multi_slave: one master, several slaves.  The       *)
(* decoder forks a request into the queue of requests and into queues of   *)
(* slave numbers, one for each channel of the path; the multiplexer takes  *)
(* a request, a word of data or a response when the number at the head of  *)
(* the channel's queue says whose it is.                                   *)
(*                                                                         *)
(* The write path (AW, W, B) and the read path (AR, R) share no register,  *)
(* and the latter is the former without W: a behaviour is about one of     *)
(* them.  A register or a port is a sequence: empty, or its valid word.    *)
(*                                                                         *)
(* The queues are alike, as in the code: FIFOs of CAPACITY words, ready    *)
(* while there is room, that show a word in the clock after they accepted  *)
(* it (BasicQueue has the queue itself, which implements StreamFifo).  The *)
(* skid buffers before the decoder and between the slaves and the          *)
(* multiplexer, and the queue of the responses, are FIFOs in a row with    *)
(* the environment and part of it: both sides wait as long as they like.   *)
(* A behaviour begins when the reset is released; later resets are left    *)
(* out.                                                                    *)
(***************************************************************************)
EXTENDS Integers, Sequences

CONSTANTS SLAVES, MAP,    \* of each slave: address_low and address_high
          ADDRESSES,      \* the addresses that are asked for
          CAPACITY,       \* of the queues
          DECERR,
          Outstanding,    \* bound on the requests without a response
          MaxLead         \* bound on the requests ahead of their data

Parameters ==
    /\ SLAVES \in Nat \ {0}
    /\ CAPACITY \in Nat \ {0}
    /\ MaxLead < CAPACITY
    /\ DECERR \notin [slave : 0 .. SLAVES - 1, data : {0, 1},
                      request : [address : ADDRESSES, number : {0, 1}]]

VARIABLES path,               \* "write" or "read"
          request, data,      \* on the port of the master: AW or AR, and W
          bready,             \* of the master: bready or rready
          decoded,            \* the registers of the decoder, by stream
          fifo, shown, ready, \* the queues: words, tvalid and tready on their ports
          to_slave, w_slave,  \* the registers of the multiplexer, by slave
          response,           \* its register for the response
          job, given, answer, \* the slaves: accepted AW or AR, W, and B or R
          behind,             \* requests without data so far
          asked, gave,        \* number of requests and of data so far, mod 2
          owed                \* requests without a response, oldest first

busVars == <<path, request, data, bready, decoded, fifo, shown, ready, to_slave,
             w_slave, response, job, given, answer, behind, asked, gave, owed>>

Slaves == 0 .. SLAVES - 1

\* The queues of slave numbers, named for the channels they serve.
Ids == {"address", "response"} \cup (IF path = "write" THEN {"data"} ELSE {})

\* What a request is forked into.
Forked == {"request"} \cup Ids

Streams == Forked \cup (IF path = "write" THEN {"wdata"} ELSE {})

-----------------------------------------------------------------------------
\* The decoder.

InMap(k, address) ==
    MAP[k].address_low <= address /\ address < MAP[k].address_high

\* The last slave whose range has the address.
SlaveId(address) ==
    LET mapped == {k \in Slaves : InMap(k, address)}
    IN  IF mapped = {} THEN [valid |-> FALSE, value |-> 0]
        ELSE [valid |-> TRUE,
              value |-> CHOOSE k \in mapped : \A j \in mapped : j <= k]

AddressReady == request = <<>> \/ \A s \in Forked : ready[s]

DataReady == data = <<>> \/ \A s \in Ids \cup {"wdata"} : ready[s]

\* The register of a stream gets a word, given that its queue is ready.
Enters(s) ==
    IF s = "wdata" THEN data # <<>> /\ \A t \in Ids : ready[t]
                   ELSE request # <<>> /\ \A t \in Forked \ {s} : ready[t]

Carried(s) ==
    CASE s = "request" -> request
      [] s = "wdata" -> data
      [] OTHER -> <<SlaveId(request[1].address)>>

Decoder ==
    decoded' = [s \in Streams |->
                   CASE ready[s] /\ Enters(s) -> Carried(s)
                     [] ready[s] /\ ~Enters(s) -> <<>>
                     [] OTHER -> decoded[s]]

-----------------------------------------------------------------------------
\* The multiplexer.

Id(channel) == Head(fifo[channel])

\* The queue of the channel shows the number of slave k.
Chosen(channel, k) ==
    shown[channel] /\ Id(channel).valid /\ Id(channel).value = k

Unmapped(channel) == shown[channel] /\ ~Id(channel).valid

\* awready or arready, wready, and bvalid or rvalid of the multiplexer.
AddressPasses ==
    Unmapped("address") \/ \E k \in Slaves : Chosen("address", k) /\ job[k] = <<>>

\* Mutant: data for no slave are not taken.
DataPasses_Mapped == \E k \in Slaves : Chosen("data", k) /\ given[k] = <<>>

DataPasses ==
    Unmapped("data") \/ \E k \in Slaves : Chosen("data", k) /\ given[k] = <<>>

\* Mutant: a response is taken as soon as any slave has one.
Answered_First ==
    \/ Unmapped("response")
    \/ shown["response"] /\ \E k \in Slaves : answer[k] # <<>>

Answered ==
    Unmapped("response") \/ \E k \in Slaves : Chosen("response", k) /\ answer[k] # <<>>

\* The word that a queue shows is taken.
Taken(s) ==
    /\ shown[s]
    /\ CASE s = "request" -> AddressPasses
         [] s = "address" -> shown["request"] /\ AddressPasses
         [] s = "wdata" -> DataPasses
         [] s = "data" -> shown["wdata"] /\ DataPasses
         [] s = "response" -> bready /\ Answered

\* What goes to a slave that can take it: the word that the stream shows.
Passed(s, channel, k) ==
    IF shown[s] /\ Chosen(channel, k) THEN <<Head(fifo[s])>> ELSE <<>>

ToSlaves ==
    /\ to_slave' = [k \in Slaves |-> IF job[k] = <<>>
                       THEN Passed("request", "address", k) ELSE to_slave[k]]
    /\ w_slave' = [k \in Slaves |-> IF path = "write" /\ given[k] = <<>>
                       THEN Passed("wdata", "data", k) ELSE w_slave[k]]

\* The response of the slave, or DECERR.
Selected == IF Unmapped("response") THEN <<DECERR>> ELSE answer[Id("response").value]

Response ==
    response' = CASE bready /\ Answered -> Selected
                  [] bready /\ ~Answered -> <<>>
                  [] OTHER -> response

-----------------------------------------------------------------------------
\* The environment.

Queues ==
    LET rest == [s \in Streams |-> IF Taken(s) THEN Tail(fifo[s]) ELSE fifo[s]]
    IN  /\ fifo' = [s \in Streams |->
                       IF ready[s] THEN rest[s] \o decoded[s] ELSE rest[s]]
        /\ shown' = [s \in Streams |-> rest[s] # <<>>]
        /\ ready' = [s \in Streams |-> Len(fifo'[s]) < CAPACITY]

\* A slave has one request at a time, and answers it after any time.
CanAnswer ==
    {k \in Slaves : job[k] # <<>> /\ answer[k] = <<>>
                        /\ (path = "write" => given[k] # <<>>)}

Answer(k) ==
    [slave |-> k, request |-> job[k][1],
     data |-> IF path = "write" THEN given[k][1] ELSE job[k][1].number]

SlavesStep(answering) ==
    /\ job' = [k \in Slaves |-> CASE job[k] = <<>> -> to_slave[k]
                                  [] k \in answering -> <<>>
                                  [] OTHER -> job[k]]
    /\ given' = [k \in Slaves |-> CASE given[k] = <<>> -> w_slave[k]
                                    [] k \in answering -> <<>>
                                    [] OTHER -> given[k]]
    /\ answer' = [k \in Slaves |->
          CASE k \in answering -> <<Answer(k)>>
            [] k \notin answering /\ bready /\ Chosen("response", k) -> <<>>
            [] OTHER -> answer[k]]

\* The master holds what is not accepted.  Data may come before its request.
Unanswered == IF response # <<>> /\ bready THEN Tail(owed) ELSE owed

Ask ==
    \/ /\ request' = IF AddressReady THEN <<>> ELSE request
       /\ owed' = Unanswered
       /\ UNCHANGED asked
    \/ /\ AddressReady
       /\ Len(Unanswered) < Outstanding
       /\ behind < MaxLead
       /\ \E address \in ADDRESSES :
             request' = <<[address |-> address, number |-> asked]>>
       /\ owed' = Unanswered \o request'
       /\ asked' = 1 - asked

Give ==
    \/ /\ data' = IF DataReady THEN <<>> ELSE data
       /\ UNCHANGED gave
    \/ /\ path = "write"
       /\ DataReady
       /\ behind > -1
       /\ data' = <<gave>>
       /\ gave' = 1 - gave

Lead ==
    LET more == IF asked' # asked THEN 1 ELSE 0
        less == IF gave' # gave THEN 1 ELSE 0
    IN  behind' = IF path = "write" THEN behind + more - less ELSE 0

-----------------------------------------------------------------------------

Init ==
    /\ path \in {"write", "read"}
    /\ request = <<>> /\ data = <<>> /\ bready = FALSE
    /\ decoded = [s \in Streams |-> <<>>]
    /\ fifo = [s \in Streams |-> <<>>]
    /\ shown = [s \in Streams |-> FALSE]
    /\ ready = [s \in Streams |-> FALSE]
    /\ to_slave = [k \in Slaves |-> <<>>]
    /\ w_slave = [k \in Slaves |-> <<>>]
    /\ response = <<>>
    /\ job = [k \in Slaves |-> <<>>]
    /\ given = [k \in Slaves |-> <<>>]
    /\ answer = [k \in Slaves |-> <<>>]
    /\ behind = 0 /\ asked = 0 /\ gave = 0
    /\ owed = <<>>

\* A rising edge of aclk.
Clock ==
    /\ Decoder
    /\ ToSlaves
    /\ Response
    /\ Queues
    /\ \E answering \in SUBSET CanAnswer : SlavesStep(answering)
    /\ bready' \in BOOLEAN
    /\ Ask /\ Give /\ Lead
    /\ UNCHANGED path

BusSpec == Init /\ [][Clock]_busVars

(***************************************************************************)
(* Again and again there is a clock in which the slaves answer, the master *)
(* gives the data it still owes, and is ready for a response, whether or   *)
(* not there is one: slaves and master do not wait for ever.               *)
(* (An idle bus goes on: bready rises and falls.)                          *)
(***************************************************************************)
Prompt ==
    /\ bready' = TRUE
    /\ SlavesStep(CanAnswer)
    /\ Clock
    /\ behind > 0 /\ DataReady => gave' # gave

Fairness == []<><<Prompt>>_busVars

FairSpec == BusSpec /\ Fairness

-----------------------------------------------------------------------------

\* The answer to a request, from the slave it is for and with its own data.
Answers(a, r) ==
    LET mapped == {k \in Slaves : InMap(k, r.address)}
    IN  IF mapped = {}
          THEN a = DECERR
          ELSE a # DECERR /\ a.slave \in mapped /\ a.request = r /\ a.data = r.number

(***************************************************************************)
(* Each request gets one response, in the order of the requests, although  *)
(* slaves answer in any order: that of a slave whose range has its         *)
(* address, which got the request with its own data, or DECERR.  Nothing   *)
(* reaches another slave.                                                  *)
(***************************************************************************)
AnsweredInOrder ==
    /\ response # <<>> => owed # <<>> /\ Answers(response[1], Head(owed))
    /\ \A k \in Slaves : to_slave[k] # <<>> => InMap(k, to_slave[k][1].address)

(***************************************************************************)
(* Every request is answered: requests, data and slave numbers never wait  *)
(* for each other in a circle.  (The master must not be CAPACITY requests  *)
(* ahead of its data, see Parameters: the data would find the queues of    *)
(* slave numbers full, which only they could empty.)                       *)
(***************************************************************************)
EveryRequestAnswered == owed # <<>> ~> response # <<>> /\ bready

=============================================================================
