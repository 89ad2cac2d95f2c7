------------------------- MODULE StreamBlocksProof -------------------------
(***************************************************************************)
(* Theorems about the blocks of AXI4-Stream.                               *)
(*   - The multiplexer (StreamMux), for every depth of its tree, every set *)
(*     of words and every schedule of packets and pauses: it never mixes   *)
(*     two packets.                                                        *)
(*   - The skid buffer (BasicBuffer) that stands at the inputs of all      *)
(*     blocks, for every set of words: it implements the FIFO of one word. *)
(*   - The multiplexer and the demultiplexer (StreamDemux), for every      *)
(*     number, grouping and map of its outputs: to each input of the one   *)
(*     and each port of the other the block is a FIFO.  The words of an    *)
(*     input, or for a port, are on a way of cells, a skid buffer and a    *)
(*     register each; all of them in a row are the contents of the FIFO.   *)
(*   - The extractor and the splitter behind it (MCStreamDistributor), for *)
(*     every number of identifiers and of copies: to each of their outputs *)
(*     they are a FIFO.                                                    *)
(*   - The downsizer and the upsizer behind it (MCStreamResizer), for any  *)
(*     number of lanes and words of every shape: they pass the bytes and   *)
(*     the ends of the packets on, in their order.                         *)
(***************************************************************************)
EXTENDS MCStreamRouting, MCStreamDistributor, MCStreamResizer, FiniteSetTheorems, Rows, TLAPS

-----------------------------------------------------------------------------
\* The multiplexer.

\* The streams of the tree and those an input may own.
Streams == 0 .. MUXED - 1

Owners == Inputs \cup {NoInput}

\* The owner of a stream after a word of it.
Following(w) == IF w.last THEN NoInput ELSE w.src

\* A word is of the packet that was begun, or begins one.
Continues(s, w) == s \in {NoInput, w.src}

Kept(n) == n \in Buffers /\ buffer_state[n] = "BUFFERED"

(***************************************************************************)
(* Of the stream n, whose owner in front of its multiplexer is s: the      *)
(* owner behind the word in its skid buffer, and behind the word on it.    *)
(***************************************************************************)
AfterKept(s, n) == IF Kept(n) THEN Following(buffered[n]) ELSE s

Begun(s, n) ==
    IF Valid(n) THEN Following(Word(n)) ELSE AfterKept(s, n)

Fits(s, n) ==
    /\ Kept(n) => buffered[n] \in Words /\ Continues(s, buffered[n])
    /\ Valid(n) => Word(n) \in Words /\ Continues(AfterKept(s, n), Word(n))

(***************************************************************************)
(* A multiplexer that has selected an input is inside a packet of it; the  *)
(* other input, or both, are between two packets.                          *)
(***************************************************************************)
Branch(h, u) ==
    /\ fsm_state[u] \in {"FIRST", "SECOND"} => Begun(h[u], u) = NoInput
    /\ fsm_state[u] = "FIRST_SELECT" =>
          Begun(h[u], u) # NoInput /\ Begun(h[u], u) = h[First(u)]
    /\ fsm_state[u] = "SECOND_SELECT" =>
          Begun(h[u], u) # NoInput /\ Begun(h[u], u) = h[Second(u)]
    /\ fsm_state[u] # "FIRST_SELECT" => h[First(u)] = NoInput
    /\ fsm_state[u] # "SECOND_SELECT" => h[Second(u)] = NoInput

\* The stream of an input has no other owner.
Leaf(h, n) ==
    /\ h[n] \in {NoInput, InputOf(n)}
    /\ Kept(n) => buffered[n].src = InputOf(n)

Owned(h) ==
    /\ h \in [Streams -> Owners]
    /\ h[0] = owner
    /\ \A n \in Streams : Fits(h[n], n)
    /\ \A u \in Units : Branch(h, u)
    /\ \A n \in Streams \ Units : Leaf(h, n)
    /\ ~areset_n => \A n \in Streams : ~Kept(n) /\ ~Valid(n) /\ h[n] = NoInput

ReadyInv == \A n \in Buffers : Kept(n) => ~buffer_tready[n]

(***************************************************************************)
(* The inductive invariant.  The tree does not know whose packet passes    *)
(* through a stream: there is some owner of each stream that fits.         *)
(***************************************************************************)
MuxInv == TypeOK /\ ReadyInv /\ \E h \in [Streams -> Owners] : Owned(h)

-----------------------------------------------------------------------------

\* Powers of two are numbers.
LEMMA PowerType == 2^DEPTH \in Nat /\ 2^DEPTH >= 2
<1> DEFINE S == 1 .. DEPTH
           T == {{}, {1}}
<1>1. DEPTH \in Nat /\ DEPTH >= 1
  BY MuxAssumption
<1>2. IsFiniteSet(S) /\ Cardinality(S) = DEPTH
  BY <1>1, FS_Interval
<1>3. IsFiniteSet(SUBSET S) /\ Cardinality(SUBSET S) = 2^DEPTH
  BY <1>2, FS_SUBSET
<1>4. T \subseteq SUBSET S
  BY <1>1
<1>5. Cardinality(T) = 2
  <2>1. IsFiniteSet({{1}}) /\ Cardinality({{1}}) = 1
    BY FS_Singleton
  <2>2. T = {{1}} \cup {{}} /\ {} \notin {{1}}
    OBVIOUS
  <2>3. Cardinality(T) = Cardinality({{1}}) + 1
    BY <2>1, <2>2, FS_AddElement
  <2> QED
    BY <2>1, <2>3
<1> HIDE DEF S, T
<1>6. Cardinality(SUBSET S) \in Nat
  BY <1>3, FS_CardinalityType
<1>7. Cardinality(T) <= Cardinality(SUBSET S)
  BY <1>3, <1>4, FS_Subset
<1> QED
  BY <1>3, <1>5, <1>6, <1>7

\* The numbers of the streams form a heap.
LEMMA Heap ==
    /\ MUXED \in Nat /\ MUXED >= 1
    /\ Units \subseteq Streams /\ Buffers \subseteq Streams
    /\ 0 \in Streams /\ 0 \in Units /\ 0 \notin Buffers
    /\ \A n \in Streams : n \in Buffers \/ n = 0
    /\ \A n \in Buffers : /\ ParentOf(n) \in Units
                          /\ n = First(ParentOf(n)) \/ n = Second(ParentOf(n))
    /\ \A u \in Units : /\ First(u) \in Buffers /\ Second(u) \in Buffers
                        /\ First(u) # Second(u)
                        /\ ParentOf(First(u)) = u /\ ParentOf(Second(u)) = u
    /\ \A k \in Inputs : /\ MUXED - 1 - k \in Streams \ Units
                         /\ InputOf(MUXED - 1 - k) = k
<1> DEFINE N == 2^DEPTH
<1>1. N \in Nat /\ N >= 2
  BY PowerType
<1>2. INPUTS \in Nat /\ INPUTS <= N
  BY MuxAssumption
<1>3. MUXED = 2 * N - 1 /\ Units = 0 .. N - 2 /\ Buffers = 1 .. 2 * N - 2
      /\ Streams = 0 .. 2 * N - 2
  BY <1>1 DEF MUXED, INPUTS_NORMALIZED, Units, Buffers, Streams
<1> HIDE DEF N
<1>4. /\ MUXED \in Nat /\ MUXED >= 1
      /\ Units \subseteq Streams /\ Buffers \subseteq Streams
      /\ 0 \in Streams /\ 0 \in Units /\ 0 \notin Buffers
      /\ \A n \in Streams : n \in Buffers \/ n = 0
  BY <1>1, <1>3
<1>5. ASSUME NEW n \in Buffers
      PROVE  /\ ParentOf(n) \in Units
             /\ n = First(ParentOf(n)) \/ n = Second(ParentOf(n))
  BY <1>1, <1>3 DEF ParentOf, First, Second
<1>6. ASSUME NEW u \in Units
      PROVE  /\ First(u) \in Buffers /\ Second(u) \in Buffers
             /\ First(u) # Second(u)
             /\ ParentOf(First(u)) = u /\ ParentOf(Second(u)) = u
  BY <1>1, <1>3 DEF ParentOf, First, Second
<1>7. ASSUME NEW k \in Inputs
      PROVE  MUXED - 1 - k \in Streams \ Units /\ InputOf(MUXED - 1 - k) = k
  BY <1>1, <1>2, <1>3 DEF Inputs, InputOf
<1> QED
  BY <1>4, <1>5, <1>6, <1>7

-----------------------------------------------------------------------------

\* A word passes from a stream to the one behind, or from stream 0 to Tx.
Passed(n) ==
    IF n = 0 THEN Valid(0) /\ tx_tready
    ELSE BufferedValid(n) /\ Selected(ParentOf(n)) = n /\ Ready(ParentOf(n))

PassedWord(n) == IF n = 0 THEN Word(0) ELSE BufferedWord(n)

Moved(h) == [n \in Streams |-> IF Passed(n) THEN Following(PassedWord(n))
                                            ELSE h[n]]

\* What a multiplexer can take fits the owner of the stream.
LEMMA BufferedFits ==
    ASSUME TypeOK, NEW n \in Buffers, NEW s, Fits(s, n), BufferedValid(n)
    PROVE  BufferedWord(n) \in Words /\ Continues(s, BufferedWord(n))
<1>1. CASE Kept(n)
  BY <1>1 DEF Kept, Fits, BufferedWord
<1>2. CASE ~Kept(n)
  <2>1. buffer_state[n] = "IDLE"
    BY <1>2 DEF Kept, TypeOK
  <2>2. Valid(n) /\ BufferedWord(n) = Word(n)
    BY <2>1 DEF BufferedValid, BufferedWord
  <2> QED
    BY <1>2, <2>2 DEF Fits, AfterKept
<1> QED
  BY <1>1, <1>2

(***************************************************************************)
(* A clock of a skid buffer: the word that it takes is either passed on or *)
(* kept, and it takes none while it keeps one.                             *)
(***************************************************************************)
LEMMA BufferStep ==
    ASSUME TypeOK, ReadyInv, ClockBuffers, NEW n \in Buffers,
           NEW s, NEW s2, Fits(s, n),
           s2 = IF Passed(n) THEN Following(PassedWord(n)) ELSE s
    PROVE  /\ Kept(n)' => ~buffer_tready'[n]
           /\ AfterKept(s2, n)' = IF Valid(n) /\ Ready(n) THEN Following(Word(n))
                                                          ELSE AfterKept(s, n)
           /\ Kept(n)' => /\ buffered'[n] \in Words /\ Continues(s2, buffered'[n])
                          /\ \/ Valid(n) /\ buffered'[n] = Word(n)
                             \/ Kept(n) /\ buffered'[n] = buffered[n]
<1>1. n # 0
  BY Heap
<1>2. /\ Ready(n) = buffer_tready[n]
      /\ Passed(n) <=> BufferedValid(n) /\ Selected(ParentOf(n)) = n /\ Ready(ParentOf(n))
      /\ PassedWord(n) = BufferedWord(n)
  BY <1>1 DEF Ready, Passed, PassedWord
<1>3. BufferedReady(n) <=> ~BufferedValid(n) \/ Passed(n)
  BY <1>2 DEF BufferedReady
<1>4. /\ buffer_state'[n] = NextBufferState(n)
      /\ buffer_tready'[n] = BufferedReady(n)
      /\ buffered'[n] = IF buffer_tready[n] THEN Word(n) ELSE buffered[n]
  BY DEF ClockBuffers
<1>5. Kept(n)' <=> buffer_state'[n] = "BUFFERED"
  BY DEF Kept
<1>6. CASE Kept(n)
  <2>1. ~buffer_tready[n] /\ buffer_state[n] = "BUFFERED"
    BY <1>6 DEF ReadyInv, Kept
  <2>2. BufferedValid(n) /\ BufferedWord(n) = buffered[n]
    BY <2>1 DEF BufferedValid, BufferedWord
  <2>3. buffered'[n] = buffered[n]
    BY <1>4, <2>1
  <2>4. AfterKept(s, n) = Following(buffered[n])
    BY <1>6 DEF AfterKept
  <2>5. CASE Passed(n)
    <3>1. ~Kept(n)'
      BY <1>3, <1>4, <1>5, <2>1, <2>5 DEF NextBufferState
    <3>2. AfterKept(s2, n)' = s2
      BY <3>1 DEF AfterKept
    <3> QED
      BY <1>2, <2>1, <2>2, <2>4, <2>5, <3>1, <3>2
  <2>6. CASE ~Passed(n)
    <3>1. Kept(n)' /\ ~buffer_tready'[n]
      BY <1>3, <1>4, <1>5, <2>1, <2>2, <2>6 DEF NextBufferState
    <3>2. AfterKept(s2, n)' = Following(buffered[n])
      BY <2>3, <3>1 DEF AfterKept, Following
    <3>3. buffered[n] \in Words /\ Continues(s, buffered[n])
      BY <1>6 DEF Fits
    <3> QED
      BY <1>2, <1>6, <2>1, <2>3, <2>4, <2>6, <3>1, <3>2, <3>3
  <2> QED
    BY <2>5, <2>6
<1>7. CASE ~Kept(n)
  <2>1. buffer_state[n] = "IDLE"
    BY <1>7 DEF Kept, TypeOK
  <2>2. BufferedValid(n) <=> Valid(n) /\ buffer_tready[n]
    BY <2>1 DEF BufferedValid
  <2>3. BufferedWord(n) = Word(n)
    BY <2>1 DEF BufferedWord
  <2>4. AfterKept(s, n) = s
    BY <1>7 DEF AfterKept
  <2>5. CASE BufferedValid(n) /\ ~Passed(n)
    <3>1. Kept(n)' /\ ~buffer_tready'[n]
      BY <1>3, <1>4, <1>5, <2>1, <2>2, <2>5 DEF NextBufferState
    <3>2. buffered'[n] = Word(n) /\ Valid(n)
      BY <1>4, <2>2, <2>5
    <3>3. AfterKept(s2, n)' = Following(Word(n))
      BY <3>1, <3>2 DEF AfterKept, Following
    <3>4. Word(n) \in Words /\ Continues(s, Word(n))
      BY <2>4, <3>2 DEF Fits
    <3> QED
      BY <1>2, <2>2, <2>5, <3>1, <3>2, <3>3, <3>4
  <2>6. CASE ~BufferedValid(n) \/ Passed(n)
    <3>1. ~Kept(n)'
      BY <1>3, <1>4, <1>5, <2>1, <2>6 DEF NextBufferState
    <3>2. AfterKept(s2, n)' = s2
      BY <3>1 DEF AfterKept
    <3> QED
      BY <1>2, <2>2, <2>3, <2>4, <2>6, <3>1, <3>2
  <2> QED
    BY <2>5, <2>6
<1> QED
  BY <1>6, <1>7

\* A stream of a multiplexer is not one of an input.
LEMMA NoInputUnit == \A u \in Units : InputOf(u) \notin Inputs
<1> DEFINE N == 2^DEPTH
<1>1. N \in Nat /\ N >= 2
  BY PowerType
<1>2. INPUTS \in Nat /\ INPUTS <= N
  BY MuxAssumption
<1>3. MUXED = 2 * N - 1 /\ Units = 0 .. N - 2
  BY <1>1 DEF MUXED, INPUTS_NORMALIZED, Units
<1> HIDE DEF N
<1> QED
  BY <1>1, <1>2, <1>3 DEF Inputs, InputOf

\* The next owner of a stream, behind its skid buffer.
LEMMA StreamStep ==
    ASSUME TypeOK, ReadyInv, ClockBuffers, NEW n \in Streams,
           NEW s, NEW s2, Fits(s, n),
           s2 = IF Passed(n) THEN Following(PassedWord(n)) ELSE s
    PROVE  AfterKept(s2, n)' = IF Ready(n) THEN Begun(s, n) ELSE AfterKept(s, n)
<1>1. CASE n \in Buffers
  BY <1>1, BufferStep DEF Begun
<1>2. CASE n = 0
  <2>1. ~Kept(n) /\ ~Kept(n)'
    BY <1>2, Heap DEF Kept
  <2>2. AfterKept(s2, n)' = s2 /\ AfterKept(s, n) = s
    BY <2>1 DEF AfterKept
  <2> QED
    BY <1>2, <2>2 DEF Passed, PassedWord, Ready, Begun
<1> QED
  BY <1>1, <1>2, Heap

(***************************************************************************)
(* A clock of a multiplexer: what it takes is of the packet that was       *)
(* begun, or begins one, and the state tells whether the packet has ended. *)
(***************************************************************************)
LEMMA UnitStep ==
    ASSUME TypeOK, ReadyInv, ClockUnits, ClockBuffers,
           NEW h \in [Streams -> Owners], \A n \in Streams : Fits(h[n], n),
           NEW o, o = Moved(h),
           NEW u \in Units, Branch(h, u)
    PROVE  /\ Valid(u)' => /\ Word(u)' \in Words
                           /\ Continues(AfterKept(o[u], u)', Word(u)')
           /\ Branch(o, u)'
<1>1. /\ u \in Streams /\ First(u) \in Buffers /\ Second(u) \in Buffers
      /\ First(u) # Second(u) /\ First(u) # 0 /\ Second(u) # 0
      /\ First(u) \in Streams /\ Second(u) \in Streams
      /\ ParentOf(First(u)) = u /\ ParentOf(Second(u)) = u
  BY Heap
<1>2. /\ fsm_state'[u] = NextState(u)
      /\ tvalid'[u] = IF Ready(u) THEN BufferedValid(Selected(u)) ELSE tvalid[u]
      /\ tdata'[u] = IF Ready(u) THEN BufferedWord(Selected(u)) ELSE tdata[u]
  BY DEF ClockUnits
<1>3. /\ Valid(u) <=> tvalid[u]
      /\ Word(u) = tdata[u]
      /\ Valid(u)' <=> tvalid'[u]
      /\ Word(u)' = tdata'[u]
  BY NoInputUnit DEF Valid, Word
<1>4. AfterKept(o[u], u)' = IF Ready(u) THEN Begun(h[u], u) ELSE AfterKept(h[u], u)
  BY <1>1, StreamStep DEF Moved
<1>5. /\ Passed(First(u)) <=> BufferedValid(First(u)) /\ Selected(u) = First(u) /\ Ready(u)
      /\ Passed(Second(u)) <=> BufferedValid(Second(u)) /\ Selected(u) = Second(u) /\ Ready(u)
  BY <1>1 DEF Passed
<1>6. /\ o[First(u)] = IF Passed(First(u)) THEN Following(BufferedWord(First(u)))
                                           ELSE h[First(u)]
      /\ o[Second(u)] = IF Passed(Second(u)) THEN Following(BufferedWord(Second(u)))
                                             ELSE h[Second(u)]
  BY <1>1 DEF Moved, PassedWord
<1>7. fsm_state[u] \in {"FIRST", "FIRST_SELECT", "SECOND", "SECOND_SELECT"}
  BY DEF TypeOK
<1>8. Begun(o[u], u)' = IF tvalid'[u] THEN Following(tdata'[u])
                                      ELSE AfterKept(o[u], u)'
  BY <1>3 DEF Begun, Following
<1>9. CASE ~Ready(u)
  <2>1. fsm_state'[u] = fsm_state[u]
    BY <1>2, <1>9 DEF NextState
  <2>2. o[First(u)] = h[First(u)] /\ o[Second(u)] = h[Second(u)]
    BY <1>5, <1>6, <1>9
  <2>3. tvalid'[u] = tvalid[u] /\ tdata'[u] = tdata[u]
    BY <1>2, <1>9
  <2>4. AfterKept(o[u], u)' = AfterKept(h[u], u)
    BY <1>4, <1>9
  <2>5. Begun(o[u], u)' = Begun(h[u], u)
    BY <1>3, <1>8, <2>3, <2>4 DEF Begun
  <2>6. Branch(o, u)'
    BY <2>1, <2>2, <2>5 DEF Branch
  <2>7. Valid(u) => Word(u) \in Words /\ Continues(AfterKept(h[u], u), Word(u))
    BY <1>1 DEF Fits
  <2> QED
    BY <1>3, <2>3, <2>4, <2>6, <2>7
<1>10. CASE Ready(u)
  <2> DEFINE c == Selected(u)
             w == BufferedWord(c)
  <2>1. c \in {First(u), Second(u)}
    BY <1>7 DEF Selected
  <2>2. /\ fsm_state[u] = "FIRST_SELECT" => c = First(u)
        /\ fsm_state[u] = "SECOND_SELECT" => c = Second(u)
    BY DEF Selected
  <2>3. AfterKept(o[u], u)' = Begun(h[u], u)
    BY <1>4, <1>10
  <2>4. CASE ~BufferedValid(c)
    <3>1. fsm_state'[u] = fsm_state[u]
      BY <1>2, <2>4 DEF NextState
    <3>2. o[First(u)] = h[First(u)] /\ o[Second(u)] = h[Second(u)]
      BY <1>5, <1>6, <2>4
    <3>3. ~tvalid'[u]
      BY <1>2, <1>10, <2>4
    <3>4. Begun(o[u], u)' = Begun(h[u], u)
      BY <1>8, <2>3, <3>3
    <3>5. Branch(o, u)'
      BY <3>1, <3>2, <3>4 DEF Branch
    <3> QED
      BY <1>3, <3>3, <3>5
  <2>5. CASE BufferedValid(c)
    <3>1. w \in Words /\ Continues(h[c], w)
      BY <1>1, <2>1, <2>5, BufferedFits
    <3>2. Begun(h[u], u) \in {NoInput, h[c]}
      BY <1>7, <2>1, <2>2 DEF Branch
    <3>3. tvalid'[u] /\ tdata'[u] = w
      BY <1>2, <1>10, <2>5
    <3>4. Begun(o[u], u)' = Following(w)
      BY <1>8, <3>3
    <3>5. Word(u)' \in Words /\ Continues(AfterKept(o[u], u)', Word(u)')
      BY <1>3, <2>3, <3>1, <3>2, <3>3 DEF Continues
    <3>6. /\ Last(w) <=> w.last
          /\ Following(w) = IF w.last THEN NoInput ELSE w.src
          /\ w.src # NoInput
      BY <3>1, MuxAssumption, OwnerAssumption DEF Last, Following, Words, Inputs
    <3>7. CASE c = First(u)
      <4>1. fsm_state'[u] = IF w.last THEN "SECOND" ELSE "FIRST_SELECT"
        BY <1>1, <1>2, <1>10, <2>5, <3>6, <3>7 DEF NextState
      <4>2. o[First(u)] = Following(w) /\ o[Second(u)] = h[Second(u)]
        BY <1>1, <1>5, <1>6, <1>10, <2>5, <3>7
      <4>3. fsm_state[u] # "SECOND_SELECT"
        BY <1>1, <2>2, <3>7
      <4>4. h[Second(u)] = NoInput
        BY <4>3 DEF Branch
      <4> HIDE DEF w, c
      <4>5. Branch(o, u)'
        BY <3>4, <3>6, <4>1, <4>2, <4>4 DEF Branch
      <4> QED
        BY <3>5, <4>5
    <3>8. CASE c = Second(u)
      <4>1. fsm_state'[u] = IF w.last THEN "FIRST" ELSE "SECOND_SELECT"
        BY <1>1, <1>2, <1>10, <2>5, <3>6, <3>8 DEF NextState
      <4>2. o[Second(u)] = Following(w) /\ o[First(u)] = h[First(u)]
        BY <1>1, <1>5, <1>6, <1>10, <2>5, <3>8
      <4>3. fsm_state[u] # "FIRST_SELECT"
        BY <1>1, <2>2, <3>8
      <4>4. h[First(u)] = NoInput
        BY <4>3 DEF Branch
      <4> HIDE DEF w, c
      <4>5. Branch(o, u)'
        BY <3>4, <3>6, <4>1, <4>2, <4>4 DEF Branch
      <4> QED
        BY <3>5, <4>5
    <3> QED
      BY <2>1, <3>7, <3>8
  <2> QED
    BY <2>4, <2>5
<1> QED
  BY <1>9, <1>10

\* A clock at the stream of an input: it has no words of other inputs.
LEMMA LeafStep ==
    ASSUME TypeOK, ReadyInv, ClockBuffers, Drive,
           NEW h \in [Streams -> Owners], \A n \in Streams : Fits(h[n], n),
           NEW o, o = Moved(h),
           NEW n \in Streams \ Units, Leaf(h, n)
    PROVE  /\ Valid(n)' => /\ Word(n)' \in Words
                           /\ Continues(AfterKept(o[n], n)', Word(n)')
           /\ Leaf(o, n)'
<1>1. Fits(h[n], n) /\ o[n] = IF Passed(n) THEN Following(PassedWord(n)) ELSE h[n]
  BY DEF Moved
<1>2. /\ Valid(n) <=> InputOf(n) \in Inputs /\ rx_tvalid[InputOf(n)]
      /\ Valid(n)' <=> InputOf(n) \in Inputs /\ rx_tvalid'[InputOf(n)]
  BY DEF Valid
<1>3. InputOf(n) \in Inputs =>
         /\ Word(n) = [src |-> InputOf(n), last |-> rx_tlast[InputOf(n)]]
         /\ Word(n)' = [src |-> InputOf(n), last |-> rx_tlast'[InputOf(n)]]
  BY DEF Word
<1>4. Valid(n) => Word(n).src = InputOf(n) /\ Following(Word(n)) \in {NoInput, InputOf(n)}
  BY <1>2, <1>3 DEF Following
<1>5. Kept(n) => Following(buffered[n]) \in {NoInput, InputOf(n)}
  BY DEF Leaf, Following
<1>6. AfterKept(h[n], n) \in {NoInput, InputOf(n)}
  BY <1>5 DEF AfterKept, Leaf
<1>7. Begun(h[n], n) \in {NoInput, InputOf(n)}
  BY <1>4, <1>6 DEF Begun
<1>8. AfterKept(o[n], n)' = IF Ready(n) THEN Begun(h[n], n) ELSE AfterKept(h[n], n)
  BY <1>1, StreamStep
<1>9. AfterKept(o[n], n)' \in {NoInput, InputOf(n)}
  BY <1>6, <1>7, <1>8
<1>10. ASSUME Valid(n)'
       PROVE  Word(n)' \in Words /\ Continues(AfterKept(o[n], n)', Word(n)')
  <2>1. rx_tlast'[InputOf(n)] \in BOOLEAN
    BY <1>2, <1>10 DEF Drive
  <2>2. Word(n)' \in Words
    BY <1>2, <1>3, <1>10, <2>1 DEF Words
  <2>3. Word(n)'.src = InputOf(n)
    BY <1>2, <1>3, <1>10
  <2> QED
    BY <1>9, <2>2, <2>3 DEF Continues
<1>11. o[n] \in {NoInput, InputOf(n)}
  <2>1. CASE n = 0
    BY <1>1, <1>4, <2>1 DEF Passed, PassedWord, Leaf
  <2>2. CASE n # 0
    <3>1. n \in Buffers
      BY <2>2, Heap
    <3>2. Passed(n) => BufferedValid(n) /\ PassedWord(n) = BufferedWord(n)
      BY <2>2 DEF Passed, PassedWord
    <3>3. BufferedValid(n) => Following(BufferedWord(n)) \in {NoInput, InputOf(n)}
      <4>1. CASE Kept(n)
        BY <1>5, <4>1 DEF BufferedWord, Kept
      <4>2. CASE ~Kept(n)
        <5>1. buffer_state[n] = "IDLE"
          BY <3>1, <4>2 DEF Kept, TypeOK
        <5> QED
          BY <1>4, <5>1 DEF BufferedWord, BufferedValid
      <4> QED
        BY <4>1, <4>2
    <3> QED
      BY <1>1, <3>2, <3>3 DEF Leaf
  <2> QED
    BY <2>1, <2>2
<1>12. ASSUME Kept(n)' PROVE buffered'[n].src = InputOf(n)
  <2>1. n \in Buffers
    BY <1>12 DEF Kept
  <2>2. \/ Valid(n) /\ buffered'[n] = Word(n)
        \/ Kept(n) /\ buffered'[n] = buffered[n]
    BY <1>1, <1>12, <2>1, BufferStep
  <2> QED
    BY <1>4, <2>2 DEF Leaf
<1>13. Leaf(o, n)'
  BY <1>11, <1>12 DEF Leaf
<1> QED
  BY <1>10, <1>13

\* The next owners are owners.
LEMMA MovedType ==
    ASSUME TypeOK, NEW h \in [Streams -> Owners], \A n \in Streams : Fits(h[n], n)
    PROVE  Moved(h) \in [Streams -> Owners]
<1> SUFFICES ASSUME NEW n \in Streams, Passed(n)
             PROVE  Following(PassedWord(n)) \in Owners
  BY DEF Moved
<1>1. PassedWord(n) \in Words
  <2>1. CASE n = 0
    BY <2>1 DEF Passed, PassedWord, Fits
  <2>2. CASE n # 0
    <3>1. n \in Buffers
      BY <2>2, Heap
    <3> QED
      BY <2>2, <3>1, BufferedFits DEF Passed, PassedWord
  <2> QED
    BY <2>1, <2>2
<1> QED
  BY <1>1 DEF Following, Words, Owners

\* The types after a clock.
LEMMA MuxTypeStep ==
    ASSUME TypeOK, Clock,
           \A u \in Units : Valid(u)' => Word(u)' \in Words,
           \A n \in Buffers : Kept(n)' => buffered'[n] \in Words,
           \A n \in Streams : Valid(n) => Word(n) \in Words,
           \A n \in Streams : Kept(n) => buffered[n] \in Words
    PROVE  TypeOK'
<1>1. /\ areset_n' \in BOOLEAN
      /\ rx_tvalid' \in [Inputs -> BOOLEAN]
      /\ rx_tlast' \in [Inputs -> BOOLEAN]
      /\ tx_tready' \in BOOLEAN
  BY DEF TypeOK, Clock, Drive
<1>2. \A n \in Streams : Word(n) \in Words \cup {UNKNOWN}
  <2> SUFFICES ASSUME NEW n \in Streams PROVE Word(n) \in Words \cup {UNKNOWN}
    OBVIOUS
  <2>1. CASE n \in Units
    BY <2>1, NoInputUnit DEF TypeOK, Word
  <2>2. CASE n \notin Units /\ InputOf(n) \in Inputs
    BY <2>2 DEF TypeOK, Word, Words
  <2>3. CASE n \notin Units /\ InputOf(n) \notin Inputs
    BY <2>3 DEF TypeOK, Word
  <2> QED
    BY <2>1, <2>2, <2>3
<1>3. \A n \in Buffers : BufferedWord(n) \in Words \cup {UNKNOWN}
  BY <1>2, Heap DEF BufferedWord, TypeOK
<1>4. \A u \in Units : Selected(u) \in Buffers
  BY Heap DEF Selected, TypeOK
<1>5. fsm_state' \in [Units -> {"FIRST", "FIRST_SELECT", "SECOND", "SECOND_SELECT"}]
  <2>1. \A u \in Units : NextState(u) \in
            {"FIRST", "FIRST_SELECT", "SECOND", "SECOND_SELECT"}
    BY DEF NextState, TypeOK
  <2> QED
    BY <2>1 DEF Clock, ClockUnits
<1>6. tvalid' \in [Units -> BOOLEAN]
  BY DEF Clock, ClockUnits, TypeOK, BufferedValid, Valid
<1>7. tdata' \in [Units -> Words \cup {UNKNOWN}]
  BY <1>3, <1>4 DEF Clock, ClockUnits, TypeOK
<1>8. \A u \in Units : tvalid'[u] => tdata'[u] \in Words
  BY NoInputUnit DEF Valid, Word
<1>9. buffer_state' \in [Buffers -> {"IDLE", "BUFFERED"}]
  <2>1. \A n \in Buffers : NextBufferState(n) \in {"IDLE", "BUFFERED"}
    BY DEF NextBufferState, TypeOK
  <2> QED
    BY <2>1 DEF Clock, ClockBuffers
<1>10. buffer_tready' \in [Buffers -> BOOLEAN]
  BY DEF Clock, ClockBuffers, BufferedReady
<1>11. buffered' \in [Buffers -> Words \cup {UNKNOWN}]
  BY <1>2, Heap DEF Clock, ClockBuffers, TypeOK
<1> QED
  BY <1>1, <1>5, <1>6, <1>7, <1>8, <1>9, <1>10, <1>11 DEF TypeOK

\* After a reset there is nothing on the streams, and they have no owner.
NothingInside ==
    /\ owner = NoInput
    /\ \A n \in Streams : ~Kept(n) /\ ~Valid(n)
    /\ \A u \in Units : fsm_state[u] = "FIRST"

\* Without a word inside, no stream has an owner.
LEMMA MuxEmpty == NothingInside => \E h \in [Streams -> Owners] : Owned(h)
<1> SUFFICES ASSUME NothingInside PROVE \E h \in [Streams -> Owners] : Owned(h)
  OBVIOUS
<1> DEFINE h == [n \in Streams |-> NoInput]
<1>1. h \in [Streams -> Owners] /\ \A n \in Streams : h[n] = NoInput
  BY DEF Owners
<1> HIDE DEF h
<1>2. 0 \in Streams
  BY Heap
<1>3. \A n \in Streams : Fits(h[n], n)
  BY DEF NothingInside, Fits
<1>4. ASSUME NEW u \in Units PROVE Branch(h, u)
  <2>1. u \in Streams /\ First(u) \in Streams /\ Second(u) \in Streams
    BY Heap
  <2>2. Begun(h[u], u) = NoInput
    BY <1>1, <2>1 DEF NothingInside, Begun, AfterKept
  <2> QED
    BY <1>1, <2>1, <2>2 DEF NothingInside, Branch
<1>5. \A n \in Streams \ Units : Leaf(h, n)
  BY <1>1 DEF NothingInside, Leaf
<1> QED
  BY <1>1, <1>2, <1>3, <1>4, <1>5 DEF NothingInside, Owned

\* The state after power-up.
LEMMA MuxBegins == MCInit => MuxInv
<1> SUFFICES ASSUME MCInit PROVE MuxInv
  OBVIOUS
<1>1. TypeOK
  BY DEF MCInit, Init, TypeOK
<1>2. \A n \in Streams : ~Kept(n) /\ ~Valid(n)
  BY DEF MCInit, Init, Kept, Valid
<1>3. \A u \in Units : fsm_state[u] = "FIRST"
  BY DEF MCInit, Init
<1>4. ReadyInv
  BY <1>2, Heap DEF ReadyInv
<1> QED
  BY <1>1, <1>2, <1>3, <1>4, MuxEmpty DEF MuxInv, MCInit, NothingInside

\* A clock of the tree: the streams get their next owners.
LEMMA MuxClock == MuxInv /\ Clock /\ Record => MuxInv'
<1> SUFFICES ASSUME MuxInv, Clock, Record PROVE MuxInv'
  OBVIOUS
<1>1. TypeOK /\ ReadyInv
  BY DEF MuxInv
<1>2. PICK h \in [Streams -> Owners] : Owned(h)
  BY DEF MuxInv
<1>3. ClockUnits /\ ClockBuffers /\ Drive /\ areset_n /\ areset_n'
  BY DEF Clock
<1>4. \A n \in Streams : Fits(h[n], n)
  BY <1>2 DEF Owned
<1>5. PICK o \in [Streams -> Owners] : o = Moved(h)
  BY <1>1, <1>4, MovedType
<1>6. ASSUME NEW n \in Buffers
      PROVE  /\ Kept(n)' => ~buffer_tready'[n]
             /\ Kept(n)' => buffered'[n] \in Words /\ Continues(o[n], buffered'[n])
  <2>1. n \in Streams
    BY Heap
  <2>2. o[n] = IF Passed(n) THEN Following(PassedWord(n)) ELSE h[n]
    BY <1>5, <2>1 DEF Moved
  <2> QED
    BY <1>1, <1>3, <1>4, <2>1, <2>2, BufferStep
<1>7. ASSUME NEW u \in Units
      PROVE  /\ Valid(u)' => /\ Word(u)' \in Words
                             /\ Continues(AfterKept(o[u], u)', Word(u)')
             /\ Branch(o, u)'
  BY <1>1, <1>2, <1>3, <1>4, <1>5, UnitStep DEF Owned
<1>8. ASSUME NEW n \in Streams \ Units
      PROVE  /\ Valid(n)' => /\ Word(n)' \in Words
                             /\ Continues(AfterKept(o[n], n)', Word(n)')
             /\ Leaf(o, n)'
  BY <1>1, <1>2, <1>3, <1>4, <1>5, LeafStep DEF Owned
<1>9. ASSUME NEW n \in Streams PROVE Fits(o[n], n)'
  <2>1. Valid(n)' => Word(n)' \in Words /\ Continues(AfterKept(o[n], n)', Word(n)')
    BY <1>7, <1>8
  <2>2. Kept(n)' => buffered'[n] \in Words /\ Continues(o[n], buffered'[n])
    <3>1. Kept(n)' => n \in Buffers
      BY DEF Kept
    <3> QED
      BY <1>6, <3>1
  <2> QED
    BY <2>1, <2>2 DEF Fits, Continues
<1>10. TypeOK'
  <2>1. \A u \in Units : Valid(u)' => Word(u)' \in Words
    BY <1>7
  <2>2. \A n \in Buffers : Kept(n)' => buffered'[n] \in Words
    BY <1>6
  <2>3. \A n \in Streams : Valid(n) => Word(n) \in Words
    BY <1>4 DEF Fits
  <2>4. \A n \in Streams : Kept(n) => buffered[n] \in Words
    BY <1>4 DEF Fits
  <2> QED
    BY <1>1, <2>1, <2>2, <2>3, <2>4, MuxTypeStep
<1>11. o[0] = owner'
  <2>1. 0 \in Streams /\ h[0] = owner
    BY <1>2, Heap DEF Owned
  <2>2. o[0] = IF Valid(0) /\ tx_tready THEN Following(Word(0)) ELSE h[0]
    BY <1>5, <2>1 DEF Moved, Passed, PassedWord
  <2>3. 0 \in Units
    BY Heap
  <2>4. Sent <=> Valid(0) /\ tx_tready
    BY <2>3 DEF Sent, Valid
  <2>5. Word(0) = tdata[0]
    BY <2>3, NoInputUnit DEF Word
  <2>6. owner' = IF Sent THEN Following(tdata[0]) ELSE owner
    BY <1>3 DEF Record, Following
  <2> QED
    BY <2>1, <2>2, <2>4, <2>5, <2>6
<1>12. ReadyInv'
  BY <1>6 DEF ReadyInv
<1>13. Owned(o)'
  BY <1>3, <1>5, <1>7, <1>8, <1>9, <1>11 DEF Owned
<1> QED
  BY <1>10, <1>12, <1>13 DEF MuxInv

\* A reset empties the tree.
LEMMA MuxReset == TypeOK /\ Reset /\ Record => MuxInv'
<1> SUFFICES ASSUME TypeOK, Reset, Record PROVE MuxInv'
  OBVIOUS
<1>1. TypeOK'
  BY DEF TypeOK, Reset
<1>2. \A n \in Streams : ~Kept(n)' /\ ~Valid(n)'
  BY DEF Reset, Kept, Valid
<1>3. \A u \in Units : fsm_state'[u] = "FIRST"
  BY DEF Reset
<1>4. owner' = NoInput
  BY DEF Reset, Record
<1>5. NothingInside'
  BY <1>2, <1>3, <1>4 DEF NothingInside, Kept, Valid
<1>6. (\E h \in [Streams -> Owners] : Owned(h))'
  BY <1>5, MuxEmpty, PTL
<1>7. ReadyInv'
  BY <1>2, Heap DEF ReadyInv
<1> QED
  BY <1>1, <1>6, <1>7 DEF MuxInv

\* What leaves the registers alone leaves the owners alone.
LEMMA MuxUnmoved ==
    MuxInv /\ UNCHANGED <<rx_tvalid, rx_tlast, fsm_state, tvalid, tdata,
                          buffer_state, buffer_tready, buffered, owner>>
           /\ tx_tready' = tx_tready /\ (areset_n' = areset_n \/ areset_n' = TRUE)
        => MuxInv'
<1> SUFFICES ASSUME MuxInv,
                    UNCHANGED <<rx_tvalid, rx_tlast, fsm_state, tvalid, tdata,
                                buffer_state, buffer_tready, buffered, owner>>,
                    tx_tready' = tx_tready,
                    areset_n' = areset_n \/ areset_n' = TRUE
             PROVE  MuxInv'
  OBVIOUS
<1>1. TypeOK' /\ ReadyInv'
  BY DEF MuxInv, TypeOK, ReadyInv, Kept
<1>2. PICK h \in [Streams -> Owners] : Owned(h)
  BY DEF MuxInv
<1>3. \A n : Kept(n)' = Kept(n) /\ Valid(n)' = Valid(n) /\ Word(n)' = Word(n)
  BY DEF Kept, Valid, Word
<1>4. ASSUME NEW n PROVE AfterKept(h[n], n)' = AfterKept(h[n], n)
  BY <1>3 DEF AfterKept, Following
<1>5. ASSUME NEW n PROVE Begun(h[n], n)' = Begun(h[n], n)
  BY <1>3, <1>4 DEF Begun, Following
<1>6. \A n \in Streams : Fits(h[n], n)'
  BY <1>2, <1>3, <1>4 DEF Owned, Fits, Continues
<1>7. \A u \in Units : Branch(h, u)'
  BY <1>2, <1>5 DEF Owned, Branch
<1>8. \A n \in Streams \ Units : Leaf(h, n)'
  BY <1>2, <1>3 DEF Owned, Leaf
<1>9. h[0] = owner' /\ (~areset_n' => \A n \in Streams : ~Kept(n)' /\ ~Valid(n)' /\ h[n] = NoInput)
  BY <1>2, <1>3 DEF Owned
<1>10. Owned(h)'
  BY <1>6, <1>7, <1>8, <1>9 DEF Owned
<1> QED
  BY <1>1, <1>10 DEF MuxInv

\* Every step.
LEMMA MuxNext == MuxInv /\ [RoutingNext]_<<block, mcVars, demuxVars>> => MuxInv'
<1> SUFFICES ASSUME MuxInv, [RoutingNext]_<<block, mcVars, demuxVars>>
             PROVE  MuxInv'
  OBVIOUS
<1>1. CASE Clock /\ Record
  BY <1>1, MuxClock
<1>2. CASE Reset /\ Record
  BY <1>2, MuxReset DEF MuxInv
<1>3. CASE Release /\ Record
  <2>1. ~Sent
    <3>1. ~areset_n
      BY <1>3 DEF Release
    <3>2. ~Valid(0)
      BY <3>1, Heap DEF MuxInv, Owned
    <3> QED
      BY <3>2, Heap DEF Sent, Valid
  <2>2. owner' = owner
    BY <1>3, <2>1 DEF Record, Release
  <2> QED
    BY <1>3, <2>2, MuxUnmoved DEF Release
<1>4. CASE UNCHANGED mcVars
  BY <1>4, MuxUnmoved DEF mcVars, vars
<1> QED
  BY <1>1, <1>2, <1>3, <1>4 DEF RoutingNext, MCNext, Next

\* A word that is sent fits the owner of stream 0.
LEMMA MuxWhole == MuxInv => PacketsWhole
<1> SUFFICES ASSUME MuxInv, Sent, owner # NoInput PROVE tdata[0].src = owner
  BY DEF PacketsWhole
<1>1. PICK h \in [Streams -> Owners] : Owned(h)
  BY DEF MuxInv
<1>2. 0 \in Streams /\ 0 \in Units /\ 0 \notin Buffers
  BY Heap
<1>3. Valid(0) /\ Word(0) = tdata[0]
  BY <1>2, NoInputUnit DEF Sent, Valid, Word
<1>4. AfterKept(h[0], 0) = owner
  BY <1>1, <1>2 DEF Owned, AfterKept, Kept
<1>5. Continues(owner, tdata[0])
  BY <1>1, <1>2, <1>3, <1>4 DEF Owned, Fits
<1> QED
  BY <1>5 DEF Continues

(***************************************************************************)
(* Packets are not mixed, whatever the number of inputs, their packets and *)
(* pauses in them, and on whatever levels of the tree they meet.           *)
(***************************************************************************)
THEOREM PacketsAlwaysWhole == RoutingSpec => []PacketsWhole
<1>1. RoutingInit => MuxInv
  BY MuxBegins DEF RoutingInit
<1> QED
  BY <1>1, MuxNext, MuxWhole, PTL DEF RoutingSpec

-----------------------------------------------------------------------------
\* The skid buffer: one that stands alone, with its own ports and registers.

CONSTANT SKID_DATA

VARIABLES skid_areset_n, skid_rx_tvalid, skid_rx_tdata, skid_tx_tready,
          skid_fsm_state, skid_rx_tready, skid_buffered

Skid == INSTANCE BasicBuffer
    WITH DATA      <- SKID_DATA,
         areset_n  <- skid_areset_n,
         rx_tvalid <- skid_rx_tvalid,
         rx_tdata  <- skid_rx_tdata,
         tx_tready <- skid_tx_tready,
         fsm_state <- skid_fsm_state,
         rx_tready <- skid_rx_tready,
         buffered  <- skid_buffered

(***************************************************************************)
(* NoOverrun is inductive once the reset is taken into account: the        *)
(* refinement also needs that nothing is ready or buffered in reset.       *)
(***************************************************************************)
SkidInReset == ~skid_areset_n => skid_fsm_state = "IDLE" /\ ~skid_rx_tready

SkidInv == Skid!TypeOK /\ Skid!NoOverrun /\ SkidInReset

\* The state after power-up.
LEMMA SkidBegins == Skid!Init => SkidInv
BY DEF Skid!Init, SkidInv, Skid!TypeOK, Skid!NoOverrun, SkidInReset, Skid!Words

\* A clock edge: a word is kept only while rx_tready goes low.
LEMMA SkidClock == SkidInv /\ Skid!Clock => SkidInv'
<1> SUFFICES ASSUME SkidInv, Skid!Clock PROVE SkidInv'
  OBVIOUS
<1>1. /\ skid_rx_tvalid' \in BOOLEAN /\ skid_rx_tdata' \in SKID_DATA
      /\ skid_tx_tready' \in BOOLEAN
  BY DEF SkidInv, Skid!TypeOK, Skid!Clock, Skid!RxDrive, Skid!TxDrive
<1>2. /\ skid_rx_tready' \in BOOLEAN /\ skid_buffered' \in Skid!Words
      /\ skid_fsm_state' \in {"IDLE", "BUFFERED"}
  BY DEF SkidInv, Skid!TypeOK, Skid!Clock, Skid!RxReady, Skid!Buffered,
     Skid!FsmState, Skid!Words
<1>3. Skid!TypeOK'
  BY <1>1, <1>2 DEF SkidInv, Skid!TypeOK, Skid!Clock
<1>4. Skid!NoOverrun'
  <2> SUFFICES ASSUME skid_fsm_state' = "BUFFERED"
               PROVE  ~skid_rx_tready' /\ skid_buffered' \in SKID_DATA
    BY DEF Skid!NoOverrun
  <2>1. CASE skid_fsm_state = "IDLE"
    BY <2>1 DEF SkidInv, Skid!TypeOK, Skid!Clock, Skid!RxReady, Skid!Buffered,
       Skid!FsmState
  <2>2. CASE skid_fsm_state = "BUFFERED"
    BY <2>2 DEF SkidInv, Skid!TypeOK, Skid!NoOverrun, Skid!Clock, Skid!RxReady,
       Skid!Buffered, Skid!FsmState
  <2> QED
    BY <2>1, <2>2 DEF SkidInv, Skid!TypeOK
<1>5. SkidInReset'
  BY DEF Skid!Clock, SkidInReset
<1> QED
  BY <1>3, <1>4, <1>5 DEF SkidInv

\* Every step.
LEMMA SkidStep == SkidInv /\ [Skid!Next]_(Skid!vars) => SkidInv'
<1> SUFFICES ASSUME SkidInv, [Skid!Next]_(Skid!vars) PROVE SkidInv'
  OBVIOUS
<1>1. CASE Skid!Clock
  BY <1>1, SkidClock
<1>2. CASE Skid!ClockInReset
  <2>1. /\ skid_rx_tvalid' \in BOOLEAN /\ skid_rx_tdata' \in SKID_DATA
        /\ skid_tx_tready' \in BOOLEAN
    BY <1>2 DEF SkidInv, Skid!TypeOK, Skid!ClockInReset, Skid!RxDrive,
       Skid!TxDrive
  <2> QED
    BY <1>2, <2>1
    DEF SkidInv, Skid!TypeOK, Skid!NoOverrun, SkidInReset, Skid!ClockInReset,
       Skid!Buffered, Skid!Words
<1>3. CASE Skid!Reset
  BY <1>3 DEF SkidInv, Skid!TypeOK, Skid!NoOverrun, SkidInReset, Skid!Reset
<1>4. CASE Skid!Release
  BY <1>4 DEF SkidInv, Skid!TypeOK, Skid!NoOverrun, SkidInReset, Skid!Release,
     Skid!inputs
<1>5. CASE UNCHANGED Skid!vars
  BY <1>5 DEF SkidInv, Skid!TypeOK, Skid!NoOverrun, SkidInReset, Skid!vars,
     Skid!inputs
<1> QED
  BY <1>1, <1>2, <1>3, <1>4, <1>5 DEF Skid!Next

(***************************************************************************)
(* The registers keep their types, and nothing is ready in reset.          *)
(***************************************************************************)
THEOREM SkidInvariance == Skid!Spec => []SkidInv
BY SkidBegins, SkidStep, PTL DEF Skid!Spec

(***************************************************************************)
(* The captured word is never overwritten.                                 *)
(***************************************************************************)
THEOREM SkidNeverOverruns == Skid!Spec => []Skid!NoOverrun
<1>1. SkidInv => Skid!NoOverrun
  BY DEF SkidInv
<1> QED
  BY <1>1, SkidInvariance, PTL

-----------------------------------------------------------------------------
\* The refinement: every step of the buffer is a step of the FIFO.

\* After power-up the buffer is an empty FIFO.
LEMMA SkidFifoInit == Skid!Init => Skid!Fifo!Init
BY DEF Skid!Init, Skid!Fifo!Init, Skid!Fifo!Quiet, Skid!Contents,
   Skid!tx_tvalid

(***************************************************************************)
(* A clock edge transfers: by cases on where the oldest word is.           *)
(***************************************************************************)
LEMMA SkidFifoTransfer == SkidInv /\ Skid!Clock => Skid!Fifo!Transfer
<1> SUFFICES ASSUME SkidInv, Skid!Clock PROVE Skid!Fifo!Transfer
  OBVIOUS
<1>1. CASE skid_fsm_state = "BUFFERED"
  <2>1. ~skid_rx_tready /\ skid_buffered' = skid_buffered /\ Skid!Contents = <<skid_buffered>>
    BY <1>1 DEF SkidInv, Skid!NoOverrun, Skid!Clock, Skid!Buffered,
       Skid!Contents
  <2>2. Skid!Fifo!Offered = <<skid_buffered>>
    BY <2>1 DEF Skid!Fifo!Offered, Skid!Fifo!Accepted
  <2>3. Skid!tx_tvalid /\ Skid!tx_tdata = skid_buffered
    BY <1>1 DEF Skid!tx_tvalid, Skid!tx_tdata
  <2>4. skid_fsm_state' = IF skid_tx_tready THEN "IDLE" ELSE "BUFFERED"
    BY <1>1 DEF Skid!Clock, Skid!FsmState
  <2>5. CASE skid_tx_tready
    <3>1. Skid!Contents' = << >>
      BY <2>4, <2>5 DEF Skid!Contents
    <3> QED
      BY <2>2, <2>3, <2>5, <3>1 DEF Skid!Fifo!Transfer, Skid!Fifo!Delivered,
         Skid!Clock
  <2>6. CASE ~skid_tx_tready
    <3>1. Skid!Contents' = <<skid_buffered>>
      BY <2>1, <2>4, <2>6 DEF Skid!Contents
    <3>2. Skid!tx_tvalid' /\ Skid!tx_tdata' = skid_buffered
      BY <2>1, <2>4, <2>6 DEF Skid!tx_tvalid, Skid!tx_tdata
    <3> QED
      BY <2>2, <2>3, <2>6, <3>1, <3>2 DEF Skid!Fifo!Transfer,
         Skid!Fifo!Delivered, Skid!Clock
  <2> QED
    BY <2>5, <2>6
<1>2. CASE skid_fsm_state = "IDLE" /\ skid_rx_tvalid /\ skid_rx_tready
  <2>1. Skid!Fifo!Offered = <<skid_rx_tdata>>
    BY <1>2 DEF Skid!Fifo!Offered, Skid!Fifo!Accepted, Skid!Contents
  <2>2. Skid!tx_tvalid /\ Skid!tx_tdata = skid_rx_tdata
    BY <1>2 DEF Skid!tx_tvalid, Skid!tx_tdata
  <2>3. skid_buffered' = skid_rx_tdata
    BY <1>2 DEF Skid!Clock, Skid!Buffered
  <2>4. skid_fsm_state' = IF skid_tx_tready THEN "IDLE" ELSE "BUFFERED"
    BY <1>2 DEF Skid!Clock, Skid!FsmState
  <2>5. CASE skid_tx_tready
    <3>1. Skid!Contents' = << >>
      BY <2>4, <2>5 DEF Skid!Contents
    <3> QED
      BY <2>1, <2>2, <2>5, <3>1 DEF Skid!Fifo!Transfer, Skid!Fifo!Delivered,
         Skid!Clock
  <2>6. CASE ~skid_tx_tready
    <3>1. Skid!Contents' = <<skid_rx_tdata>>
      BY <2>3, <2>4, <2>6 DEF Skid!Contents
    <3>2. Skid!tx_tvalid' /\ Skid!tx_tdata' = skid_rx_tdata
      BY <2>3, <2>4, <2>6 DEF Skid!tx_tvalid, Skid!tx_tdata
    <3> QED
      BY <2>1, <2>2, <2>6, <3>1, <3>2 DEF Skid!Fifo!Transfer,
         Skid!Fifo!Delivered, Skid!Clock
  <2> QED
    BY <2>5, <2>6
<1>3. CASE skid_fsm_state = "IDLE" /\ ~(skid_rx_tvalid /\ skid_rx_tready)
  <2>1. Skid!Fifo!Offered = << >> /\ ~Skid!tx_tvalid
    BY <1>3 DEF Skid!Fifo!Offered, Skid!Fifo!Accepted, Skid!Contents,
       Skid!tx_tvalid
  <2>2. Skid!Contents' = << >>
    BY <1>3 DEF Skid!Clock, Skid!FsmState, Skid!Contents
  <2> QED
    BY <2>1, <2>2 DEF Skid!Fifo!Transfer, Skid!Fifo!Delivered, Skid!Clock
<1> QED
  BY <1>1, <1>2, <1>3 DEF SkidInv, Skid!TypeOK

\* Every step is a step of the FIFO, or changes nothing it knows of.
LEMMA SkidFifoNext ==
    SkidInv /\ SkidInv' /\ [Skid!Next]_(Skid!vars)
        => [Skid!Fifo!Next]_(Skid!Fifo!vars)
<1> SUFFICES ASSUME SkidInv, SkidInv', [Skid!Next]_(Skid!vars)
             PROVE  [Skid!Fifo!Next]_(Skid!Fifo!vars)
  OBVIOUS
<1>1. CASE Skid!Clock
  BY <1>1, SkidFifoTransfer DEF Skid!Fifo!Next
<1>2. CASE Skid!ClockInReset \/ Skid!Reset
  <2>1. ~skid_areset_n' /\ ~skid_rx_tready' /\ skid_fsm_state' = "IDLE"
    BY <1>2 DEF SkidInv, SkidInReset, Skid!ClockInReset, Skid!Reset
  <2> QED
    BY <2>1 DEF Skid!Fifo!Next, Skid!Fifo!Reset, Skid!Fifo!Quiet,
       Skid!Contents, Skid!tx_tvalid
<1>3. CASE Skid!Release
  BY <1>3
  DEF Skid!Release, Skid!inputs, Skid!Fifo!Next, Skid!Fifo!Release,
     Skid!Contents, Skid!tx_tvalid
<1>4. CASE UNCHANGED Skid!vars
  BY <1>4 DEF Skid!vars, Skid!inputs, Skid!Fifo!vars, Skid!Contents,
     Skid!tx_tvalid, Skid!tx_tdata
<1> QED
  BY <1>1, <1>2, <1>3, <1>4 DEF Skid!Next

(***************************************************************************)
(* logic_basic_buffer implements the FIFO of one word: whatever Rx drives, *)
(* whenever Tx stalls and whenever the reset comes, no word is lost,       *)
(* duplicated, reordered or withdrawn.                                     *)
(***************************************************************************)
THEOREM SkidImplements == Skid!Spec => Skid!RefinesFifo
<1>1. Skid!Spec => Skid!Fifo!Spec
  BY SkidFifoInit, SkidFifoNext, SkidInvariance, PTL DEF Skid!Spec,
     Skid!Fifo!Spec
<1> QED
  BY <1>1 DEF Skid!RefinesFifo

-----------------------------------------------------------------------------
\* The way of a word through the tree.

\* The recursive definition of a way has a solution.
LEMMA WaySteps ==
    ASSUME NEW k \in Inputs
    PROVE  /\ Way(k)[0] = MUXED - 1 - k
           /\ \A d \in 1 .. DEPTH : Way(k)[d] = ParentOf(Way(k)[d - 1])
<1> DEFINE N == DEPTH
           start == MUXED - 1 - k
           F(f, m) == [d \in 0 .. m |-> IF d = 0 THEN start ELSE ParentOf(f[d - 1])]
           S == {m \in Nat : \E f : f = F(f, m)}
<1>0. N \in Nat
  BY MuxAssumption
<1> HIDE DEF start
<1>1. 0 \in S
  <2> DEFINE f == [d \in 0 .. 0 |-> start]
  <2>1. f = F(f, 0)
    OBVIOUS
  <2> HIDE DEF f, F
  <2> QED
    BY <2>1
<1>2. ASSUME NEW m \in 0 .. N - 1, m \in S PROVE m + 1 \in S
  <2>1. PICK f : f = F(f, m)
    BY <1>2
  <2> DEFINE new == ParentOf(f[m])
             g == [d \in 0 .. m + 1 |-> IF d = m + 1 THEN new ELSE f[d]]
  <2>2. m \in Nat /\ m + 1 \in Nat
    OBVIOUS
  <2>3. ASSUME NEW d \in 0 .. m + 1 PROVE g[d] = F(g, m + 1)[d]
    <3>1. CASE d = m + 1
      <4>1. d # 0 /\ d - 1 = m /\ m \in 0 .. m + 1 /\ m # m + 1
        BY <2>2, <3>1
      <4>2. g[m] = f[m]
        BY <4>1
      <4>3. F(g, m + 1)[d] = new
        BY <3>1, <4>1, <4>2
      <4> QED
        BY <3>1, <4>3
    <3>2. CASE d # m + 1
      <4>1. d \in 0 .. m /\ (d # 0 => d - 1 \in 0 .. m /\ d - 1 # m + 1)
        BY <2>2, <3>2
      <4>2. g[d] = f[d] /\ (d # 0 => g[d - 1] = f[d - 1])
        BY <2>2, <3>2, <4>1
      <4>3. f[d] = F(f, m)[d]
        BY <2>1
      <4>4. F(f, m)[d] = F(g, m + 1)[d]
        <5> HIDE DEF g
        <5> QED
          BY <4>1, <4>2
      <4> QED
        BY <4>2, <4>3, <4>4
    <3> QED
      BY <3>1, <3>2
  <2>4. g = F(g, m + 1)
    <3>1. DOMAIN g = 0 .. m + 1 /\ DOMAIN F(g, m + 1) = 0 .. m + 1
      OBVIOUS
    <3> QED
      BY <2>3, <3>1
  <2> HIDE DEF g, F
  <2> QED
    BY <2>2, <2>4
<1> HIDE DEF S, N
<1>3. N \in S
  BY <1>0, <1>1, <1>2, Induction
<1> USE DEF S
<1>4. \E f : f = F(f, N)
  BY <1>3
<1>5. Way(k) = CHOOSE f : f = F(f, N)
  BY DEF Way, start, N
<1> DEFINE way == Way(k)
<1>6. way = F(way, N)
  <2> HIDE DEF F
  <2> QED
    BY <1>4, <1>5
<1> HIDE DEF way
<1>7. \A d \in 0 .. N : way[d] = IF d = 0 THEN start ELSE ParentOf(way[d - 1])
  BY <1>6
<1>8. 0 \in 0 .. N /\ \A d \in 1 .. N : d \in 0 .. N /\ d # 0
  BY <1>0
<1>9. way[0] = start /\ \A d \in 1 .. N : way[d] = ParentOf(way[d - 1])
  BY <1>7, <1>8
<1> QED
  BY <1>9 DEF way, start, N

\* A power of a larger number.
LEMMA PowerGrows ==
    ASSUME NEW a \in Nat, NEW b \in Nat, a < b
    PROVE  2 * 2^a <= 2^b
<1> DEFINE At(m) == 2 * 2^a <= 2^(a + 1 + m)
           S == {m \in Nat : At(m)}
<1>1. 0 \in S
  <2>1. 2^(a + 1) = 2 * 2^a /\ a + 1 + 0 = a + 1 /\ 2^a \in Nat
    BY Power
  <2> QED
    BY <2>1
<1>2. ASSUME NEW m \in Nat, m \in S PROVE m + 1 \in S
  <2> DEFINE c == a + 1 + m
  <2>1. c \in Nat /\ a + 1 + (m + 1) = c + 1
    OBVIOUS
  <2> HIDE DEF c
  <2>2. 2^(c + 1) = 2 * 2^c /\ 2^c \in Nat /\ 2^a \in Nat
    BY <2>1, Power
  <2>3. 2 * 2^a <= 2^c
    BY <1>2 DEF c
  <2>4. 2 * 2^a <= 2 * 2^c
    <3> DEFINE x == 2^a
               y == 2^c
    <3>1. x \in Nat /\ y \in Nat /\ 2 * x <= y
      BY <2>2, <2>3
    <3> HIDE DEF x, y
    <3>2. 2 * x <= 2 * y
      BY <3>1
    <3> QED
      BY <3>2 DEF x, y
  <2>5. At(m + 1)
    BY <2>1, <2>2, <2>4
  <2> QED
    BY <2>5
<1> HIDE DEF S
<1>3. b - a - 1 \in Nat
  OBVIOUS
<1>4. b - a - 1 \in S
  BY <1>1, <1>2, <1>3, Induction
<1>5. a + 1 + (b - a - 1) = b
  OBVIOUS
<1> QED
  BY <1>4, <1>5 DEF S

\* The streams of a way are on the levels of the tree, one on each.
LEMMA WayLevels ==
    ASSUME NEW k \in Inputs, NEW d \in 0 .. DEPTH
    PROVE  /\ Way(k)[d] \in Nat
           /\ 2^(DEPTH - d) - 1 <= Way(k)[d]
           /\ Way(k)[d] <= 2 * 2^(DEPTH - d) - 2
<1> DEFINE way == Way(k)
           P(m) == 2^(DEPTH - m)
           At(m) == way[m] \in Nat /\ P(m) - 1 <= way[m] /\ way[m] <= 2 * P(m) - 2
           S == {m \in Nat : At(m)}
<1>1. DEPTH \in Nat
  BY MuxAssumption
<1>2. /\ way[0] = MUXED - 1 - k
      /\ \A m \in 1 .. DEPTH : way[m] = ParentOf(way[m - 1])
  BY WaySteps
<1>3. \A m \in 0 .. DEPTH : P(m) \in Nat /\ P(m) >= 1
  BY <1>1, Power
<1>4. \A m \in 0 .. DEPTH - 1 : P(m) = 2 * P(m + 1)
  <2> SUFFICES ASSUME NEW m \in 0 .. DEPTH - 1 PROVE P(m) = 2 * P(m + 1)
    OBVIOUS
  <2> DEFINE c == DEPTH - (m + 1)
  <2>1. c \in Nat /\ DEPTH - m = c + 1
    BY <1>1
  <2>2. 2^(c + 1) = 2 * 2^c
    BY <2>1, Power
  <2> QED
    BY <2>1, <2>2
<1>5. P(0) = INPUTS_NORMALIZED
  BY <1>1 DEF INPUTS_NORMALIZED
<1> HIDE DEF way, P
<1>6. 0 \in S
  <2>1. P(0) \in Nat /\ k \in Nat /\ k <= P(0) - 1 /\ MUXED - 1 - k = 2 * P(0) - 2 - k
    BY <1>1, <1>3, <1>5, MuxAssumption DEF Inputs, MUXED, INPUTS_NORMALIZED
  <2> QED
    BY <1>2, <2>1
<1>7. ASSUME NEW m \in 0 .. DEPTH - 1, m \in S PROVE m + 1 \in S
  <2>1. way[m + 1] = (way[m] - 1) \div 2
    <3>1. m + 1 \in 1 .. DEPTH /\ m + 1 - 1 = m
      BY <1>1
    <3> QED
      BY <1>2, <3>1 DEF ParentOf
  <2>2. P(m) = 2 * P(m + 1) /\ P(m + 1) \in Nat /\ P(m + 1) >= 1 /\ m + 1 \in Nat
    BY <1>1, <1>3, <1>4
  <2>3. way[m] \in Nat /\ 2 * P(m + 1) - 1 <= way[m] /\ way[m] <= 4 * P(m + 1) - 2
    BY <1>7, <2>2
  <2> QED
    BY <2>1, <2>2, <2>3
<1> HIDE DEF S
<1>8. d \in Nat /\ \A m \in 0 .. d - 1 : m \in 0 .. DEPTH - 1
  BY <1>1
<1>9. d \in S
  <2>1. \A m \in 0 .. d - 1 : m \in S => m + 1 \in S
    BY <1>7, <1>8
  <2> QED
    BY <1>6, <1>8, <2>1, Induction
<1> QED
  BY <1>9 DEF S, way, P

(***************************************************************************)
(* A way begins at the stream of its input, passes only multiplexers, each *)
(* at its first or second input, and ends at stream 0; it meets no stream  *)
(* twice.                                                                  *)
(***************************************************************************)
LEMMA WayTo ==
    ASSUME NEW k \in Inputs
    PROVE  /\ DEPTH \in Nat /\ DEPTH >= 1
           /\ Way(k)[0] = MUXED - 1 - k
           /\ Way(k)[0] \in Buffers /\ Way(k)[0] \notin Units
           /\ Way(k)[DEPTH] = 0
           /\ \A d \in 0 .. DEPTH : Way(k)[d] \in Streams
           /\ \A d \in 1 .. DEPTH :
                 /\ Way(k)[d] \in Units
                 /\ Way(k)[d - 1] \in Buffers
                 /\ ParentOf(Way(k)[d - 1]) = Way(k)[d]
           /\ \A d, e \in 0 .. DEPTH : Way(k)[d] = Way(k)[e] => d = e
<1> DEFINE way == Way(k)
           P(m) == 2^(DEPTH - m)
<1>1. DEPTH \in Nat /\ DEPTH >= 1
  BY MuxAssumption
<1>2. /\ way[0] = MUXED - 1 - k
      /\ \A m \in 1 .. DEPTH : way[m] = ParentOf(way[m - 1])
  BY WaySteps
<1>3. \A m \in 0 .. DEPTH : way[m] \in Nat /\ P(m) - 1 <= way[m] /\ way[m] <= 2 * P(m) - 2
  BY WayLevels
<1>4. \A m \in 0 .. DEPTH : P(m) \in Nat /\ P(m) >= 1
  BY <1>1, Power
<1>5. \A d, e \in 0 .. DEPTH : d < e => 2 * P(e) <= P(d)
  <2> SUFFICES ASSUME NEW d \in 0 .. DEPTH, NEW e \in 0 .. DEPTH, d < e
               PROVE  2 * P(e) <= P(d)
    OBVIOUS
  <2>1. DEPTH - e \in Nat /\ DEPTH - d \in Nat /\ DEPTH - e < DEPTH - d
    BY <1>1
  <2> QED
    BY <2>1, PowerGrows
<1>6. P(DEPTH) = 1
  <2>1. DEPTH - DEPTH = 0
    BY <1>1
  <2> QED
    BY <2>1, Power
<1>7. P(0) = 2^DEPTH
  BY <1>1
<1>8. /\ Buffers = 1 .. 2 * P(0) - 2 /\ Units = 0 .. P(0) - 2
      /\ Streams = 0 .. 2 * P(0) - 2
  BY <1>1, <1>4, <1>7 DEF MUXED, INPUTS_NORMALIZED, Units, Buffers, Streams
<1> HIDE DEF way, P
<1>9. way[0] \in Buffers /\ way[0] \notin Units
  <2>1. way[0] \in Nat /\ P(0) - 1 <= way[0] /\ way[0] <= 2 * P(0) - 2 /\ P(0) \in Nat
    BY <1>1, <1>3, <1>4
  <2>2. 2 <= P(0)
    BY <1>1, <1>5, <1>6
  <2> QED
    BY <1>8, <2>1, <2>2
<1>10. way[DEPTH] = 0
  BY <1>1, <1>3, <1>6
<1>11. ASSUME NEW d \in 0 .. DEPTH PROVE way[d] \in Streams
  <2>1. P(d) <= P(0) /\ P(0) \in Nat /\ P(d) \in Nat
    BY <1>1, <1>4, <1>5
  <2> QED
    BY <1>3, <1>8, <2>1
<1>12. ASSUME NEW d \in 1 .. DEPTH
       PROVE  way[d] \in Units /\ way[d - 1] \in Buffers /\ ParentOf(way[d - 1]) = way[d]
  <2>1. d \in 0 .. DEPTH /\ d - 1 \in 0 .. DEPTH /\ d - 1 < d /\ 0 \in 0 .. DEPTH /\ 0 < d
    BY <1>1
  <2>2. 2 * P(d) <= P(0) /\ 2 * P(d) <= P(d - 1) /\ P(d) >= 1 /\ P(d) \in Nat
        /\ P(0) \in Nat /\ P(d - 1) \in Nat
    BY <1>4, <1>5, <2>1
  <2>3. way[d] \in Units
    <3>1. way[d] \in Nat /\ way[d] <= 2 * P(d) - 2
      BY <1>3, <2>1
    <3> QED
      BY <1>8, <2>2, <3>1
  <2>4. way[d - 1] \in Buffers
    <3>1. way[d - 1] \in Nat /\ way[d - 1] >= P(d - 1) - 1
      BY <1>3, <2>1
    <3>2. way[d - 1] \in Streams
      BY <1>11, <2>1
    <3> QED
      BY <1>8, <2>2, <3>1, <3>2
  <2> QED
    BY <1>2, <2>3, <2>4
<1>13. \A d, e \in 0 .. DEPTH : d < e => way[d] # way[e]
  <2> SUFFICES ASSUME NEW d \in 0 .. DEPTH, NEW e \in 0 .. DEPTH, d < e
               PROVE  way[d] # way[e]
    OBVIOUS
  <2>1. 2 * P(e) <= P(d) /\ P(e) \in Nat /\ P(d) \in Nat
    BY <1>4, <1>5
  <2>2. /\ way[d] \in Nat /\ P(d) - 1 <= way[d]
        /\ way[e] \in Nat /\ way[e] <= 2 * P(e) - 2
    BY <1>3
  <2> QED
    BY <2>1, <2>2
<1>14. \A d, e \in 0 .. DEPTH : way[d] = way[e] => d = e
  <2>1. \A d, e \in 0 .. DEPTH : d < e \/ e < d \/ d = e
    BY <1>1
  <2> QED
    BY <1>13, <2>1
<1>15. /\ way[0] = MUXED - 1 - k
       /\ \A d \in 0 .. DEPTH : way[d] \in Streams
       /\ \A d \in 1 .. DEPTH : /\ way[d] \in Units
                                /\ way[d - 1] \in Buffers
                                /\ ParentOf(way[d - 1]) = way[d]
  BY <1>2, <1>11, <1>12
<1> QED
  BY <1>1, <1>9, <1>10, <1>14, <1>15 DEF way

-----------------------------------------------------------------------------
\* The words of one input on its way.

\* The word of input k in a skid buffer, on a stream, and leaving a stream.
SkidOf(n, k) == One(Kept(n) /\ buffered[n].src = k, buffered[n].last)

StreamOf(n, k) ==
    One(n \in Units /\ tvalid[n] /\ tdata[n].src = k, tdata[n].last)

Leaving(n, k) == One(Passed(n) /\ PassedWord(n).src = k, PassedWord(n).last)

Coming(k) == One(rx_tvalid[k] /\ Ready(MUXED - 1 - k), rx_tlast[k])

Cell(n, k) == Row(SkidOf(n, k), StreamOf(n, k))

Cells(k) == [d \in 0 .. DEPTH |-> Cell(Way(k)[d], k)]

\* The words of the input are those of the streams on its way, in a row.
LEMMA ContentsJoined ==
    \A k \in Inputs : Contents(k) = Joined(DEPTH, Cells(k))[DEPTH]
<1> SUFFICES ASSUME NEW k \in Inputs
             PROVE  Contents(k) = Joined(DEPTH, Cells(k))[DEPTH]
  OBVIOUS
<1> DEFINE N == DEPTH
           way == Way(k)
           G(f) == [d \in 0 .. N |-> IF d = 0 THEN HeldIn(way[0], k)
                                     ELSE HeldIn(way[d], k) \o f[d - 1]]
           held == CHOOSE f : f = G(f)
           row == Joined(N, Cells(k))
<1>1. N \in Nat
  BY WayTo
<1>2. Contents(k) = held[N]
  BY DEF Contents
<1>3. \A n : HeldIn(n, k) = Cell(n, k)
  BY DEF HeldIn, Cell, SkidOf, StreamOf, Row, One, Kept
<1>4. \A d \in 0 .. N : Cells(k)[d] = HeldIn(way[d], k)
  BY <1>3 DEF Cells
<1>5. \A f, d : Row(HeldIn(way[d], k), f[d - 1]) = HeldIn(way[d], k) \o f[d - 1]
  BY DEF Row
<1>6. row = [d \in 0 .. N |-> IF d = 0 THEN Cells(k)[0] ELSE Row(Cells(k)[d], row[d - 1])]
  BY <1>1, Joins
<1> HIDE DEF way, row, N
<1>7. row = G(row)
  <2>1. 0 \in 0 .. N
    BY <1>1
  <2>2. ASSUME NEW d \in 0 .. N
        PROVE  (IF d = 0 THEN Cells(k)[0] ELSE Row(Cells(k)[d], row[d - 1]))
                 = (IF d = 0 THEN HeldIn(way[0], k) ELSE HeldIn(way[d], k) \o row[d - 1])
    BY <1>4, <1>5, <2>1
  <2> QED
    BY <1>6, <2>2
<1>8. held = G(held)
  <2> HIDE DEF G
  <2> QED
    BY <1>7
<1> HIDE DEF held
<1>9. held[0] = Cells(k)[0]
  <2>1. 0 \in 0 .. N
    BY <1>1
  <2> QED
    BY <1>4, <1>8, <2>1
<1>10. ASSUME NEW d \in 1 .. N PROVE held[d] = Row(Cells(k)[d], held[d - 1])
  <2>1. d \in 0 .. N /\ d # 0
    BY <1>1
  <2>2. held[d] = HeldIn(way[d], k) \o held[d - 1]
    BY <1>8, <2>1
  <2> QED
    BY <1>4, <1>5, <2>1, <2>2
<1>11. held[N] = row[N]
  <2>1. \A m \in 0 .. N : held[m] = row[m]
    BY <1>1, <1>9, <1>10, JoinsOnly DEF row
  <2>2. N \in 0 .. N
    BY <1>1
  <2> QED
    BY <2>1, <2>2
<1> QED
  BY <1>2, <1>11 DEF row, N

-----------------------------------------------------------------------------
\* No word leaves its way.

OnItsWay(n, k) == \E d \in 0 .. DEPTH : Way(k)[d] = n

Routed ==
    \A n \in Streams : /\ Kept(n) => OnItsWay(n, buffered[n].src)
                       /\ Valid(n) => OnItsWay(n, Word(n).src)

WayInv == MuxInv /\ Routed

\* What the invariant of the packets says of the words.
LEMMA MuxTyped ==
    ASSUME MuxInv
    PROVE  /\ TypeOK /\ ReadyInv
           /\ \A n \in Streams : /\ Kept(n) => buffered[n] \in Words
                                 /\ Valid(n) => Word(n) \in Words
           /\ \A n \in Buffers : BufferedValid(n) => BufferedWord(n) \in Words
<1>1. TypeOK /\ ReadyInv
  BY DEF MuxInv
<1>2. PICK h \in [Streams -> Owners] : Owned(h)
  BY DEF MuxInv
<1>3. \A n \in Streams : Fits(h[n], n)
  BY <1>2 DEF Owned
<1>4. \A n \in Buffers : n \in Streams
  BY Heap
<1> QED
  BY <1>1, <1>3, <1>4, BufferedFits DEF Fits

\* A multiplexer takes the words of an input only from the stream before it.
LEMMA TakenOnWay ==
    ASSUME MuxInv, Routed, NEW n \in Buffers, BufferedValid(n)
    PROVE  OnItsWay(n, BufferedWord(n).src)
<1>1. n \in Streams
  BY Heap
<1>2. buffer_state[n] \in {"IDLE", "BUFFERED"}
  BY DEF MuxInv, TypeOK
<1>3. CASE buffer_state[n] = "BUFFERED"
  <2>1. Kept(n) /\ BufferedWord(n) = buffered[n]
    BY <1>3 DEF Kept, BufferedWord
  <2> QED
    BY <1>1, <2>1 DEF Routed
<1>4. CASE buffer_state[n] = "IDLE"
  <2>1. Valid(n) /\ BufferedWord(n) = Word(n)
    BY <1>4 DEF BufferedValid, BufferedWord
  <2> QED
    BY <1>1, <2>1 DEF Routed
<1> QED
  BY <1>2, <1>3, <1>4

\* The multiplexer behind a stream of a way is on the way.
LEMMA NextOnWay ==
    ASSUME NEW k \in Inputs, NEW n \in Buffers, OnItsWay(n, k)
    PROVE  OnItsWay(ParentOf(n), k)
<1>1. PICK d \in 0 .. DEPTH : Way(k)[d] = n
  BY DEF OnItsWay
<1>2. n # 0
  BY Heap
<1>3. Way(k)[DEPTH] = 0 /\ DEPTH \in Nat
  BY WayTo
<1>4. d + 1 \in 1 .. DEPTH /\ d + 1 - 1 = d /\ d + 1 \in 0 .. DEPTH
  BY <1>1, <1>2, <1>3
<1>5. ParentOf(Way(k)[d + 1 - 1]) = Way(k)[d + 1]
  BY <1>4, WayTo
<1> QED
  BY <1>1, <1>4, <1>5 DEF OnItsWay

\* The two inputs of a multiplexer are not both on the way.
LEMMA OneOnWay ==
    ASSUME NEW k \in Inputs, NEW d \in 1 .. DEPTH,
           NEW n \in Buffers, ParentOf(n) = Way(k)[d], OnItsWay(n, k)
    PROVE  n = Way(k)[d - 1]
<1>1. PICK e \in 0 .. DEPTH : Way(k)[e] = n
  BY DEF OnItsWay
<1>2. n # 0
  BY Heap
<1>3. Way(k)[DEPTH] = 0 /\ DEPTH \in Nat
  BY WayTo
<1>4. e + 1 \in 1 .. DEPTH /\ e + 1 - 1 = e /\ e + 1 \in 0 .. DEPTH /\ d \in 0 .. DEPTH
  BY <1>1, <1>2, <1>3
<1>5. ParentOf(Way(k)[e + 1 - 1]) = Way(k)[e + 1]
  BY <1>4, WayTo
<1>6. Way(k)[e + 1] = Way(k)[d]
  BY <1>1, <1>4, <1>5
<1>7. e + 1 = d
  BY <1>4, <1>6, WayTo
<1>8. e = d - 1
  BY <1>4, <1>7
<1> QED
  BY <1>1, <1>8

\* A clock keeps the words on their ways.
LEMMA RoutedClock == MuxInv /\ Routed /\ Clock => Routed'
<1> SUFFICES ASSUME MuxInv, Routed, Clock PROVE Routed'
  OBVIOUS
<1>0. TypeOK /\ ReadyInv
      /\ \A n \in Buffers : BufferedValid(n) => BufferedWord(n) \in Words
  BY MuxTyped
<1>1. ASSUME NEW n \in Streams, Kept(n)' PROVE OnItsWay(n, buffered'[n].src)
  <2>1. n \in Buffers /\ n \in Streams
    BY <1>1 DEF Kept
  <2>2. /\ buffer_state'[n] = NextBufferState(n)
        /\ buffered'[n] = IF buffer_tready[n] THEN Word(n) ELSE buffered[n]
    BY <2>1 DEF Clock, ClockBuffers
  <2>3. buffer_state'[n] = "BUFFERED"
    BY <1>1 DEF Kept
  <2>4. CASE Kept(n)
    <3>1. buffered'[n] = buffered[n]
      BY <1>0, <2>1, <2>2, <2>4 DEF ReadyInv
    <3> QED
      BY <1>1, <2>4, <3>1 DEF Routed
  <2>5. CASE ~Kept(n)
    <3>1. Valid(n) /\ buffer_tready[n]
      BY <2>1, <2>2, <2>3, <2>5 DEF Kept, NextBufferState
    <3> QED
      BY <1>1, <2>2, <3>1 DEF Routed
  <2> QED
    BY <2>4, <2>5
<1>2. ASSUME NEW n \in Units, Valid(n)' PROVE OnItsWay(n, Word(n)'.src)
  <2>1. n \in Streams /\ First(n) \in Buffers /\ Second(n) \in Buffers
        /\ ParentOf(First(n)) = n /\ ParentOf(Second(n)) = n
    BY <1>2, Heap
  <2>2. /\ tvalid'[n] = IF Ready(n) THEN BufferedValid(Selected(n)) ELSE tvalid[n]
        /\ tdata'[n] = IF Ready(n) THEN BufferedWord(Selected(n)) ELSE tdata[n]
    BY <1>2 DEF Clock, ClockUnits
  <2>3. /\ Valid(n) <=> tvalid[n]
        /\ Word(n) = tdata[n]
        /\ Valid(n)' <=> tvalid'[n]
        /\ Word(n)' = tdata'[n]
    BY <1>2, NoInputUnit DEF Valid, Word
  <2>4. CASE Ready(n)
    <3>1. Selected(n) \in {First(n), Second(n)}
      <4>1. fsm_state[n] \in {"FIRST", "FIRST_SELECT", "SECOND", "SECOND_SELECT"}
        BY <1>0, <1>2 DEF TypeOK
      <4> QED
        BY <4>1 DEF Selected
    <3> DEFINE m == Selected(n)
    <3>2. m \in Buffers /\ ParentOf(m) = n
      BY <2>1, <3>1
    <3>3. BufferedValid(m) /\ Word(n)' = BufferedWord(m)
      BY <1>2, <2>2, <2>3, <2>4
    <3> HIDE DEF m
    <3>4. OnItsWay(m, BufferedWord(m).src)
      BY <3>2, <3>3, TakenOnWay
    <3>5. BufferedWord(m).src \in Inputs
      BY <1>0, <3>2, <3>3 DEF Words
    <3> QED
      BY <3>2, <3>3, <3>4, <3>5, NextOnWay
  <2>5. CASE ~Ready(n)
    <3>1. Valid(n) /\ Word(n)' = Word(n)
      BY <1>2, <2>2, <2>3, <2>5
    <3> QED
      BY <2>1, <3>1 DEF Routed
  <2> QED
    BY <2>4, <2>5
<1>3. ASSUME NEW n \in Streams \ Units, Valid(n)' PROVE OnItsWay(n, Word(n)'.src)
  <2>1. InputOf(n) \in Inputs
    BY <1>3 DEF Valid
  <2>2. Word(n)'.src = InputOf(n)
    BY <1>3, <2>1 DEF Word
  <2>3. Way(InputOf(n))[0] = MUXED - 1 - InputOf(n) /\ DEPTH \in Nat
    BY <2>1, WayTo
  <2>4. MUXED - 1 - InputOf(n) = n
    <3>1. MUXED \in Nat /\ n \in Int
      BY Heap DEF Streams
    <3> QED
      BY <3>1 DEF InputOf
  <2>5. 0 \in 0 .. DEPTH
    BY <2>3
  <2> QED
    BY <2>2, <2>3, <2>4, <2>5 DEF OnItsWay
<1>4. \A n \in Streams : Valid(n)' => OnItsWay(n, Word(n)'.src)
  BY <1>2, <1>3
<1>5. \A n \in Streams : Kept(n)' => OnItsWay(n, buffered'[n].src)
  BY <1>1
<1> QED
  BY <1>4, <1>5 DEF Routed, OnItsWay

-----------------------------------------------------------------------------
\* A clock of the streams of a way.

\* The skid buffer: it keeps what it took and did not pass on.
LEMMA MuxSkidConveys ==
    ASSUME MuxInv, Clock, NEW n \in Buffers, NEW k
    PROVE  Row(SkidOf(n, k),
               One(Valid(n) /\ buffer_tready[n] /\ Word(n).src = k, Word(n).last))
               = Row(Leaving(n, k), SkidOf(n, k)')
<1>1. TypeOK /\ ReadyInv /\ n # 0 /\ n \in Streams
  BY MuxTyped, Heap
<1>2. /\ buffer_state'[n] = NextBufferState(n)
      /\ buffered'[n] = IF buffer_tready[n] THEN Word(n) ELSE buffered[n]
      /\ buffer_state[n] \in {"IDLE", "BUFFERED"}
  BY <1>1 DEF Clock, ClockBuffers, TypeOK
<1>3. /\ Kept(n) <=> buffer_state[n] = "BUFFERED"
      /\ Kept(n)' <=> buffer_state'[n] = "BUFFERED"
  BY DEF Kept
<1>4. Passed(n) <=> BufferedValid(n) /\ Selected(ParentOf(n)) = n /\ Ready(ParentOf(n))
  BY <1>1 DEF Passed
<1>5. BufferedReady(n) <=> ~BufferedValid(n) \/ Passed(n)
  BY <1>4 DEF BufferedReady
<1>6. BufferedValid(n) <=> Kept(n) \/ (Valid(n) /\ buffer_tready[n])
  BY <1>3 DEF BufferedValid
<1>7. PassedWord(n) = IF Kept(n) THEN buffered[n] ELSE Word(n)
  BY <1>1, <1>2, <1>3 DEF PassedWord, BufferedWord
<1>8. Kept(n) => ~buffer_tready[n]
  BY <1>1 DEF ReadyInv
<1>9. Kept(n)' <=> (Kept(n) \/ (Valid(n) /\ buffer_tready[n])) /\ ~Passed(n)
  BY <1>2, <1>3, <1>4, <1>5, <1>6, <1>8 DEF NextBufferState
<1> DEFINE kept == Kept(n)
           ready == buffer_tready[n]
           valid == Valid(n)
           taken == Passed(n)
           kept2 == Kept(n)'
           b == buffered[n].last
           mb == buffered[n].src = k
           w == Word(n).last
           mw == Word(n).src = k
           b2 == buffered'[n].last
           mb2 == buffered'[n].src = k
           t == PassedWord(n).last
           mt == PassedWord(n).src = k
<1>10. /\ kept \in BOOLEAN /\ ready \in BOOLEAN /\ valid \in BOOLEAN /\ taken \in BOOLEAN
       /\ kept2 \in BOOLEAN /\ mb \in BOOLEAN /\ mw \in BOOLEAN /\ mb2 \in BOOLEAN
       /\ mt \in BOOLEAN
  <2>1. kept \in BOOLEAN /\ taken \in BOOLEAN /\ kept2 \in BOOLEAN
    BY <1>1 DEF Kept, Passed
  <2>2. ready \in BOOLEAN
    BY <1>1 DEF TypeOK
  <2>3. valid \in BOOLEAN
    BY <1>1 DEF TypeOK, Valid
  <2>4. mb \in BOOLEAN /\ mw \in BOOLEAN /\ mb2 \in BOOLEAN /\ mt \in BOOLEAN
    OBVIOUS
  <2> QED
    BY <2>1, <2>2, <2>3, <2>4
<1>11. /\ b2 = IF ready THEN w ELSE b
       /\ mb2 = IF ready THEN mw ELSE mb
       /\ t = IF kept THEN b ELSE w
       /\ mt = IF kept THEN mb ELSE mw
  BY <1>2, <1>7
<1>12. /\ kept => ~ready
       /\ taken => kept \/ (valid /\ ready)
       /\ kept2 <=> (kept \/ (valid /\ ready)) /\ ~taken
  BY <1>4, <1>6, <1>8, <1>9
<1>13. /\ SkidOf(n, k) = One(kept /\ mb, b)
       /\ Leaving(n, k) = One(taken /\ mt, t)
       /\ SkidOf(n, k)' = One(kept2 /\ mb2, b2)
  BY DEF SkidOf, Leaving, One
<1> HIDE DEF kept, ready, valid, taken, kept2, b, mb, w, mw, b2, mb2, t, mt
<1>14. SkidMoves(kept, ready, valid, taken, kept2, b, mb, w, mw, b2, mb2, t, mt)
  BY <1>10, <1>11, <1>12 DEF SkidMoves
<1>15. Row(One(kept /\ mb, b), One(valid /\ ready /\ mw, w))
         = Row(One(taken /\ mt, t), One(kept2 /\ mb2, b2))
  BY <1>14, SkidConveys
<1> QED
  BY <1>13, <1>15 DEF valid, ready, mw, w

\* The register of a multiplexer.
LEMMA MuxRegisterConveys ==
    ASSUME MuxInv, Routed, Clock, NEW k \in Inputs, NEW d \in 1 .. DEPTH,
           NEW n, n = Way(k)[d], NEW m, m = Way(k)[d - 1]
    PROVE  Row(StreamOf(n, k), Leaving(m, k))
               = Row(One(tvalid[n] /\ tdata[n].src = k /\ Ready(n), tdata[n].last),
                     StreamOf(n, k)')
<1>1. TypeOK /\ \A j \in Buffers : BufferedValid(j) => BufferedWord(j) \in Words
  BY MuxTyped
<1>2. n \in Units /\ m \in Buffers /\ ParentOf(m) = n /\ m # 0
  BY WayTo, Heap
<1>3. /\ tvalid'[n] = IF Ready(n) THEN BufferedValid(Selected(n)) ELSE tvalid[n]
      /\ tdata'[n] = IF Ready(n) THEN BufferedWord(Selected(n)) ELSE tdata[n]
  BY <1>2 DEF Clock, ClockUnits
<1>4. /\ Passed(m) <=> BufferedValid(m) /\ Selected(n) = m /\ Ready(n)
      /\ PassedWord(m) = BufferedWord(m)
  BY <1>2 DEF Passed, PassedWord
<1>5. Selected(n) \in Buffers /\ ParentOf(Selected(n)) = n
  <2>1. Selected(n) \in {First(n), Second(n)}
    <3>1. fsm_state[n] \in {"FIRST", "FIRST_SELECT", "SECOND", "SECOND_SELECT"}
      BY <1>1, <1>2 DEF TypeOK
    <3> QED
      BY <3>1 DEF Selected
  <2>2. /\ First(n) \in Buffers /\ Second(n) \in Buffers
        /\ ParentOf(First(n)) = n /\ ParentOf(Second(n)) = n
    BY <1>2, Heap
  <2> QED
    BY <2>1, <2>2
<1>6. ASSUME Selected(n) # m, BufferedValid(Selected(n)) PROVE BufferedWord(Selected(n)).src # k
  <2> SUFFICES ASSUME BufferedWord(Selected(n)).src = k PROVE FALSE
    OBVIOUS
  <2>1. OnItsWay(Selected(n), k)
    BY <1>5, <1>6, TakenOnWay
  <2>2. Selected(n) = m
    <3> DEFINE j == Selected(n)
    <3>1. j \in Buffers /\ ParentOf(j) = Way(k)[d] /\ OnItsWay(j, k)
      BY <1>5, <2>1
    <3> HIDE DEF j
    <3>2. j = Way(k)[d - 1]
      BY <3>1, OneOnWay
    <3> QED
      BY <3>2 DEF j
  <2> QED
    BY <1>6, <2>2
<1> DEFINE valid == tvalid[n] /\ tdata[n].src = k
           ready == Ready(n)
           loads == Passed(m) /\ PassedWord(m).src = k
           valid2 == tvalid'[n] /\ tdata'[n].src = k
           w == tdata[n].last
           i == PassedWord(m).last
           w2 == tdata'[n].last
<1>7. /\ valid \in BOOLEAN /\ loads \in BOOLEAN /\ valid2 \in BOOLEAN /\ ready \in BOOLEAN
  <2>1. valid \in BOOLEAN /\ loads \in BOOLEAN /\ valid2 \in BOOLEAN
    OBVIOUS
  <2>2. ready \in BOOLEAN
    <3>1. n = 0 \/ n \in Buffers
      BY <1>2, Heap
    <3> QED
      BY <1>1, <3>1 DEF TypeOK, Ready
  <2> QED
    BY <2>1, <2>2
<1>8. loads => ready
  BY <1>4
<1>9. valid2 = IF ready THEN loads ELSE valid
  <2>1. CASE ~ready
    BY <1>3, <2>1
  <2>2. CASE ready /\ Selected(n) = m
    BY <1>3, <1>4, <2>2
  <2>3. CASE ready /\ Selected(n) # m
    <3>1. ~loads
      BY <1>4, <2>3
    <3>2. ~valid2
      BY <1>3, <1>6, <2>3
    <3> QED
      BY <2>3, <3>1, <3>2
  <2> QED
    BY <2>1, <2>2, <2>3
<1>10. valid2 => w2 = IF ready THEN i ELSE w
  <2>1. CASE ~ready
    BY <1>3, <2>1
  <2>2. CASE ready
    <3>1. valid2 => Selected(n) = m
      BY <1>3, <1>6, <2>2
    <3> QED
      BY <1>3, <1>4, <2>2, <3>1
  <2> QED
    BY <2>1, <2>2
<1>11. /\ StreamOf(n, k) = One(valid, w)
       /\ Leaving(m, k) = One(loads, i)
       /\ StreamOf(n, k)' = One(valid2, w2)
       /\ One(tvalid[n] /\ tdata[n].src = k /\ Ready(n), tdata[n].last)
            = One(valid /\ ready, w)
  BY <1>2 DEF StreamOf, Leaving, One
<1> HIDE DEF valid, ready, loads, valid2, w, i, w2
<1>12. Row(One(valid, w), One(loads, i)) = Row(One(valid /\ ready, w), One(valid2, w2))
  BY <1>7, <1>8, <1>9, <1>10, RegisterConveys
<1> QED
  BY <1>11, <1>12

\* The types of the words on a way.
LEMMA PlacesTyped ==
    ASSUME MuxInv, NEW n \in Streams, NEW k
    PROVE  /\ SkidOf(n, k) \in Seq(BOOLEAN) /\ Len(SkidOf(n, k)) <= 1
           /\ StreamOf(n, k) \in Seq(BOOLEAN) /\ Len(StreamOf(n, k)) <= 1
           /\ Leaving(n, k) \in Seq(BOOLEAN)
<1>1. /\ TypeOK
      /\ Kept(n) => buffered[n] \in Words
      /\ Valid(n) => Word(n) \in Words
      /\ \A j \in Buffers : BufferedValid(j) => BufferedWord(j) \in Words
  BY MuxTyped
<1>2. \A word \in Words : word.last \in BOOLEAN
  BY DEF Words
<1>3. SkidOf(n, k) \in Seq(BOOLEAN) /\ Len(SkidOf(n, k)) <= 1
  <2> DEFINE valid == Kept(n) /\ buffered[n].src = k
             word == buffered[n].last
  <2>1. valid \in BOOLEAN /\ (valid => word \in BOOLEAN)
    BY <1>1, <1>2
  <2> HIDE DEF valid, word
  <2>2. One(valid, word) \in Seq(BOOLEAN) /\ Len(One(valid, word)) <= 1
    BY <2>1, OneTyped
  <2> QED
    BY <2>2 DEF SkidOf, valid, word
<1>4. StreamOf(n, k) \in Seq(BOOLEAN) /\ Len(StreamOf(n, k)) <= 1
  <2> DEFINE valid == n \in Units /\ tvalid[n] /\ tdata[n].src = k
             word == tdata[n].last
  <2>1. valid \in BOOLEAN /\ (valid => word \in BOOLEAN)
    BY <1>1, <1>2 DEF TypeOK
  <2> HIDE DEF valid, word
  <2>2. One(valid, word) \in Seq(BOOLEAN) /\ Len(One(valid, word)) <= 1
    BY <2>1, OneTyped
  <2> QED
    BY <2>2 DEF StreamOf, valid, word
<1>5. Leaving(n, k) \in Seq(BOOLEAN)
  <2> DEFINE valid == Passed(n) /\ PassedWord(n).src = k
             word == PassedWord(n).last
  <2>1. Passed(n) => PassedWord(n) \in Words
    <3>1. CASE n = 0
      BY <1>1, <3>1 DEF Passed, PassedWord
    <3>2. CASE n # 0
      BY <1>1, <3>2, Heap DEF Passed, PassedWord
    <3> QED
      BY <3>1, <3>2
  <2>2. valid \in BOOLEAN /\ (valid => word \in BOOLEAN)
    BY <1>2, <2>1
  <2> HIDE DEF valid, word
  <2>3. One(valid, word) \in Seq(BOOLEAN)
    BY <2>2, OneTyped
  <2> QED
    BY <2>3 DEF Leaving, valid, word
<1> QED
  BY <1>3, <1>4, <1>5

\* The types of the words on a way, before and after a step.
LEMMA CellsTyped ==
    MuxInv => \A k \in Inputs : \A n \in Streams :
                  /\ SkidOf(n, k) \in Seq(BOOLEAN) /\ Len(SkidOf(n, k)) <= 1
                  /\ StreamOf(n, k) \in Seq(BOOLEAN) /\ Len(StreamOf(n, k)) <= 1
                  /\ Leaving(n, k) \in Seq(BOOLEAN)
BY PlacesTyped

\* The same after a step.
LEMMA CellsTypedNext ==
    MuxInv' => \A k \in Inputs : \A n \in Streams :
                   /\ SkidOf(n, k)' \in Seq(BOOLEAN) /\ Len(SkidOf(n, k)') <= 1
                   /\ StreamOf(n, k)' \in Seq(BOOLEAN) /\ Len(StreamOf(n, k)') <= 1
<1>1. (MuxInv => \A k \in Inputs : \A n \in Streams :
                  /\ SkidOf(n, k) \in Seq(BOOLEAN) /\ Len(SkidOf(n, k)) <= 1
                  /\ StreamOf(n, k) \in Seq(BOOLEAN) /\ Len(StreamOf(n, k)) <= 1
                  /\ Leaving(n, k) \in Seq(BOOLEAN))'
  BY CellsTyped, PTL
<1> QED
  BY <1>1

\* A clock of a stream inside the tree.
LEMMA WayMoves ==
    ASSUME MuxInv, MuxInv', Routed, Clock, NEW k \in Inputs, NEW d \in 1 .. DEPTH,
           NEW n, n = Way(k)[d], NEW m, m = Way(k)[d - 1]
    PROVE  Row(Cell(n, k), Leaving(m, k)) = Row(Leaving(n, k), Cell(n, k)')
<1>1. /\ n \in Units /\ n \in Streams /\ m \in Streams
      /\ n = 0 \/ n \in Buffers
  BY WayTo, Heap
<1> DEFINE leaves == One(tvalid[n] /\ tdata[n].src = k /\ Ready(n), tdata[n].last)
<1>2. Row(StreamOf(n, k), Leaving(m, k)) = Row(leaves, StreamOf(n, k)')
  BY MuxRegisterConveys
<1>3. (Valid(n) <=> tvalid[n]) /\ Word(n) = tdata[n]
  BY <1>1, NoInputUnit DEF Valid, Word
<1>4. Row(SkidOf(n, k), leaves) = Row(Leaving(n, k), SkidOf(n, k)')
  <2>1. CASE n = 0
    <3>1. Leaving(n, k) = leaves
      <4>1. Leaving(n, k) = One(tvalid[n] /\ tx_tready /\ tdata[n].src = k, tdata[n].last)
        BY <1>3, <2>1 DEF Leaving, Passed, PassedWord, One
      <4>2. Ready(n) = tx_tready
        BY <2>1 DEF Ready
      <4> QED
        BY <4>1, <4>2 DEF One
    <3>2. SkidOf(n, k) = <<>> /\ SkidOf(n, k)' = <<>>
      BY <2>1, Heap DEF SkidOf, Kept, One
    <3>3. Leaving(n, k) \in Seq(BOOLEAN)
      BY <1>1, CellsTyped
    <3> HIDE DEF leaves
    <3> QED
      BY <3>1, <3>2, <3>3, RowEmpty
  <2>2. CASE n # 0
    <3>1. n \in Buffers
      BY <1>1, <2>2
    <3>2. Ready(n) = buffer_tready[n]
      BY <2>2 DEF Ready
    <3>3. One(Valid(n) /\ buffer_tready[n] /\ Word(n).src = k, Word(n).last) = leaves
      BY <1>3, <3>2 DEF One
    <3> HIDE DEF leaves
    <3> QED
      BY <3>1, <3>3, MuxSkidConveys
  <2> QED
    BY <2>1, <2>2
<1>5. leaves \in Seq(BOOLEAN)
  <2> DEFINE valid == tvalid[n] /\ tdata[n].src = k /\ Ready(n)
             word == tdata[n].last
  <2>1. valid => word \in BOOLEAN
    BY <1>1, MuxTyped DEF TypeOK, Words
  <2>2. valid \in BOOLEAN
    <3>1. tvalid[n] \in BOOLEAN
      BY <1>1, MuxTyped DEF TypeOK
    <3>2. Ready(n) \in BOOLEAN
      BY <1>1, MuxTyped DEF TypeOK, Ready
    <3> QED
      BY <3>1, <3>2
  <2> HIDE DEF valid, word
  <2>3. One(valid, word) \in Seq(BOOLEAN)
    BY <2>1, <2>2, OneTyped
  <2> QED
    BY <2>3 DEF valid, word
<1>6. /\ SkidOf(n, k) \in Seq(BOOLEAN) /\ StreamOf(n, k) \in Seq(BOOLEAN)
      /\ Leaving(m, k) \in Seq(BOOLEAN) /\ Leaving(n, k) \in Seq(BOOLEAN)
      /\ SkidOf(n, k)' \in Seq(BOOLEAN) /\ StreamOf(n, k)' \in Seq(BOOLEAN)
  BY <1>1, CellsTyped, CellsTypedNext
<1>7. Cell(n, k)' = Row(SkidOf(n, k)', StreamOf(n, k)')
  BY DEF Cell
<1> DEFINE skid == SkidOf(n, k)
           register == StreamOf(n, k)
           loads == Leaving(m, k)
           taken == Leaving(n, k)
           skid2 == SkidOf(n, k)'
           register2 == StreamOf(n, k)'
           S == BOOLEAN
<1> HIDE DEF leaves
<1>8. Row(Row(skid, register), loads) = Row(taken, Row(skid2, register2))
  <2>1. /\ skid \in Seq(S) /\ register \in Seq(S) /\ loads \in Seq(S)
        /\ leaves \in Seq(S) /\ register2 \in Seq(S) /\ taken \in Seq(S)
        /\ skid2 \in Seq(S)
        /\ Row(register, loads) = Row(leaves, register2)
        /\ Row(skid, leaves) = Row(taken, skid2)
    BY <1>2, <1>4, <1>5, <1>6
  <2> HIDE DEF skid, register, loads, taken, skid2, register2, S
  <2> QED
    <3>1. Row(Row(skid, register), loads) = Row(skid, Row(leaves, register2))
      BY <2>1, RowAssociative
    <3>2. Row(skid, Row(leaves, register2)) = Row(Row(taken, skid2), register2)
      BY <2>1, RowAssociative
    <3>3. Row(Row(taken, skid2), register2) = Row(taken, Row(skid2, register2))
      BY <2>1, RowAssociative
    <3> QED
      BY <3>1, <3>2, <3>3
<1> QED
  BY <1>7, <1>8 DEF Cell

\* A clock of the stream of an input.
LEMMA WayEnters ==
    ASSUME MuxInv, MuxInv', Clock, NEW k \in Inputs, NEW n, n = Way(k)[0]
    PROVE  Row(Cell(n, k), Coming(k)) = Row(Leaving(n, k), Cell(n, k)')
<1>1. /\ n = MUXED - 1 - k /\ n \in Buffers /\ n \notin Units /\ n # 0
      /\ n \in Streams /\ InputOf(n) = k
  BY WayTo, Heap
<1>2. /\ Valid(n) = rx_tvalid[k]
      /\ Word(n) = [src |-> k, last |-> rx_tlast[k]]
      /\ Ready(n) = buffer_tready[n]
  BY <1>1, MuxTyped DEF TypeOK, Valid, Word, Ready
<1>3. One(Valid(n) /\ buffer_tready[n] /\ Word(n).src = k, Word(n).last) = Coming(k)
  BY <1>1, <1>2 DEF Coming, One
<1>4. Row(SkidOf(n, k), Coming(k)) = Row(Leaving(n, k), SkidOf(n, k)')
  BY <1>1, <1>3, MuxSkidConveys
<1>5. StreamOf(n, k) = <<>> /\ StreamOf(n, k)' = <<>>
  BY <1>1 DEF StreamOf, One
<1>6. SkidOf(n, k) \in Seq(BOOLEAN) /\ SkidOf(n, k)' \in Seq(BOOLEAN)
  BY <1>1, CellsTyped, CellsTypedNext
<1>7. Cell(n, k) = SkidOf(n, k)
  BY <1>5, <1>6, RowEmpty DEF Cell
<1>8. Cell(n, k)' = SkidOf(n, k)'
  <2>1. Cell(n, k)' = Row(SkidOf(n, k)', <<>>)
    BY <1>5 DEF Cell
  <2> DEFINE skid2 == SkidOf(n, k)'
  <2>2. skid2 \in Seq(BOOLEAN)
    BY <1>6
  <2> HIDE DEF skid2
  <2>3. Row(skid2, <<>>) = skid2
    BY <2>2, RowEmpty
  <2> QED
    BY <2>1, <2>3 DEF skid2
<1> QED
  BY <1>4, <1>7, <1>8

\* The words of the input after a step are the cells after it, in a row.
LEMMA ContentsJoinedNext ==
    (\A k \in Inputs : Contents(k) = Joined(DEPTH, Cells(k))[DEPTH])'
BY ContentsJoined, PTL

\* In other words.
LEMMA ContentsNext ==
    ASSUME NEW k \in Inputs, NEW after,
           after = [d \in 0 .. DEPTH |-> Cell(Way(k)[d], k)']
    PROVE  Contents(k)' = Joined(DEPTH, after)[DEPTH]
<1>2. (Contents(k) = Joined(DEPTH, Cells(k))[DEPTH])'
  BY ContentsJoinedNext
<1>3. Cells(k)' = after
  BY DEF Cells
<1> QED
  BY <1>2, <1>3

\* What the tree does in a clock with the words of an input.
LEMMA WayConveys ==
    ASSUME MuxInv, MuxInv', Routed, Clock, NEW k \in Inputs, NEW after,
           after = [d \in 0 .. DEPTH |-> Cell(Way(k)[d], k)']
    PROVE  /\ Row(Joined(DEPTH, Cells(k))[DEPTH], Coming(k))
                = Row(Leaving(0, k), Joined(DEPTH, after)[DEPTH])
           /\ after \in [0 .. DEPTH -> Seq(BOOLEAN)]
           /\ Cells(k) \in [0 .. DEPTH -> Seq(BOOLEAN)]
           /\ Coming(k) \in Seq(BOOLEAN)
<1> DEFINE N == DEPTH
           cells == Cells(k)
           passed == [d \in 0 .. N |-> Leaving(Way(k)[d], k)]
           coming == Coming(k)
           S == BOOLEAN
<1>1. N \in Nat /\ 0 \in 0 .. N /\ N \in 0 .. N /\ \A d \in 0 .. N : Way(k)[d] \in Streams
  BY WayTo
<1>2. coming \in Seq(S)
  <2> DEFINE valid == rx_tvalid[k] /\ Ready(MUXED - 1 - k)
             word == rx_tlast[k]
  <2>1. word \in BOOLEAN
    BY MuxTyped DEF TypeOK
  <2>2. valid \in BOOLEAN
    <3>1. MUXED - 1 - k \in Buffers /\ MUXED - 1 - k # 0
      BY WayTo, Heap
    <3> QED
      BY <3>1, MuxTyped DEF TypeOK, Ready
  <2> HIDE DEF valid, word
  <2>3. One(valid, word) \in Seq(BOOLEAN)
    BY <2>1, <2>2, OneTyped
  <2> QED
    BY <2>3 DEF Coming, valid, word
<1>3. ASSUME NEW d \in 0 .. N
      PROVE  cells[d] \in Seq(S) /\ after[d] \in Seq(S) /\ passed[d] \in Seq(S)
  <2> DEFINE n == Way(k)[d]
  <2>1. n \in Streams
    BY <1>1
  <2>2. /\ cells[d] = Row(SkidOf(n, k), StreamOf(n, k))
        /\ after[d] = Row(SkidOf(n, k)', StreamOf(n, k)')
        /\ passed[d] = Leaving(n, k)
    BY DEF Cells, Cell
  <2>3. /\ SkidOf(n, k) \in Seq(BOOLEAN) /\ StreamOf(n, k) \in Seq(BOOLEAN)
        /\ Leaving(n, k) \in Seq(BOOLEAN)
        /\ SkidOf(n, k)' \in Seq(BOOLEAN) /\ StreamOf(n, k)' \in Seq(BOOLEAN)
    BY <2>1, CellsTyped, CellsTypedNext
  <2> HIDE DEF n, cells, passed
  <2> QED
    BY <2>2, <2>3, RowSeq
<1>4. /\ cells \in [0 .. N -> Seq(S)]
      /\ after \in [0 .. N -> Seq(S)]
      /\ passed \in [0 .. N -> Seq(S)]
  <2>1. cells = [d \in 0 .. N |-> cells[d]] /\ after = [d \in 0 .. N |-> after[d]]
        /\ passed = [d \in 0 .. N |-> passed[d]]
    BY DEF Cells
  <2> HIDE DEF cells, passed
  <2> QED
    BY <1>3, <2>1
<1>5. Row(cells[0], coming) = Row(passed[0], after[0])
  <2> DEFINE n == Way(k)[0]
  <2>1. cells[0] = Cell(n, k) /\ after[0] = Cell(n, k)' /\ passed[0] = Leaving(n, k)
    BY <1>1 DEF Cells
  <2>2. Row(Cell(n, k), Coming(k)) = Row(Leaving(n, k), Cell(n, k)')
    BY WayEnters
  <2> QED
    BY <2>1, <2>2
<1>6. ASSUME NEW d \in 1 .. N PROVE Row(cells[d], passed[d - 1]) = Row(passed[d], after[d])
  <2> DEFINE n == Way(k)[d]
             m == Way(k)[d - 1]
  <2>1. d \in 0 .. N /\ d - 1 \in 0 .. N
    BY <1>1
  <2>2. /\ cells[d] = Cell(n, k) /\ after[d] = Cell(n, k)'
        /\ passed[d] = Leaving(n, k) /\ passed[d - 1] = Leaving(m, k)
    BY <2>1 DEF Cells
  <2>3. Row(Cell(n, k), Leaving(m, k)) = Row(Leaving(n, k), Cell(n, k)')
    BY WayMoves
  <2> QED
    BY <2>2, <2>3
<1>7. passed[N] = Leaving(0, k)
  BY <1>1, WayTo
<1> HIDE DEF N, cells, passed, coming, S
<1>8. Steps(S, N, cells, after, passed, coming)
  BY <1>1, <1>2, <1>4, <1>5, <1>6 DEF Steps
<1>9. Row(Joined(N, cells)[N], coming) = Row(passed[N], Joined(N, after)[N])
  BY <1>1, <1>8, Conveyed
<1> QED
  BY <1>2, <1>4, <1>7, <1>9 DEF N, cells, coming, S

\* The room on a way: the input has no register, the output no skid buffer.
LEMMA WayRoom ==
    ASSUME MuxInv', NEW k \in Inputs, NEW after \in [0 .. DEPTH -> Seq(BOOLEAN)],
           after = [d \in 0 .. DEPTH |-> Cell(Way(k)[d], k)']
    PROVE  Len(Joined(DEPTH, after)[DEPTH]) <= 2 * DEPTH
<1> DEFINE N == DEPTH
           room == [d \in 0 .. N |-> IF d = N THEN 2 * N ELSE 2 * d + 1]
           S == BOOLEAN
<1>1. N \in Nat /\ N >= 1 /\ 0 \in 0 .. N /\ N \in 0 .. N
  BY WayTo
<1>2. ASSUME NEW d \in 0 .. N
      PROVE  /\ Len(after[d]) \in Nat /\ Len(after[d]) <= 2
             /\ d = 0 \/ d = N => Len(after[d]) <= 1
  <2> DEFINE n == Way(k)[d]
             skid == SkidOf(n, k)'
             register == StreamOf(n, k)'
  <2>1. n \in Streams
    BY WayTo
  <2>2. after[d] = Row(skid, register)
    BY DEF Cell
  <2>3. skid \in Seq(S) /\ register \in Seq(S) /\ Len(skid) <= 1 /\ Len(register) <= 1
    BY <2>1, CellsTypedNext
  <2>4. /\ d = 0 => register = <<>>
        /\ d = N => skid = <<>>
    <3>1. d = 0 => n \notin Units
      BY WayTo
    <3>2. d = N => n \notin Buffers
      BY WayTo, Heap
    <3> HIDE DEF n
    <3> QED
      BY <3>1, <3>2 DEF SkidOf, StreamOf, Kept, One
  <2> HIDE DEF skid, register, N, S
  <2>5. Len(after[d]) = Len(skid) + Len(register)
    BY <2>2, <2>3, RowSeq
  <2>6. Len(skid) \in Nat /\ Len(register) \in Nat
    BY <2>3, LenProperties
  <2>7. Len(<<>>) = 0
    OBVIOUS
  <2> DEFINE x == Len(skid)
             y == Len(register)
  <2>8. x \in Nat /\ y \in Nat /\ x <= 1 /\ y <= 1 /\ (d = 0 => y = 0) /\ (d = N => x = 0)
    BY <2>3, <2>4, <2>6, <2>7
  <2>9. Len(after[d]) = x + y
    BY <2>5
  <2> HIDE DEF x, y
  <2> QED
    BY <2>8, <2>9
<1>3. room \in [0 .. N -> Nat] /\ room[0] = 1 /\ room[N] = 2 * N
      /\ \A d \in 1 .. N : room[d - 1] = 2 * d - 1 /\ (d # N => room[d] = 2 * d + 1)
  BY <1>1
<1> HIDE DEF room
<1>4. Len(after[0]) <= room[0]
  BY <1>1, <1>2, <1>3
<1>5. ASSUME NEW d \in 1 .. N PROVE Len(after[d]) + room[d - 1] <= room[d]
  <2>1. d \in 0 .. N
    BY <1>1
  <2> DEFINE x == Len(after[d])
  <2>2. x \in Nat /\ x <= 2 /\ (d = N => x <= 1)
    BY <1>2, <2>1
  <2>3. room[d - 1] = 2 * d - 1 /\ (d # N => room[d] = 2 * d + 1) /\ room[N] = 2 * N
    BY <1>3
  <2> HIDE DEF x, N
  <2>4. x + room[d - 1] <= room[d]
    <3>1. CASE d = N
      BY <1>1, <2>2, <2>3, <3>1
    <3>2. CASE d # N
      BY <1>1, <2>2, <2>3, <3>2
    <3> QED
      BY <3>1, <3>2
  <2> QED
    BY <2>4 DEF x
<1> HIDE DEF N, S
<1>6. after \in [0 .. N -> Seq(S)]
  BY DEF N, S
<1>7. \A m \in 0 .. N : Len(Joined(N, after)[m]) <= room[m]
  BY <1>1, <1>3, <1>4, <1>5, <1>6, JoinedRoom
<1>8. Len(Joined(N, after)[N]) <= 2 * N
  BY <1>1, <1>3, <1>7
<1> QED
  BY <1>8 DEF N

(***************************************************************************)
(* A clock edge transfers: for the words of each input the whole tree is   *)
(* one row, and its output shows the oldest of them or none.               *)
(***************************************************************************)
LEMMA MuxTransfer ==
    ASSUME MuxInv, MuxInv', Routed, Clock, NEW k \in Inputs
    PROVE  Fifo(k)!Transfer
<1> DEFINE N == DEPTH
           S == BOOLEAN
           after == [d \in 0 .. N |-> Cell(Way(k)[d], k)']
           held == Joined(N, Cells(k))
           left == Joined(N, after)[N]
           valid == tvalid[0] /\ tdata[0].src = k
           word == Last(tdata[0])
           ready == tx_tready
           rest == Row(held[N - 1], Coming(k))
           offered == Row(held[N], Coming(k))
<1>1. N \in Nat /\ N >= 1 /\ N - 1 \in 0 .. N /\ N \in 0 .. N /\ N \in 1 .. N
  BY WayTo
<1>2. /\ Row(held[N], Coming(k)) = Row(Leaving(0, k), left)
      /\ after \in [0 .. N -> Seq(S)]
      /\ Cells(k) \in [0 .. N -> Seq(S)]
      /\ Coming(k) \in Seq(S)
  <2> HIDE DEF after
  <2>1. after = [d \in 0 .. DEPTH |-> Cell(Way(k)[d], k)']
    BY DEF after
  <2> QED
    BY <2>1, WayConveys
<1>3. Contents(k) = held[N] /\ Contents(k)' = left
  <2> HIDE DEF after
  <2>1. after = [d \in 0 .. DEPTH |-> Cell(Way(k)[d], k)']
    BY DEF after
  <2> QED
    BY <2>1, ContentsJoined, ContentsNext
<1>4. Len(left) <= 2 * N
  <2> HIDE DEF after
  <2>1. after = [d \in 0 .. DEPTH |-> Cell(Way(k)[d], k)']
    BY DEF after
  <2> QED
    BY <1>2, <2>1, WayRoom
<1>5. 0 \in Units /\ 0 \in Streams /\ Way(k)[N] = 0
  BY Heap, WayTo
<1>6. TypeOK /\ (tvalid[0] => tdata[0] \in Words)
  BY <1>5, MuxTyped DEF TypeOK
<1>7. word \in S /\ valid \in BOOLEAN /\ ready \in BOOLEAN /\ (valid => word = tdata[0].last)
  <2>1. word \in S
    BY DEF Last
  <2>2. valid => tdata[0] # UNKNOWN
    BY <1>6, MuxAssumption DEF Words, Inputs
  <2>3. valid => word = tdata[0].last
    BY <1>6, <2>2 DEF Last, Words
  <2> QED
    BY <1>6, <2>1, <2>3 DEF TypeOK
<1>8. Cells(k)[N] = One(valid, word)
  <2>1. Cells(k)[N] = Row(SkidOf(0, k), StreamOf(0, k))
    BY <1>1, <1>5 DEF Cells, Cell
  <2>2. SkidOf(0, k) = <<>>
    BY Heap DEF SkidOf, Kept, One
  <2>3. StreamOf(0, k) = One(valid, word)
    BY <1>5, <1>7 DEF StreamOf, One
  <2>4. StreamOf(0, k) \in Seq(BOOLEAN)
    BY <1>5, CellsTyped
  <2> HIDE DEF valid, word
  <2> QED
    BY <2>1, <2>2, <2>3, <2>4, RowEmpty
<1>9. Leaving(0, k) = One(valid /\ ready, word)
  <2>1. (Valid(0) <=> tvalid[0]) /\ Word(0) = tdata[0]
    BY <1>5, NoInputUnit DEF Valid, Word
  <2> QED
    BY <1>7, <2>1 DEF Leaving, Passed, PassedWord, One
<1>10. /\ held[N] \in Seq(S) /\ held[N - 1] \in Seq(S) /\ left \in Seq(S)
       /\ held[N] = Row(Cells(k)[N], held[N - 1])
  <2> HIDE DEF S, after, N
  <2>1. \A m \in 0 .. N : held[m] \in Seq(S) /\ Joined(N, after)[m] \in Seq(S)
    BY <1>1, <1>2, JoinedSeq
  <2>2. held[N] = Row(Cells(k)[N], held[N - 1])
    BY <1>1, Joins
  <2> QED
    BY <1>1, <2>1, <2>2
<1>11. One(valid, word) \in Seq(S)
  <2> HIDE DEF valid, word, S
  <2> QED
    BY <1>7, OneSeq
<1> HIDE DEF S, after, N, held, left, valid, word, ready
<1>12. offered = Row(One(valid, word), rest) /\ rest \in Seq(S) /\ offered \in Seq(S)
  <2>1. offered = Row(Row(One(valid, word), held[N - 1]), Coming(k))
    BY <1>8, <1>10
  <2>2. Row(Row(One(valid, word), held[N - 1]), Coming(k)) = Row(One(valid, word), rest)
    BY <1>2, <1>10, <1>11, RowAssociative
  <2>3. rest \in Seq(S)
    BY <1>2, <1>10, RowSeq
  <2>4. offered \in Seq(S)
    BY <1>2, <1>10, RowSeq
  <2> QED
    BY <2>1, <2>2, <2>3, <2>4
<1>13. offered = Row(One(valid /\ ready, word), left)
  BY <1>2, <1>9
<1> HIDE DEF rest, offered
<1>14. /\ valid => offered # <<>> /\ word = Head(offered)
       /\ left = IF valid /\ ready THEN Tail(offered) ELSE offered
  <2>1. FrontMoves(S, word, valid, ready, rest, left, offered)
    BY <1>7, <1>10, <1>12, <1>13 DEF FrontMoves
  <2> QED
    BY <2>1, FrontDelivers
<1>15. Fifo(k)!Offered = offered
  <2>1. Fifo(k)!Accepted = Coming(k)
    BY DEF Fifo!Accepted, Coming, One
  <2> QED
    BY <1>3, <2>1 DEF Fifo!Offered, offered, Row
<1>16. areset_n /\ areset_n'
  BY DEF Clock
<1>17. valid /\ ~ready => tvalid'[0] /\ tdata'[0] = tdata[0]
  <2>1. ~ready => ~Ready(0)
    BY DEF Ready, ready
  <2> QED
    BY <1>5, <2>1 DEF Clock, ClockUnits, valid
<1>18. valid /\ ~ready => Last(tdata[0])' = Last(tdata[0])
  BY <1>17 DEF Last
<1> QED
  BY <1>3, <1>4, <1>14, <1>15, <1>16, <1>17, <1>18
     DEF Fifo!Transfer, Fifo!Delivered, valid, word, ready, N

\* A tree without words.
LEMMA NothingOnWay ==
    (\A n \in Streams : ~Kept(n)) /\ (\A u \in Units : ~tvalid[u])
        => \A k \in Inputs : Contents(k) = <<>>
<1> SUFFICES ASSUME \A n \in Streams : ~Kept(n), \A u \in Units : ~tvalid[u],
                    NEW k \in Inputs
             PROVE  Contents(k) = <<>>
  OBVIOUS
<1> DEFINE cells == Cells(k)
<1>1. DEPTH \in Nat /\ DEPTH \in 0 .. DEPTH
  BY WayTo
<1>2. Row(<<>>, <<>>) = <<>>
  <2>1. <<>> \in Seq({0})
    OBVIOUS
  <2> QED
    BY <2>1, RowEmpty
<1>3. ASSUME NEW d \in 0 .. DEPTH PROVE cells[d] = <<>>
  <2> DEFINE n == Way(k)[d]
  <2>1. n \in Streams
    BY WayTo
  <2>2. cells[d] = Row(SkidOf(n, k), StreamOf(n, k))
    BY DEF Cells, Cell
  <2> HIDE DEF n
  <2>3. SkidOf(n, k) = <<>> /\ StreamOf(n, k) = <<>>
    BY <2>1 DEF SkidOf, StreamOf, One
  <2> QED
    BY <1>2, <2>2, <2>3
<1> HIDE DEF cells
<1>4. Joined(DEPTH, cells)[DEPTH] = <<>>
  BY <1>1, <1>3, JoinedEmpty
<1> QED
  BY <1>4, ContentsJoined DEF cells

\* After power-up there is nothing in the tree.
LEMMA MuxFifoInit == MCInit => FifoInit /\ WayInv
<1> SUFFICES ASSUME MCInit PROVE FifoInit /\ WayInv
  OBVIOUS
<1>1. \A n \in Streams : ~Kept(n) /\ ~Valid(n)
  BY DEF MCInit, Init, Kept, Valid
<1>2. \A u \in Units : ~tvalid[u]
  BY DEF MCInit, Init
<1>3. \A k \in Inputs : Contents(k) = <<>>
  BY <1>1, <1>2, NothingOnWay
<1>4. ASSUME NEW k \in Inputs PROVE Fifo(k)!Init
  <2>1. ~Ready(MUXED - 1 - k)
    <3>1. MUXED - 1 - k \in Buffers /\ MUXED - 1 - k # 0
      BY WayTo, Heap
    <3> QED
      BY <3>1 DEF MCInit, Init, Ready
  <2>2. ~tvalid[0]
    BY <1>2, Heap
  <2> QED
    BY <1>3, <2>1, <2>2 DEF Fifo!Init, Fifo!Quiet, MCInit, Init
<1>5. Routed
  BY <1>1 DEF Routed
<1> QED
  BY <1>4, <1>5, MuxBegins DEF FifoInit, WayInv

\* A reset empties the tree.
LEMMA MuxFifoReset == Reset => Routed' /\ \A k \in Inputs : Fifo(k)!Reset
<1> SUFFICES ASSUME Reset PROVE Routed' /\ \A k \in Inputs : Fifo(k)!Reset
  OBVIOUS
<1>1. \A n \in Streams : ~Kept(n)' /\ ~Valid(n)'
  BY DEF Reset, Kept, Valid
<1>2. \A u \in Units : ~tvalid'[u]
  BY DEF Reset
<1>3. ((\A n \in Streams : ~Kept(n)) /\ (\A u \in Units : ~tvalid[u])
        => \A k \in Inputs : Contents(k) = <<>>)'
  BY NothingOnWay, PTL
<1>4. \A k \in Inputs : Contents(k)' = <<>>
  BY <1>1, <1>2, <1>3
<1>5. ASSUME NEW k \in Inputs PROVE Fifo(k)!Reset
  <2>1. ~Ready(MUXED - 1 - k)'
    <3>1. MUXED - 1 - k \in Buffers /\ MUXED - 1 - k # 0
      BY WayTo, Heap
    <3> QED
      BY <3>1 DEF Reset, Ready
  <2>2. ~tvalid'[0]
    BY <1>2, Heap
  <2> QED
    BY <1>4, <2>1, <2>2 DEF Fifo!Reset, Fifo!Quiet, Reset
<1>6. Routed'
  BY <1>1 DEF Routed
<1> QED
  BY <1>5, <1>6

\* What leaves the registers alone leaves the words where they are.
LEMMA RoutedUnmoved ==
    Routed /\ UNCHANGED <<rx_tvalid, rx_tlast, tvalid, tdata, buffer_state, buffered>>
        => Routed'
BY DEF Routed, OnItsWay, Kept, Valid, Word

\* The release of the reset moves nothing.
LEMMA MuxFifoRelease == Release => \A k \in Inputs : Fifo(k)!Release
<1> SUFFICES ASSUME Release, NEW k \in Inputs PROVE Fifo(k)!Release
  OBVIOUS
<1>1. Contents(k)' = Contents(k)
  BY DEF Release, Contents, HeldIn
<1>2. Ready(MUXED - 1 - k)' = Ready(MUXED - 1 - k)
  BY DEF Release, Ready
<1> QED
  BY <1>1, <1>2 DEF Release, Fifo!Release

\* Nothing moves when the multiplexer does not.
LEMMA MuxFifoStill == UNCHANGED vars => \A k \in Inputs : UNCHANGED Fifo(k)!vars
<1> SUFFICES ASSUME UNCHANGED vars, NEW k \in Inputs PROVE UNCHANGED Fifo(k)!vars
  OBVIOUS
<1>1. Contents(k)' = Contents(k)
  BY DEF vars, Contents, HeldIn
<1>2. Ready(MUXED - 1 - k)' = Ready(MUXED - 1 - k)
  BY DEF vars, Ready
<1>3. Last(tdata[0])' = Last(tdata[0])
  BY DEF vars, Last
<1> QED
  BY <1>1, <1>2, <1>3 DEF vars, Fifo!vars

\* Every step keeps the words on their ways.
LEMMA WayNext == WayInv /\ [RoutingNext]_<<block, mcVars, demuxVars>> => WayInv'
<1> SUFFICES ASSUME WayInv, [RoutingNext]_<<block, mcVars, demuxVars>>
             PROVE  WayInv'
  OBVIOUS
<1>1. MuxInv'
  BY MuxNext DEF WayInv
<1>2. Routed'
  <2>1. CASE Clock
    BY <2>1, RoutedClock DEF WayInv
  <2>2. CASE Reset
    BY <2>2, MuxFifoReset
  <2>3. CASE Release \/ UNCHANGED mcVars
    BY <2>3, RoutedUnmoved DEF WayInv, Release, mcVars, vars
  <2> QED
    BY <2>1, <2>2, <2>3 DEF RoutingNext, MCNext, Next
<1> QED
  BY <1>1, <1>2 DEF WayInv

\* Every step of the multiplexer is one of the FIFO of each input.
LEMMA MuxFifoStep ==
    WayInv /\ WayInv' /\ (Next \/ UNCHANGED vars) => FifoStep
<1> SUFFICES ASSUME WayInv, WayInv', Next \/ UNCHANGED vars, NEW k \in Inputs
             PROVE  Fifo(k)!Next \/ UNCHANGED Fifo(k)!vars
  BY DEF FifoStep
<1>1. CASE Clock
  BY <1>1, MuxTransfer DEF WayInv, Fifo!Next
<1>2. CASE Reset
  BY <1>2, MuxFifoReset DEF Fifo!Next
<1>3. CASE Release
  BY <1>3, MuxFifoRelease DEF Fifo!Next
<1>4. CASE UNCHANGED vars
  BY <1>4, MuxFifoStill
<1> QED
  BY <1>1, <1>2, <1>3, <1>4 DEF Next

-----------------------------------------------------------------------------
\* The demultiplexer.

\* The stages and the outputs of each.
LEMMA StageNumbers ==
    /\ Demux!DEMUXES \in Nat /\ Demux!DEMUXES >= 1
    /\ Demux!Stages = 0 .. Demux!DEMUXES - 1
    /\ \A k \in Demux!Outputs : Demux!StageOf(k) \in Demux!Stages
    /\ \A j, k \in Demux!Outputs : j < k => Demux!StageOf(j) <= Demux!StageOf(k)
<1> DEFINE G == GROUP
           O == OUTPUTS
           D == Demux!DEMUXES
<1>1. G \in Nat /\ G >= 1 /\ O \in Nat /\ O >= 1
  BY DemuxAssumption DEF Demux!Parameters
<1>2. D = (O + G - 1) \div G
  BY DEF Demux!DEMUXES
<1> HIDE DEF G, O, D
<1>3. D \in Nat /\ O + G - 1 < D * G + G
  <2>1. O + G - 1 \in Nat
    BY <1>1
  <2> QED
    BY <1>1, <1>2, <2>1, DivBounds
<1>4. ASSUME NEW k \in 0 .. O - 1
      PROVE  k \div G \in Nat /\ k \div G < D
  <2> DEFINE q == k \div G
  <2>1. k \in Nat /\ k <= O - 1
    BY <1>1
  <2>2. q \in Nat /\ q * G <= k
    BY <1>1, <2>1, DivBounds
  <2> HIDE DEF q
  <2>3. q * G < D * G
    <3> DEFINE x == q * G
               y == D * G
    <3>1. x \in Nat /\ y \in Nat
      BY <1>1, <1>3, <2>2
    <3> HIDE DEF x, y
    <3>2. x <= k /\ O + G - 1 < y + G
      BY <1>3, <2>2 DEF x, y
    <3>3. x < y
      BY <1>1, <2>1, <3>1, <3>2
    <3> QED
      BY <3>3 DEF x, y
  <2>4. q < D
    BY <1>1, <1>3, <2>2, <2>3, Below
  <2> QED
    BY <2>2, <2>4 DEF q
<1>5. ASSUME NEW j \in 0 .. O - 1, NEW k \in 0 .. O - 1, j < k
      PROVE  j \div G <= k \div G
  <2> DEFINE p == j \div G
             q == k \div G
  <2>1. j \in Nat /\ k \in Nat
    BY <1>1
  <2>2. p \in Nat /\ p * G <= j /\ q \in Nat /\ k < q * G + G
    BY <1>1, <2>1, DivBounds
  <2> HIDE DEF p, q
  <2>3. p * G < (q + 1) * G
    <3> DEFINE x == p * G
               y == q * G
    <3>1. x \in Nat /\ y \in Nat /\ (q + 1) * G = y + G
      BY <1>1, <2>2
    <3> HIDE DEF y
    <3>2. x <= j /\ k < y + G
      BY <2>2 DEF y
    <3> HIDE DEF x
    <3>3. x < y + G
      BY <1>1, <1>5, <2>1, <3>1, <3>2
    <3> QED
      BY <3>1, <3>3 DEF x
  <2>4. p < q + 1
    <3>1. p \in Int /\ q + 1 \in Int
      BY <2>2
    <3> QED
      BY <1>1, <2>3, <3>1, Below
  <2>5. p <= q
    BY <2>2, <2>4
  <2> QED
    BY <2>5 DEF p, q
<1>6. D >= 1
  <2>1. 0 \in 0 .. O - 1
    BY <1>1
  <2>2. 0 \div G \in Nat /\ 0 \div G < D
    BY <1>4, <2>1
  <2> QED
    BY <1>3, <2>2
<1>7. Demux!Outputs = 0 .. O - 1 /\ Demux!Stages = 0 .. D - 1
  BY DEF Demux!Outputs, Demux!Stages, O, D
<1>8. ASSUME NEW k \in Demux!Outputs PROVE Demux!StageOf(k) \in Demux!Stages
  <2>1. Demux!StageOf(k) = k \div G
    BY DEF Demux!StageOf, G
  <2>2. k \div G \in Nat /\ k \div G < D
    BY <1>4, <1>7
  <2> DEFINE q == k \div G
  <2>3. q \in 0 .. D - 1
    <3>1. q \in Nat /\ q < D
      BY <2>2
    <3> HIDE DEF q
    <3> QED
      BY <1>3, <3>1
  <2> QED
    BY <1>7, <2>1, <2>3
<1>9. ASSUME NEW j \in Demux!Outputs, NEW k \in Demux!Outputs, j < k
      PROVE  Demux!StageOf(j) <= Demux!StageOf(k)
  BY <1>5, <1>7, <1>9 DEF Demux!StageOf, G
<1> QED
  BY <1>3, <1>6, <1>7, <1>8, <1>9 DEF D

\* The word is for no output of the stages before stage n.
Beyond(n, word) ==
    \A k \in Demux!Outputs : Demux!StageOf(k) < n => MAP[k] # word.id

\* The outputs of a stage with the identifier of a word.
Chosen(n, word) ==
    {k \in Demux!Outputs : Demux!StageOf(k) = n /\ word.id = MAP[k]}

\* Where a word that has come to a stage belongs.
LEMMA PortHere ==
    ASSUME NEW n \in Demux!Stages, NEW word, Beyond(n, word)
    PROVE  /\ \A k \in Demux!Outputs :
                 k \in Chosen(n, word) <=>
                     Demux!PortOf(word.id) = k /\ Demux!StageOf(k) = n
           /\ Chosen(n, word) = {} => Beyond(n + 1, word)
<1> DEFINE id == word.id
           O == Demux!Outputs
           First1(k) == MAP[k] = id /\ \A j \in 0 .. k - 1 : MAP[j] # id
<1>0. /\ OUTPUTS \in Nat /\ O = 0 .. OUTPUTS - 1 /\ n \in Nat
      /\ \A k \in O : Demux!StageOf(k) \in Nat
  BY StageNumbers, DemuxAssumption DEF Demux!Parameters, Demux!Outputs
<1>1. ASSUME NEW k \in O, k \in Chosen(n, word)
      PROVE  Demux!PortOf(word.id) = k
  <2>1. MAP[k] = id /\ Demux!StageOf(k) = n
    BY <1>1 DEF Chosen
  <2>2. \A j \in O : j < k => MAP[j] # id
    <3> SUFFICES ASSUME NEW j \in O, j < k, MAP[j] = id PROVE FALSE
      OBVIOUS
    <3>1. Demux!StageOf(j) <= n /\ Demux!StageOf(j) \in Nat
      BY <1>0, <2>1, StageNumbers
    <3>2. Demux!StageOf(j) = n
      BY <1>0, <3>1 DEF Beyond
    <3>3. j = k
      BY <1>0, <2>1, <3>2, DemuxAssumption DEF Demux!Parameters, Demux!StageOf
    <3> QED
      BY <1>0, <3>3
  <2>3. First1(k)
    <3>1. \A j \in 0 .. k - 1 : j \in O /\ j < k
      BY <1>0
    <3> QED
      BY <2>1, <2>2, <3>1
  <2>4. \A m \in O : First1(m) => m = k
    <3> SUFFICES ASSUME NEW m \in O, First1(m), m # k PROVE FALSE
      OBVIOUS
    <3>1. m < k \/ k \in 0 .. m - 1
      BY <1>0
    <3> QED
      BY <2>1, <2>2, <3>1
  <2>5. Demux!PortOf(id) = CHOOSE m \in O : First1(m)
    <3>1. \E m \in Demux!Outputs : MAP[m] = id
      BY <2>1
    <3> QED
      BY <3>1 DEF Demux!PortOf
  <2> HIDE DEF First1, O
  <2>6. (CHOOSE m \in O : First1(m)) = k
    BY <2>3, <2>4
  <2> QED
    BY <2>5, <2>6
<1>2. ASSUME NEW k \in O, Demux!PortOf(word.id) = k, Demux!StageOf(k) = n
      PROVE  k \in Chosen(n, word)
  <2>1. k # OUTPUTS
    BY <1>0
  <2>2. \E m \in O : MAP[m] = id
    BY <1>2, <2>1 DEF Demux!PortOf
  <2>3. k = CHOOSE m \in O : First1(m)
    BY <1>2, <2>2 DEF Demux!PortOf
  <2>4. \E m \in O : First1(m)
    <3> DEFINE T == {m \in Nat : m \in O /\ MAP[m] = id}
    <3>1. T \in SUBSET Nat /\ T # {}
      BY <1>0, <2>2
    <3>2. PICK m \in T : \A j \in T : m <= j
      BY <3>1, Smallest
    <3>3. m \in O /\ MAP[m] = id /\ m \in Nat
      OBVIOUS
    <3>4. \A j \in 0 .. m - 1 : j \in O /\ j \in Nat /\ ~(m <= j)
      BY <1>0, <3>3
    <3>5. \A j \in 0 .. m - 1 : MAP[j] # id
      BY <3>2, <3>4
    <3> QED
      BY <3>3, <3>5
  <2> HIDE DEF First1
  <2>5. First1(k)
    BY <2>3, <2>4
  <2> USE DEF First1
  <2> QED
    BY <1>2, <2>5 DEF Chosen
<1>3. ASSUME Chosen(n, word) = {} PROVE Beyond(n + 1, word)
  <2> SUFFICES ASSUME NEW k \in Demux!Outputs, Demux!StageOf(k) < n + 1
               PROVE  MAP[k] # word.id
    BY DEF Beyond
  <2>1. Demux!StageOf(k) < n \/ Demux!StageOf(k) = n
    BY <1>0
  <2> QED
    BY <1>3, <2>1 DEF Beyond, Chosen
<1>4. \A k \in Demux!Outputs : k \in Chosen(n, word) <=>
          Demux!PortOf(word.id) = k /\ Demux!StageOf(k) = n
  BY <1>1, <1>2 DEF Chosen
<1> QED
  BY <1>3, <1>4

\* A word that is for no output of any stage.
LEMMA PortBeyond ==
    ASSUME NEW word, Beyond(Demux!DEMUXES, word)
    PROVE  Demux!PortOf(word.id) = OUTPUTS
<1>1. \A k \in Demux!Outputs : Demux!StageOf(k) < Demux!DEMUXES
  BY StageNumbers
<1>2. ~\E k \in Demux!Outputs : MAP[k] = word.id
  BY <1>1 DEF Beyond
<1> QED
  BY <1>2 DEF Demux!PortOf

\* A word that is for an output, or for none, on its way there.
LEMMA PortElsewhere ==
    ASSUME NEW n \in Demux!Stages, NEW word, Beyond(n, word),
           Demux!PortOf(word.id) \notin Demux!Outputs \/ Demux!StageOf(Demux!PortOf(word.id)) # n
    PROVE  Chosen(n, word) = {}
<1>1. \A k \in Chosen(n, word) : k \in Demux!Outputs
  BY DEF Chosen
<1> QED
  BY <1>1, PortHere

\* The skid buffer of a stage keeps a word.
Waits(n) == demux_buffer_state[n] = "BUFFERED"

(***************************************************************************)
(* The inductive invariant: a skid buffer that keeps a word takes no       *)
(* other; a word that has come to a stage is for no output before it; a    *)
(* word on an output is for this output.                                   *)
(***************************************************************************)
DemuxInv ==
    /\ Demux!TypeOK
    /\ \A n \in Demux!Stages :
          Waits(n) => /\ ~demux_buffer_tready[n]
                      /\ demux_buffered[n] \in WORDS /\ Beyond(n, demux_buffered[n])
    /\ \A n \in 0 .. Demux!DEMUXES :
          Demux!Valid(n) => Demux!Word(n) \in WORDS /\ Beyond(n, Demux!Word(n))
    /\ \A k \in Demux!Outputs :
          tx_tvalid[k] => tx_tdata[k] \in WORDS /\ Demux!PortOf(tx_tdata[k].id) = k

\* What a stage offers to its unit.
LEMMA StageOffers ==
    ASSUME DemuxInv, NEW n \in Demux!Stages
    PROVE  /\ Demux!select(n) = Chosen(n, Demux!BufferedWord(n))
           /\ Demux!BufferedValid(n) <=> Waits(n) \/ (Demux!Valid(n) /\ demux_buffer_tready[n])
           /\ Demux!BufferedWord(n) = IF Waits(n) THEN demux_buffered[n] ELSE Demux!Word(n)
           /\ Demux!BufferedValid(n) =>
                 Demux!BufferedWord(n) \in WORDS /\ Beyond(n, Demux!BufferedWord(n))
<1>1. Demux!select(n) = Chosen(n, Demux!BufferedWord(n))
  BY DEF Demux!select, Demux!OutputsOf, Demux!StageOf, Chosen
<1>2. Demux!BufferedValid(n) <=> Waits(n) \/ (Demux!Valid(n) /\ demux_buffer_tready[n])
  BY DEF Demux!BufferedValid, Waits
<1>3. demux_buffer_state[n] \in {"IDLE", "BUFFERED"}
  BY DEF DemuxInv, Demux!TypeOK
<1>4. Demux!BufferedWord(n) = IF Waits(n) THEN demux_buffered[n] ELSE Demux!Word(n)
  BY <1>3 DEF Demux!BufferedWord, Waits
<1>5. n \in 0 .. Demux!DEMUXES
  BY StageNumbers
<1> QED
  BY <1>1, <1>2, <1>4, <1>5 DEF DemuxInv

\* The state after power-up.
LEMMA DemuxBegins == Demux!Init => DemuxInv
<1> SUFFICES ASSUME Demux!Init PROVE DemuxInv
  OBVIOUS
<1>1. Demux!TypeOK
  BY DEF Demux!Init, Demux!TypeOK
<1>2. \A n \in Demux!Stages : ~Waits(n)
  BY DEF Demux!Init, Waits
<1>3. ASSUME NEW n \in 0 .. Demux!DEMUXES PROVE ~Demux!Valid(n)
  <2>1. n = 0 \/ n - 1 \in Demux!Stages
    BY StageNumbers
  <2> QED
    BY <2>1 DEF Demux!Init, Demux!Valid
<1>4. \A k \in Demux!Outputs : ~tx_tvalid[k]
  BY DEF Demux!Init
<1> QED
  BY <1>1, <1>2, <1>3, <1>4 DEF DemuxInv

\* A clock keeps the types.
LEMMA DemuxTypeClock == DemuxInv /\ Demux!Clock => Demux!TypeOK'
<1> SUFFICES ASSUME DemuxInv, Demux!Clock PROVE Demux!TypeOK'
  OBVIOUS
<1> DEFINE W == WORDS \cup {UNKNOWN}
<1>1. Demux!TypeOK
  BY DEF DemuxInv
<1>2. /\ demux_rx_tvalid' \in BOOLEAN /\ rx_tdata' \in W
      /\ demux_areset_n' \in BOOLEAN /\ drop_tready' \in BOOLEAN
      /\ demux_tx_tready' \in [Demux!TxPorts -> BOOLEAN]
  BY <1>1 DEF Demux!TypeOK, Demux!Clock, Demux!RxDrive
<1>3. ASSUME NEW n \in Demux!Stages
      PROVE  Demux!Word(n) \in W /\ Demux!BufferedWord(n) \in W
             /\ Demux!BufferedValid(n) \in BOOLEAN
  <2>1. n = 0 \/ n - 1 \in Demux!Stages
    BY StageNumbers
  <2>2. Demux!Word(n) \in W
    BY <1>1, <2>1 DEF Demux!TypeOK, Demux!Word
  <2>3. Demux!BufferedWord(n) \in W
    BY <1>1, <2>2 DEF Demux!TypeOK, Demux!BufferedWord
  <2>4. Demux!BufferedValid(n) \in BOOLEAN
    BY DEF Demux!BufferedValid
  <2> QED
    BY <2>2, <2>3, <2>4
<1> HIDE DEF W
<1>4. demux_buffer_state' \in [Demux!Stages -> {"IDLE", "BUFFERED"}]
  <2>1. \A n \in Demux!Stages : demux_buffer_state[n] \in {"IDLE", "BUFFERED"}
    BY <1>1 DEF Demux!TypeOK
  <2> QED
    BY <2>1 DEF Demux!Clock, Demux!ClockBuffers
<1>5. demux_buffer_tready' \in [Demux!Stages -> BOOLEAN]
  BY DEF Demux!Clock, Demux!ClockBuffers, Demux!BufferedReady
<1>6. demux_buffered' \in [Demux!Stages -> W]
  BY <1>1, <1>3 DEF Demux!TypeOK, Demux!Clock, Demux!ClockBuffers, W
<1>7. next_tvalid' \in [Demux!Stages -> BOOLEAN] /\ next_tdata' \in [Demux!Stages -> W]
  BY <1>1, <1>3 DEF Demux!TypeOK, Demux!Clock, Demux!ClockUnits, W
<1>8. tx_tvalid' \in [Demux!Outputs -> BOOLEAN] /\ tx_tdata' \in [Demux!Outputs -> W]
  BY <1>1, <1>3, StageNumbers DEF Demux!TypeOK, Demux!Clock, Demux!ClockUnits, W
<1> QED
  BY <1>2, <1>4, <1>5, <1>6, <1>7, <1>8 DEF Demux!TypeOK, W

\* A clock: every word comes to the stage of its output.
LEMMA DemuxClock == DemuxInv /\ Demux!Clock => DemuxInv'
<1> SUFFICES ASSUME DemuxInv, Demux!Clock PROVE DemuxInv'
  OBVIOUS
<1>1. ASSUME NEW n \in Demux!Stages, Waits(n)'
      PROVE  /\ ~demux_buffer_tready'[n]
             /\ demux_buffered'[n] \in WORDS /\ Beyond(n, demux_buffered'[n])
  <2>1. /\ demux_buffer_state'[n] =
             CASE demux_buffer_state[n] = "IDLE" /\ Demux!BufferedValid(n)
                                    /\ ~Demux!BufferedReady(n) -> "BUFFERED"
               [] demux_buffer_state[n] = "BUFFERED" /\ Demux!BufferedReady(n) -> "IDLE"
               [] OTHER -> demux_buffer_state[n]
        /\ demux_buffer_tready'[n] = Demux!BufferedReady(n)
        /\ demux_buffered'[n] = IF demux_buffer_tready[n] THEN Demux!Word(n)
                                                          ELSE demux_buffered[n]
    BY DEF Demux!Clock, Demux!ClockBuffers
  <2>2. demux_buffer_state'[n] = "BUFFERED"
    BY <1>1 DEF Waits
  <2>3. ~Demux!BufferedReady(n)
    BY <2>1, <2>2, StageOffers DEF Waits, Demux!BufferedReady
  <2>4. n \in 0 .. Demux!DEMUXES
    BY StageNumbers
  <2>5. CASE Waits(n)
    BY <2>1, <2>3, <2>5 DEF DemuxInv
  <2>6. CASE ~Waits(n)
    <3>1. Demux!Valid(n) /\ demux_buffer_tready[n]
      BY <2>1, <2>2, <2>6, StageOffers DEF Waits
    <3> QED
      BY <2>1, <2>3, <2>4, <3>1 DEF DemuxInv
  <2> QED
    BY <2>5, <2>6
<1>2. ASSUME NEW n \in 0 .. Demux!DEMUXES, Demux!Valid(n)'
      PROVE  Demux!Word(n)' \in WORDS /\ Beyond(n, Demux!Word(n)')
  <2>1. CASE n = 0
    <3>1. demux_rx_tvalid'
      BY <1>2, <2>1 DEF Demux!Valid
    <3>2. rx_tdata' \in WORDS
      <4>1. Demux!Valid(0) => Demux!Word(0) \in WORDS
        BY <2>1 DEF DemuxInv
      <4>2. demux_rx_tvalid => rx_tdata \in WORDS
        BY <4>1 DEF Demux!Valid, Demux!Word
      <4> QED
        BY <3>1, <4>2 DEF Demux!Clock, Demux!RxDrive
    <3>3. Beyond(0, rx_tdata')
      <4>1. \A k \in Demux!Outputs : ~(Demux!StageOf(k) < 0)
        BY StageNumbers
      <4> QED
        BY <4>1 DEF Beyond
    <3> QED
      BY <2>1, <3>2, <3>3 DEF Demux!Word
  <2>2. CASE n # 0
    <3> DEFINE m == n - 1
    <3>1. m \in Demux!Stages /\ n = m + 1
      BY <2>2, StageNumbers
    <3>2. /\ Demux!Valid(n) = next_tvalid[m] /\ Demux!Word(n) = next_tdata[m]
          /\ Demux!Valid(n)' = next_tvalid'[m] /\ Demux!Word(n)' = next_tdata'[m]
      BY <2>2 DEF Demux!Valid, Demux!Word
    <3> HIDE DEF m
    <3>3. /\ next_tvalid'[m] = IF Demux!Ready(m + 1)
                               THEN Demux!BufferedValid(m) /\ Demux!select(m) = {}
                               ELSE next_tvalid[m]
          /\ next_tdata'[m] = IF Demux!Ready(m + 1) THEN Demux!BufferedWord(m)
                                                    ELSE next_tdata[m]
      BY <3>1 DEF Demux!Clock, Demux!ClockUnits
    <3>4. CASE Demux!Ready(m + 1)
      <4>1. Demux!BufferedValid(m) /\ Demux!select(m) = {} /\ next_tdata'[m] = Demux!BufferedWord(m)
        BY <1>2, <3>2, <3>3, <3>4
      <4>2. Demux!BufferedWord(m) \in WORDS /\ Beyond(m, Demux!BufferedWord(m))
            /\ Chosen(m, Demux!BufferedWord(m)) = {}
        BY <3>1, <4>1, StageOffers
      <4>3. Beyond(m + 1, Demux!BufferedWord(m))
        BY <3>1, <4>2, PortHere
      <4> QED
        BY <3>1, <3>2, <4>1, <4>2, <4>3
    <3>5. CASE ~Demux!Ready(m + 1)
      BY <1>2, <3>2, <3>3, <3>5 DEF DemuxInv
    <3> QED
      BY <3>4, <3>5
  <2> QED
    BY <2>1, <2>2
<1>3. ASSUME NEW k \in Demux!Outputs, tx_tvalid'[k]
      PROVE  tx_tdata'[k] \in WORDS /\ Demux!PortOf(tx_tdata'[k].id) = k
  <2> DEFINE n == Demux!StageOf(k)
  <2>1. n \in Demux!Stages
    BY StageNumbers
  <2>2. /\ tx_tvalid'[k] = IF demux_tx_tready[k]
                           THEN Demux!BufferedValid(n) /\ k \in Demux!select(n)
                           ELSE tx_tvalid[k]
        /\ tx_tdata'[k] = IF demux_tx_tready[k] THEN Demux!BufferedWord(n) ELSE tx_tdata[k]
    BY DEF Demux!Clock, Demux!ClockUnits
  <2> HIDE DEF n
  <2>3. CASE demux_tx_tready[k]
    <3>1. Demux!BufferedValid(n) /\ k \in Demux!select(n) /\ tx_tdata'[k] = Demux!BufferedWord(n)
      BY <1>3, <2>2, <2>3
    <3>2. Demux!BufferedWord(n) \in WORDS /\ Beyond(n, Demux!BufferedWord(n))
          /\ k \in Chosen(n, Demux!BufferedWord(n))
      BY <2>1, <3>1, StageOffers
    <3> QED
      BY <2>1, <3>1, <3>2, PortHere
  <2>4. CASE ~demux_tx_tready[k]
    BY <1>3, <2>2, <2>4 DEF DemuxInv
  <2> QED
    BY <2>3, <2>4
<1>4. Demux!TypeOK'
  BY DemuxTypeClock
<1> HIDE DEF DemuxInv
<1>5. \A n \in 0 .. Demux!DEMUXES :
          Demux!Valid(n)' => Demux!Word(n)' \in WORDS /\ Beyond(n, Demux!Word(n)')
  BY <1>2
<1> QED
  BY <1>1, <1>3, <1>4, <1>5 DEF DemuxInv, Beyond

\* A reset empties the stages.
LEMMA DemuxReset == DemuxInv /\ Demux!Reset => DemuxInv'
<1> SUFFICES ASSUME DemuxInv, Demux!Reset PROVE DemuxInv'
  OBVIOUS
<1>1. Demux!TypeOK'
  BY DEF DemuxInv, Demux!Reset, Demux!TypeOK, Demux!dataRegisters
<1>2. \A n \in Demux!Stages : ~Waits(n)'
  BY DEF Demux!Reset, Waits
<1>3. ASSUME NEW n \in 0 .. Demux!DEMUXES PROVE ~Demux!Valid(n)'
  <2>1. n = 0 \/ n - 1 \in Demux!Stages
    BY StageNumbers
  <2> QED
    BY <2>1 DEF Demux!Reset, Demux!Valid
<1>4. \A k \in Demux!Outputs : ~tx_tvalid'[k]
  BY DEF Demux!Reset
<1> QED
  BY <1>1, <1>2, <1>3, <1>4 DEF DemuxInv

\* What leaves the registers alone.
LEMMA DemuxStill ==
    DemuxInv /\ (Demux!Release \/ UNCHANGED Demux!vars) => DemuxInv'
<1> SUFFICES ASSUME DemuxInv, Demux!Release \/ UNCHANGED Demux!vars PROVE DemuxInv'
  OBVIOUS
<1>1. /\ UNCHANGED <<demux_rx_tvalid, rx_tdata, demux_tx_tready, demux_buffer_state,
                     demux_buffer_tready, demux_buffered, next_tvalid, next_tdata,
                     tx_tvalid, tx_tdata, drop_tready>>
      /\ demux_areset_n' = demux_areset_n \/ demux_areset_n' = TRUE
  BY DEF Demux!Release, Demux!vars, Demux!registers, Demux!dataRegisters
<1>2. Demux!TypeOK'
  BY <1>1 DEF DemuxInv, Demux!TypeOK
<1>3. \A n : /\ Waits(n)' = Waits(n)
             /\ Demux!Valid(n)' = Demux!Valid(n) /\ Demux!Word(n)' = Demux!Word(n)
  BY <1>1 DEF Waits, Demux!Valid, Demux!Word
<1> QED
  BY <1>1, <1>2, <1>3 DEF DemuxInv, Beyond

\* Every step.
LEMMA DemuxNext == DemuxInv /\ [RoutingNext]_<<block, mcVars, demuxVars>> => DemuxInv'
<1>1. UNCHANGED demuxVars => UNCHANGED Demux!vars
  BY DEF demuxVars, Demux!vars, Demux!registers, Demux!dataRegisters
<1> QED
  BY <1>1, DemuxClock, DemuxReset, DemuxStill DEF RoutingNext, Demux!Next

-----------------------------------------------------------------------------
\* The words for one port, and the places they pass.

Ports == Demux!Outputs \cup {OUTPUTS}

\* The stage in front of the port.
StageFor(port) ==
    IF port = OUTPUTS THEN Demux!DEMUXES - 1 ELSE Demux!StageOf(port)

PortValid(port) ==
    IF port = OUTPUTS THEN next_tvalid[Demux!DEMUXES - 1] ELSE tx_tvalid[port]

PortWord(port) ==
    IF port = OUTPUTS THEN next_tdata[Demux!DEMUXES - 1] ELSE tx_tdata[port]

PortReady(port) ==
    IF port = OUTPUTS THEN Demux!Ready(Demux!DEMUXES) ELSE demux_tx_tready[port]

For(port, word) == Demux!PortOf(word.id) = port

\* A unit takes a word from its skid buffer.
Leaves(n) == Demux!BufferedValid(n) /\ Demux!BufferedReady(n)

StageSkid(n, port) ==
    One(Waits(n) /\ For(port, demux_buffered[n]), demux_buffered[n])

StageIn(n, port) ==
    One(n # 0 /\ Demux!Valid(n) /\ For(port, Demux!Word(n)), Demux!Word(n))

Entering(n, port) ==
    One(Demux!Valid(n) /\ demux_buffer_tready[n] /\ For(port, Demux!Word(n)),
        Demux!Word(n))

StageOut(n, port) ==
    One(Leaves(n) /\ For(port, Demux!BufferedWord(n)), Demux!BufferedWord(n))

OnPort(port) ==
    One(PortValid(port) /\ For(port, PortWord(port)), PortWord(port))

PortOut(port) ==
    One(PortValid(port) /\ For(port, PortWord(port)) /\ PortReady(port), PortWord(port))

\* Where the words for a port come to its stage, and the types.
LEMMA PortFacts ==
    ASSUME NEW port \in Ports
    PROVE  /\ StageFor(port) \in Demux!Stages
           /\ StageFor(port) \in Nat /\ StageFor(port) + 1 <= Demux!DEMUXES
           /\ port \in Demux!Outputs => port # OUTPUTS
           /\ port = OUTPUTS => port \notin Demux!Outputs
<1>1. OUTPUTS \in Nat /\ OUTPUTS \notin Demux!Outputs
  BY DemuxAssumption DEF Demux!Parameters, Demux!Outputs
<1>2. StageFor(port) \in Demux!Stages
  BY <1>1, StageNumbers DEF Ports, StageFor
<1> QED
  BY <1>1, <1>2, StageNumbers

\* A skid buffer keeps what it took and did not pass on.
LEMMA StageSkidConveys ==
    ASSUME DemuxInv, Demux!Clock, NEW n \in Demux!Stages, NEW port
    PROVE  Row(StageSkid(n, port), Entering(n, port))
               = Row(StageOut(n, port), StageSkid(n, port)')
<1>1. /\ demux_buffer_state'[n] =
           CASE demux_buffer_state[n] = "IDLE" /\ Demux!BufferedValid(n)
                                  /\ ~Demux!BufferedReady(n) -> "BUFFERED"
             [] demux_buffer_state[n] = "BUFFERED" /\ Demux!BufferedReady(n) -> "IDLE"
             [] OTHER -> demux_buffer_state[n]
      /\ demux_buffered'[n] = IF demux_buffer_tready[n] THEN Demux!Word(n)
                                                        ELSE demux_buffered[n]
      /\ demux_buffer_state[n] \in {"IDLE", "BUFFERED"}
  BY DEF DemuxInv, Demux!TypeOK, Demux!Clock, Demux!ClockBuffers
<1>2. Waits(n) => ~demux_buffer_tready[n]
  BY DEF DemuxInv
<1>3. /\ Demux!BufferedValid(n) <=> Waits(n) \/ (Demux!Valid(n) /\ demux_buffer_tready[n])
      /\ Demux!BufferedWord(n) = IF Waits(n) THEN demux_buffered[n] ELSE Demux!Word(n)
  BY StageOffers
<1>4. Leaves(n) <=> Demux!BufferedValid(n) /\ Demux!BufferedReady(n)
  BY DEF Leaves
<1>5. Waits(n)' <=> demux_buffer_state'[n] = "BUFFERED"
  BY DEF Waits
<1>6. Waits(n)' <=> (Waits(n) \/ (Demux!Valid(n) /\ demux_buffer_tready[n])) /\ ~Leaves(n)
  BY <1>1, <1>2, <1>3, <1>4, <1>5 DEF Waits
<1> DEFINE kept == Waits(n)
           ready == demux_buffer_tready[n]
           valid == Demux!Valid(n)
           taken == Leaves(n)
           kept2 == Waits(n)'
           b == demux_buffered[n]
           mb == For(port, demux_buffered[n])
           w == Demux!Word(n)
           mw == For(port, Demux!Word(n))
           b2 == demux_buffered'[n]
           mb2 == For(port, demux_buffered'[n])
           t == Demux!BufferedWord(n)
           mt == For(port, Demux!BufferedWord(n))
<1>7. {kept, ready, valid, taken, kept2, mb, mw, mb2, mt} \subseteq BOOLEAN
  <2>1. kept \in BOOLEAN /\ kept2 \in BOOLEAN /\ taken \in BOOLEAN
    BY DEF Waits, Leaves
  <2>2. ready \in BOOLEAN
    BY DEF DemuxInv, Demux!TypeOK
  <2>3. valid \in BOOLEAN
    <3>1. n = 0 \/ n - 1 \in Demux!Stages
      BY StageNumbers
    <3> QED
      BY <3>1 DEF DemuxInv, Demux!TypeOK, Demux!Valid
  <2>4. mb \in BOOLEAN /\ mw \in BOOLEAN /\ mb2 \in BOOLEAN /\ mt \in BOOLEAN
    BY DEF For
  <2> HIDE DEF kept, ready, valid, taken, kept2, mb, mw, mb2, mt
  <2> QED
    BY <2>1, <2>2, <2>3, <2>4
<1>8. /\ b2 = (IF ready THEN w ELSE b) /\ mb2 = (IF ready THEN mw ELSE mb)
      /\ t = (IF kept THEN b ELSE w) /\ mt = (IF kept THEN mb ELSE mw)
  BY <1>1, <1>3
<1>9. /\ kept => ~ready
      /\ taken => kept \/ (valid /\ ready)
      /\ kept2 <=> (kept \/ (valid /\ ready)) /\ ~taken
  BY <1>2, <1>3, <1>4, <1>6
<1>10. /\ StageSkid(n, port) = One(kept /\ mb, b)
       /\ Entering(n, port) = One(valid /\ ready /\ mw, w)
       /\ StageOut(n, port) = One(taken /\ mt, t)
       /\ StageSkid(n, port)' = One(kept2 /\ mb2, b2)
  BY DEF StageSkid, Entering, StageOut, One, For
<1> HIDE DEF kept, ready, valid, taken, kept2, b, mb, w, mw, b2, mb2, t, mt
<1>11. SkidMoves(kept, ready, valid, taken, kept2, b, mb, w, mw, b2, mb2, t, mt)
  BY <1>7, <1>8, <1>9 DEF SkidMoves
<1>12. Row(One(kept /\ mb, b), One(valid /\ ready /\ mw, w))
         = Row(One(taken /\ mt, t), One(kept2 /\ mb2, b2))
  BY <1>11, SkidConveys
<1> QED
  BY <1>10, <1>12

\* A register in front of the port's stage takes all the words for the port.
LEMMA StageInConveys ==
    ASSUME DemuxInv, Demux!Clock, NEW port \in Ports,
           NEW m \in Demux!Stages, m + 1 <= StageFor(port)
    PROVE  Row(StageIn(m + 1, port), StageOut(m, port))
               = Row(Entering(m + 1, port), StageIn(m + 1, port)')
<1> DEFINE n == m + 1
<1>1. n \in Demux!Stages /\ n # 0 /\ n - 1 = m /\ m \in Nat
  BY PortFacts, StageNumbers
<1>2. /\ Demux!Valid(n) = next_tvalid[m] /\ Demux!Word(n) = next_tdata[m]
      /\ Demux!Valid(n)' = next_tvalid'[m] /\ Demux!Word(n)' = next_tdata'[m]
      /\ Demux!Ready(n) = demux_buffer_tready[n]
  <2>1. n # Demux!DEMUXES
    BY <1>1, StageNumbers
  <2> HIDE DEF n
  <2>2. Demux!Ready(n) = demux_buffer_tready[n]
    BY <1>1, <2>1 DEF Demux!Ready
  <2> QED
    BY <1>1, <2>2 DEF Demux!Valid, Demux!Word
<1>3. /\ next_tvalid'[m] = IF Demux!Ready(n) THEN Demux!BufferedValid(m) /\ Demux!select(m) = {}
                                             ELSE next_tvalid[m]
      /\ next_tdata'[m] = IF Demux!Ready(n) THEN Demux!BufferedWord(m) ELSE next_tdata[m]
  BY DEF Demux!Clock, Demux!ClockUnits
<1>4. Demux!BufferedValid(m) /\ For(port, Demux!BufferedWord(m)) => Demux!select(m) = {}
  <2> SUFFICES ASSUME Demux!BufferedValid(m), For(port, Demux!BufferedWord(m))
               PROVE  Demux!select(m) = {}
    OBVIOUS
  <2> DEFINE word == Demux!BufferedWord(m)
  <2>1. Beyond(m, word) /\ Demux!select(m) = Chosen(m, word)
    BY StageOffers
  <2>2. Demux!PortOf(word.id) = port
    BY DEF For
  <2>3. port \notin Demux!Outputs \/ Demux!StageOf(port) # m
    BY <1>1, PortFacts DEF StageFor
  <2> HIDE DEF word
  <2>4. Chosen(m, word) = {}
    BY <2>1, <2>2, <2>3, PortElsewhere
  <2> QED
    BY <2>1, <2>4
<1>5. For(port, Demux!BufferedWord(m)) =>
         (Leaves(m) <=> Demux!BufferedValid(m) /\ Demux!Ready(n))
  BY <1>4 DEF Leaves, Demux!BufferedReady
<1> DEFINE valid == next_tvalid[m] /\ For(port, next_tdata[m])
           ready == demux_buffer_tready[n]
           loads == Leaves(m) /\ For(port, Demux!BufferedWord(m))
           valid2 == next_tvalid'[m] /\ For(port, next_tdata'[m])
           w == next_tdata[m]
           i == Demux!BufferedWord(m)
           w2 == next_tdata'[m]
<1>6. valid \in BOOLEAN /\ ready \in BOOLEAN /\ loads \in BOOLEAN /\ valid2 \in BOOLEAN
  <2>1. ready \in BOOLEAN
    BY <1>1 DEF DemuxInv, Demux!TypeOK
  <2> QED
    BY <2>1
<1>7. loads => ready
  BY <1>2, <1>5
<1>8. valid2 = IF ready THEN loads ELSE valid
  <2>1. CASE ready
    BY <1>2, <1>3, <1>4, <1>5, <2>1
  <2>2. CASE ~ready
    BY <1>2, <1>3, <2>2
  <2> QED
    BY <2>1, <2>2
<1>9. w2 = IF ready THEN i ELSE w
  BY <1>2, <1>3
<1>10. /\ StageIn(n, port) = One(valid, w)
       /\ StageOut(m, port) = One(loads, i)
       /\ Entering(n, port) = One(valid /\ ready, w)
       /\ StageIn(n, port)' = One(valid2, w2)
  BY <1>1, <1>2 DEF StageIn, StageOut, Entering, One, For
<1> HIDE DEF valid, ready, loads, valid2, w, i, w2, n
<1>11. Row(One(valid, w), One(loads, i)) = Row(One(valid /\ ready, w), One(valid2, w2))
  BY <1>6, <1>7, <1>8, <1>9, RegisterConveys
<1> QED
  BY <1>10, <1>11 DEF n

\* The register of the port.
LEMMA PortConveys ==
    ASSUME DemuxInv, Demux!Clock, NEW port \in Ports
    PROVE  Row(OnPort(port), StageOut(StageFor(port), port))
               = Row(PortOut(port), OnPort(port)')
<1> DEFINE s == StageFor(port)
           valid == PortValid(port) /\ For(port, PortWord(port))
           ready == PortReady(port)
           loads == Leaves(s) /\ For(port, Demux!BufferedWord(s))
           valid2 == PortValid(port)' /\ For(port, PortWord(port)')
           w == PortWord(port)
           i == Demux!BufferedWord(s)
           w2 == PortWord(port)'
<1>1. s \in Demux!Stages
  BY PortFacts
<1>2. /\ Demux!select(s) = Chosen(s, i)
      /\ Demux!BufferedValid(s) => Beyond(s, i)
  BY <1>1, StageOffers
<1>3. ready \in BOOLEAN
  <2>1. CASE port = OUTPUTS
    <3>1. Demux!DEMUXES \notin Demux!Stages
      BY StageNumbers
    <3>2. EXTRACT \in BOOLEAN
      BY DemuxAssumption DEF Demux!Parameters
    <3>3. demux_tx_tready \in [Demux!TxPorts -> BOOLEAN] /\ drop_tready \in BOOLEAN
      BY DEF DemuxInv, Demux!TypeOK
    <3>4. EXTRACT => OUTPUTS \in Demux!TxPorts
      BY DEF Demux!TxPorts
    <3>5. Demux!Ready(Demux!DEMUXES) = IF EXTRACT THEN demux_tx_tready[OUTPUTS] ELSE drop_tready
      BY <3>1, <3>2 DEF Demux!Ready
    <3> QED
      BY <2>1, <3>2, <3>3, <3>4, <3>5 DEF PortReady
  <2>2. CASE port # OUTPUTS
    <3>1. port \in Demux!TxPorts
      BY <2>2 DEF Ports, Demux!TxPorts
    <3> QED
      BY <2>2, <3>1 DEF PortReady, DemuxInv, Demux!TypeOK
  <2> QED
    BY <2>1, <2>2
<1>4. /\ PortValid(port)' <=> IF ready
                              THEN Demux!BufferedValid(s) /\ For(port, i)
                              ELSE PortValid(port)
      /\ PortWord(port)' = IF ready THEN i ELSE PortWord(port)
      /\ Demux!BufferedValid(s) /\ For(port, i) => (Demux!BufferedReady(s) <=> ready)
  <2>1. CASE port = OUTPUTS
    <3>1. s = Demux!DEMUXES - 1 /\ s + 1 = Demux!DEMUXES
      BY <2>1, StageNumbers DEF StageFor
    <3>2. /\ next_tvalid'[s] = IF Demux!Ready(s + 1)
                               THEN Demux!BufferedValid(s) /\ Demux!select(s) = {}
                               ELSE next_tvalid[s]
          /\ next_tdata'[s] = IF Demux!Ready(s + 1) THEN Demux!BufferedWord(s)
                                                    ELSE next_tdata[s]
      BY <1>1 DEF Demux!Clock, Demux!ClockUnits
    <3>3. /\ PortValid(port) = next_tvalid[s] /\ PortValid(port)' = next_tvalid'[s]
          /\ PortWord(port) = next_tdata[s] /\ PortWord(port)' = next_tdata'[s]
          /\ ready = Demux!Ready(s + 1)
      BY <2>1, <3>1 DEF PortValid, PortWord, PortReady
    <3>4. Demux!BufferedValid(s) => (For(port, i) <=> Demux!select(s) = {})
      <4> SUFFICES ASSUME Demux!BufferedValid(s) PROVE For(port, i) <=> Demux!select(s) = {}
        OBVIOUS
      <4>1. Beyond(s, i)
        BY <1>2
      <4>2. ASSUME For(port, i) PROVE Chosen(s, i) = {}
        <5>1. Demux!PortOf(i.id) \notin Demux!Outputs
          BY <2>1, <4>2, PortFacts DEF For
        <5> HIDE DEF i, s
        <5> QED
          BY <1>1, <4>1, <5>1, PortElsewhere
      <4>3. ASSUME Chosen(s, i) = {} PROVE For(port, i)
        <5> HIDE DEF i, s
        <5>1. Beyond(s + 1, i)
          BY <1>1, <4>1, <4>3, PortHere
        <5>2. Demux!PortOf(i.id) = OUTPUTS
          BY <3>1, <5>1, PortBeyond
        <5> QED
          BY <2>1, <5>2 DEF For
      <4> QED
        BY <1>2, <4>2, <4>3
    <3>5. Demux!BufferedValid(s) /\ For(port, i) => (Demux!BufferedReady(s) <=> ready)
      BY <3>3, <3>4 DEF Demux!BufferedReady
    <3> QED
      BY <3>2, <3>3, <3>4, <3>5
  <2>2. CASE port # OUTPUTS
    <3>1. port \in Demux!Outputs /\ s = Demux!StageOf(port)
      BY <2>2 DEF Ports, StageFor
    <3>2. /\ tx_tvalid'[port] = IF demux_tx_tready[port]
                                THEN Demux!BufferedValid(s) /\ port \in Demux!select(s)
                                ELSE tx_tvalid[port]
          /\ tx_tdata'[port] = IF demux_tx_tready[port] THEN Demux!BufferedWord(s)
                                                        ELSE tx_tdata[port]
      BY <3>1 DEF Demux!Clock, Demux!ClockUnits
    <3>3. /\ PortValid(port) = tx_tvalid[port] /\ PortValid(port)' = tx_tvalid'[port]
          /\ PortWord(port) = tx_tdata[port] /\ PortWord(port)' = tx_tdata'[port]
          /\ ready = demux_tx_tready[port]
      BY <2>2 DEF PortValid, PortWord, PortReady
    <3>4. Demux!BufferedValid(s) => (For(port, i) <=> port \in Demux!select(s))
      <4> SUFFICES ASSUME Demux!BufferedValid(s)
                   PROVE  For(port, i) <=> port \in Demux!select(s)
        OBVIOUS
      <4>1. Beyond(s, i)
        BY <1>2
      <4>2. port \in Chosen(s, i) <=> Demux!PortOf(i.id) = port
        <5> HIDE DEF i
        <5> QED
          BY <1>1, <3>1, <4>1, PortHere
      <4> QED
        BY <1>2, <4>2 DEF For
    <3>5. Demux!BufferedValid(s) /\ For(port, i) => (Demux!BufferedReady(s) <=> ready)
      <4> SUFFICES ASSUME Demux!BufferedValid(s), For(port, i)
                   PROVE  Demux!BufferedReady(s) <=> ready
        OBVIOUS
      <4>1. \A k \in Demux!select(s) : k = port
        <5>1. \A k \in Chosen(s, i) : k \in Demux!Outputs /\ Demux!PortOf(i.id) = k
          <6> HIDE DEF i
          <6>1. \A k \in Chosen(s, i) : k \in Demux!Outputs
            BY DEF Chosen
          <6> QED
            BY <1>1, <1>2, <6>1, PortHere
        <5> QED
          BY <1>2, <5>1 DEF For
      <4>2. port \in Demux!select(s)
        BY <3>4
      <4> QED
        BY <3>3, <4>1, <4>2 DEF Demux!BufferedReady
    <3> QED
      BY <3>2, <3>3, <3>4, <3>5
  <2> QED
    BY <2>1, <2>2
<1>5. Leaves(s) <=> Demux!BufferedValid(s) /\ Demux!BufferedReady(s)
  BY DEF Leaves
<1>6. valid \in BOOLEAN /\ loads \in BOOLEAN /\ valid2 \in BOOLEAN
  OBVIOUS
<1>7. loads => ready
  BY <1>4, <1>5
<1>8. valid2 = IF ready THEN loads ELSE valid
  <2>1. CASE ready
    BY <1>4, <1>5, <2>1
  <2>2. CASE ~ready
    BY <1>4, <2>2
  <2> QED
    BY <1>3, <2>1, <2>2
<1>9. w2 = IF ready THEN i ELSE w
  BY <1>4
<1>10. /\ OnPort(port) = One(valid, w)
       /\ StageOut(s, port) = One(loads, i)
       /\ PortOut(port) = One(valid /\ ready, w)
       /\ OnPort(port)' = One(valid2, w2)
  BY DEF OnPort, StageOut, PortOut, One, For
<1> HIDE DEF valid, ready, loads, valid2, w, i, w2, s
<1>11. Row(One(valid, w), One(loads, i)) = Row(One(valid /\ ready, w), One(valid2, w2))
  BY <1>3, <1>6, <1>7, <1>8, <1>9, RegisterConveys
<1> QED
  BY <1>10, <1>11 DEF s

StageCell(n, port) == Row(StageSkid(n, port), StageIn(n, port))

\* The stages up to the one of the port, and the port.
PortCells(port) ==
    [m \in 0 .. StageFor(port) + 1 |->
        IF m = StageFor(port) + 1 THEN OnPort(port) ELSE StageCell(m, port)]

\* The types of the words for a port.
LEMMA PortPlaces ==
    DemuxInv => \A port \in Ports :
        /\ \A n \in Demux!Stages :
              /\ StageSkid(n, port) \in Seq(WORDS) /\ Len(StageSkid(n, port)) <= 1
              /\ StageIn(n, port) \in Seq(WORDS) /\ Len(StageIn(n, port)) <= 1
              /\ StageOut(n, port) \in Seq(WORDS)
              /\ Entering(n, port) \in Seq(WORDS)
        /\ OnPort(port) \in Seq(WORDS) /\ Len(OnPort(port)) <= 1
        /\ PortOut(port) \in Seq(WORDS)
<1> SUFFICES ASSUME DemuxInv, NEW port \in Ports
             PROVE  /\ \A n \in Demux!Stages :
                          /\ StageSkid(n, port) \in Seq(WORDS) /\ Len(StageSkid(n, port)) <= 1
                          /\ StageIn(n, port) \in Seq(WORDS) /\ Len(StageIn(n, port)) <= 1
                          /\ StageOut(n, port) \in Seq(WORDS)
                          /\ Entering(n, port) \in Seq(WORDS)
                    /\ OnPort(port) \in Seq(WORDS) /\ Len(OnPort(port)) <= 1
                    /\ PortOut(port) \in Seq(WORDS)
  OBVIOUS
<1>1. ASSUME NEW n \in Demux!Stages
      PROVE  /\ StageSkid(n, port) \in Seq(WORDS) /\ Len(StageSkid(n, port)) <= 1
             /\ StageIn(n, port) \in Seq(WORDS) /\ Len(StageIn(n, port)) <= 1
             /\ StageOut(n, port) \in Seq(WORDS)
             /\ Entering(n, port) \in Seq(WORDS)
  <2>1. n \in 0 .. Demux!DEMUXES
    BY StageNumbers
  <2>2. /\ Waits(n) => demux_buffered[n] \in WORDS
        /\ Demux!Valid(n) => Demux!Word(n) \in WORDS
        /\ Demux!BufferedValid(n) => Demux!BufferedWord(n) \in WORDS
    BY <2>1, StageOffers DEF DemuxInv
  <2>3. StageSkid(n, port) \in Seq(WORDS) /\ Len(StageSkid(n, port)) <= 1
    <3> DEFINE valid == Waits(n) /\ For(port, demux_buffered[n])
    <3>1. valid \in BOOLEAN /\ (valid => demux_buffered[n] \in WORDS)
      BY <2>2
    <3> HIDE DEF valid
    <3>2. One(valid, demux_buffered[n]) \in Seq(WORDS) /\ Len(One(valid, demux_buffered[n])) <= 1
      BY <3>1, OneTyped
    <3> QED
      BY <3>2 DEF StageSkid, valid
  <2>4. StageIn(n, port) \in Seq(WORDS) /\ Len(StageIn(n, port)) <= 1
    <3> DEFINE valid == n # 0 /\ Demux!Valid(n) /\ For(port, Demux!Word(n))
               word == Demux!Word(n)
    <3>1. valid \in BOOLEAN /\ (valid => word \in WORDS)
      BY <2>2
    <3> HIDE DEF valid, word
    <3>2. One(valid, word) \in Seq(WORDS) /\ Len(One(valid, word)) <= 1
      BY <3>1, OneTyped
    <3> QED
      BY <3>2 DEF StageIn, valid, word
  <2>5. StageOut(n, port) \in Seq(WORDS)
    <3> DEFINE valid == Leaves(n) /\ For(port, Demux!BufferedWord(n))
               word == Demux!BufferedWord(n)
    <3>1. valid \in BOOLEAN /\ (valid => word \in WORDS)
      BY <2>2 DEF Leaves
    <3> HIDE DEF valid, word
    <3>2. One(valid, word) \in Seq(WORDS)
      BY <3>1, OneTyped
    <3> QED
      BY <3>2 DEF StageOut, valid, word
  <2>6. Entering(n, port) \in Seq(WORDS)
    <3> DEFINE valid == Demux!Valid(n) /\ demux_buffer_tready[n] /\ For(port, Demux!Word(n))
               word == Demux!Word(n)
    <3>1. valid \in BOOLEAN /\ (valid => word \in WORDS)
      BY <2>2
    <3> HIDE DEF valid, word
    <3>2. One(valid, word) \in Seq(WORDS)
      BY <3>1, OneTyped
    <3> QED
      BY <3>2 DEF Entering, valid, word
  <2> QED
    BY <2>3, <2>4, <2>5, <2>6
<1>2. PortValid(port) => PortWord(port) \in WORDS
  <2>1. CASE port = OUTPUTS
    <3> DEFINE D == Demux!DEMUXES
    <3>1. D \in 0 .. D /\ D # 0
      BY StageNumbers
    <3>2. Demux!Valid(D) = next_tvalid[D - 1] /\ Demux!Word(D) = next_tdata[D - 1]
      BY <3>1 DEF Demux!Valid, Demux!Word
    <3> QED
      BY <2>1, <3>1, <3>2 DEF PortValid, PortWord, DemuxInv
  <2>2. CASE port # OUTPUTS
    BY <2>2 DEF PortValid, PortWord, Ports, DemuxInv
  <2> QED
    BY <2>1, <2>2
<1>3. OnPort(port) \in Seq(WORDS) /\ Len(OnPort(port)) <= 1 /\ PortOut(port) \in Seq(WORDS)
  <2> DEFINE valid == PortValid(port) /\ For(port, PortWord(port))
             given == PortValid(port) /\ For(port, PortWord(port)) /\ PortReady(port)
             word == PortWord(port)
  <2>1. /\ valid \in BOOLEAN /\ given \in BOOLEAN
        /\ valid => word \in WORDS
        /\ given => word \in WORDS
    BY <1>2
  <2> HIDE DEF valid, given, word
  <2>2. /\ One(valid, word) \in Seq(WORDS) /\ Len(One(valid, word)) <= 1
        /\ One(given, word) \in Seq(WORDS)
    BY <2>1, OneTyped
  <2> QED
    BY <2>2 DEF OnPort, PortOut, valid, given, word
<1> QED
  BY <1>1, <1>3

\* The same after a step.
LEMMA PortPlacesNext ==
    DemuxInv' => \A port \in Ports :
        /\ \A n \in Demux!Stages :
              /\ StageSkid(n, port)' \in Seq(WORDS) /\ Len(StageSkid(n, port)') <= 1
              /\ StageIn(n, port)' \in Seq(WORDS) /\ Len(StageIn(n, port)') <= 1
        /\ OnPort(port)' \in Seq(WORDS) /\ Len(OnPort(port)') <= 1
<1>1. (DemuxInv => \A port \in Ports :
        /\ \A n \in Demux!Stages :
              /\ StageSkid(n, port) \in Seq(WORDS) /\ Len(StageSkid(n, port)) <= 1
              /\ StageIn(n, port) \in Seq(WORDS) /\ Len(StageIn(n, port)) <= 1
              /\ StageOut(n, port) \in Seq(WORDS)
              /\ Entering(n, port) \in Seq(WORDS)
        /\ OnPort(port) \in Seq(WORDS) /\ Len(OnPort(port)) <= 1
        /\ PortOut(port) \in Seq(WORDS))'
  BY PortPlaces, PTL
<1> QED
  BY <1>1

\* The words for a port are those of the places on its way, in a row.
LEMMA PortContents ==
    \A port \in Ports :
        Demux!Contents(port)
            = Joined(StageFor(port) + 1, PortCells(port))[StageFor(port) + 1]
<1> SUFFICES ASSUME NEW port \in Ports
             PROVE  Demux!Contents(port)
                        = Joined(StageFor(port) + 1, PortCells(port))[StageFor(port) + 1]
  OBVIOUS
<1> DEFINE D == Demux!DEMUXES
           s == StageFor(port)
           Waiting(n) == Demux!OnWay(demux_buffer_state[n] = "BUFFERED", demux_buffered[n], port)
           In(n) == IF n = 0 THEN <<>>
                    ELSE Demux!OnWay(next_tvalid[n - 1], next_tdata[n - 1], port)
           G(f) == [n \in 0 .. D |->
                       IF n = 0 THEN << >>
                       ELSE Demux!OnWay(demux_buffer_state[n - 1] = "BUFFERED",
                                        demux_buffered[n - 1], port)
                            \o (IF n = 1 THEN << >>
                                ELSE Demux!OnWay(next_tvalid[n - 2], next_tdata[n - 2], port))
                            \o f[n - 1]]
           before == CHOOSE f : f = G(f)
           stages == [n \in 0 .. D |-> IF n = 0 THEN <<>> ELSE StageCell(n - 1, port)]
           row == Joined(D, stages)
<1>1. D \in Nat /\ s \in Nat /\ s + 1 <= D
  BY PortFacts, StageNumbers
<1>2. ASSUME NEW n \in 0 .. D - 1
      PROVE  /\ StageSkid(n, port) = Waiting(n) /\ StageIn(n, port) = In(n)
  <2>1. StageSkid(n, port) = Waiting(n)
    BY DEF StageSkid, Waits, One, For, Demux!OnWay
  <2>2. StageIn(n, port) = In(n)
    BY DEF StageIn, One, For, Demux!OnWay, Demux!Valid, Demux!Word
  <2> QED
    BY <2>1, <2>2
<1>3. ASSUME NEW n \in 1 .. D, NEW f
      PROVE  G(f)[n] = Row(StageCell(n - 1, port), f[n - 1])
  <2> DEFINE m == n - 1
  <2>1. m \in 0 .. D - 1 /\ n \in 0 .. D /\ n # 0 /\ n - 2 = m - 1 /\ (n = 1 <=> m = 0)
    BY <1>1
  <2>2. G(f)[n] = Demux!OnWay(demux_buffer_state[m] = "BUFFERED", demux_buffered[m], port)
                     \o (IF m = 0 THEN << >>
                         ELSE Demux!OnWay(next_tvalid[m - 1], next_tdata[m - 1], port))
                     \o f[m]
    BY <2>1
  <2> HIDE DEF m, G
  <2>3. G(f)[n] = Row(Row(Waiting(m), In(m)), f[m])
    BY <2>2 DEF Row
  <2>4. StageCell(m, port) = Row(Waiting(m), In(m))
    BY <1>2, <2>1 DEF StageCell
  <2> HIDE DEF Waiting, In
  <2>5. G(f)[n] = Row(StageCell(m, port), f[m])
    BY <2>3, <2>4
  <2> QED
    BY <2>5 DEF m
<1>4. \A f : G(f)[0] = <<>> /\ G(f) = [n \in 0 .. D |-> G(f)[n]]
  BY <1>1
<1>5. Demux!Contents(port) = Row(OnPort(port), before[s + 1])
  <2>1. CASE port = OUTPUTS
    <3>1. Demux!Contents(port) =
             Demux!OnWay(next_tvalid[D - 1], next_tdata[D - 1], port) \o before[D]
      BY <2>1 DEF Demux!Contents
    <3>2. s + 1 = D
      BY <2>1, StageNumbers DEF StageFor
    <3>3. OnPort(port) = Demux!OnWay(next_tvalid[D - 1], next_tdata[D - 1], port)
      BY <2>1 DEF OnPort, PortValid, PortWord, One, For, Demux!OnWay
    <3> HIDE DEF before
    <3> QED
      BY <3>1, <3>2, <3>3 DEF Row
  <2>2. CASE port # OUTPUTS
    <3>1. Demux!Contents(port) =
             Demux!OnWay(tx_tvalid[port], tx_tdata[port], port) \o before[Demux!StageOf(port) + 1]
      BY <2>2 DEF Demux!Contents
    <3>2. s = Demux!StageOf(port)
      BY <2>2 DEF StageFor
    <3>3. OnPort(port) = Demux!OnWay(tx_tvalid[port], tx_tdata[port], port)
      BY <2>2 DEF OnPort, PortValid, PortWord, One, For, Demux!OnWay
    <3> HIDE DEF before, s
    <3> QED
      BY <3>1, <3>2, <3>3 DEF Row
  <2> QED
    BY <2>1, <2>2
<1>6. stages[0] = <<>> /\ \A n \in 1 .. D : stages[n] = StageCell(n - 1, port)
  BY <1>1
<1>7. /\ row = [n \in 0 .. D |-> IF n = 0 THEN stages[0] ELSE Row(stages[n], row[n - 1])]
      /\ row[0] = stages[0] /\ \A n \in 1 .. D : row[n] = Row(stages[n], row[n - 1])
  <2> HIDE DEF D, stages
  <2> QED
    BY <1>1, Joins
<1> HIDE DEF row, stages
<1>8. row = G(row)
  <2> HIDE DEF G
  <2>1. ASSUME NEW n \in 0 .. D PROVE row[n] = G(row)[n]
    <3>1. CASE n = 0
      BY <1>4, <1>6, <1>7, <3>1
    <3>2. CASE n # 0
      <4>1. n \in 1 .. D
        BY <1>1, <3>2
      <4> QED
        BY <1>3, <1>6, <1>7, <4>1
    <3> QED
      BY <3>1, <3>2
  <2>2. row = [n \in 0 .. D |-> row[n]]
    BY <1>7
  <2> QED
    BY <1>4, <2>1, <2>2
<1>9. before = G(before)
  <2> HIDE DEF G
  <2> QED
    BY <1>8
<1> HIDE DEF before
<1>10. before[0] = <<>> /\ \A n \in 1 .. D : before[n] = Row(StageCell(n - 1, port), before[n - 1])
  <2> HIDE DEF G
  <2> QED
    BY <1>3, <1>4, <1>9
<1> DEFINE cells == PortCells(port)
           f == [m \in 0 .. s |-> before[m + 1]]
           N == s + 1
           held == Joined(N, cells)
<1> HIDE DEF G
<1>11. N \in Nat /\ N \in 1 .. N /\ N - 1 = s /\ s \in 0 .. s /\ s # N
  BY <1>1
<1>12. cells[N] = OnPort(port) /\ \A m \in 0 .. s : cells[m] = StageCell(m, port)
  <2> HIDE DEF s
  <2>1. cells = [m \in 0 .. s + 1 |-> IF m = s + 1 THEN OnPort(port) ELSE StageCell(m, port)]
    BY DEF PortCells, s
  <2> HIDE DEF cells
  <2> QED
    BY <1>1, <2>1
<1>13. before[1] = StageCell(0, port)
  <2> DEFINE skid == StageSkid(0, port)
  <2>1. 1 \in 1 .. D /\ 1 - 1 = 0
    BY <1>1
  <2>2. before[1] = Row(StageCell(0, port), <<>>)
    BY <1>10, <2>1
  <2>3. StageIn(0, port) = <<>>
    BY DEF StageIn, One
  <2>4. skid \in Seq({demux_buffered[0]})
    <3> DEFINE word == demux_buffered[0]
    <3>1. skid = <<>> \/ skid = <<word>>
      BY DEF StageSkid, One
    <3> HIDE DEF skid, word
    <3>2. <<>> \in Seq({word}) /\ <<word>> \in Seq({word})
      OBVIOUS
    <3>3. skid \in Seq({word})
      BY <3>1, <3>2
    <3> QED
      BY <3>3 DEF word
  <2>5. StageCell(0, port) = Row(skid, <<>>)
    BY <2>3 DEF StageCell
  <2> HIDE DEF skid
  <2>6. Row(skid, <<>>) = skid
    BY <2>4, RowEmpty
  <2> QED
    BY <2>2, <2>5, <2>6
<1> HIDE DEF D, s, N, cells
<1>14. held[0] = cells[0] /\ \A d \in 1 .. N : held[d] = Row(cells[d], held[d - 1])
  BY <1>11, Joins
<1>15. \A m \in 0 .. s : f[m] = Joined(s, cells)[m]
  <2>1. f[0] = cells[0]
    BY <1>1, <1>12, <1>13
  <2>2. ASSUME NEW d \in 1 .. s PROVE f[d] = Row(cells[d], f[d - 1])
    <3>1. d + 1 \in 1 .. D /\ d + 1 - 1 = d /\ d \in 0 .. s /\ d - 1 \in 0 .. s /\ d - 1 + 1 = d
      BY <1>1
    <3>2. f[d] = before[d + 1] /\ f[d - 1] = before[d]
      BY <3>1
    <3>3. before[d + 1] = Row(StageCell(d, port), before[d])
      BY <1>10, <3>1
    <3> QED
      BY <1>12, <3>1, <3>2, <3>3
  <2> HIDE DEF f
  <2> QED
    BY <1>1, <2>1, <2>2, JoinsOnly
<1>16. \A m \in 0 .. s : held[m] = Joined(s, cells)[m]
  <2> HIDE DEF held
  <2>1. \A d \in 1 .. s : d \in 1 .. N
    BY <1>1 DEF N
  <2>2. \A d \in 1 .. s : held[d] = Row(cells[d], held[d - 1])
    BY <1>14, <2>1
  <2> QED
    BY <1>1, <1>14, <2>2, JoinsOnly
<1>17. f[s] = before[s + 1]
  BY <1>11
<1>18. held[N] = Row(OnPort(port), held[s])
  BY <1>11, <1>12, <1>14
<1> HIDE DEF f, held
<1>19. held[N] = Row(OnPort(port), before[s + 1])
  BY <1>11, <1>15, <1>16, <1>17, <1>18
<1> QED
  BY <1>5, <1>19 DEF held, N, s, cells

\* The words for a port after a step are the places after it, in a row.
LEMMA PortContentsAfter ==
    (\A port \in Ports :
        Demux!Contents(port)
            = Joined(StageFor(port) + 1, PortCells(port))[StageFor(port) + 1])'
BY PortContents, PTL

\* In other words.
LEMMA PortContentsNext ==
    ASSUME NEW port \in Ports, NEW N, N = StageFor(port) + 1, NEW after,
           after = [m \in 0 .. N |-> IF m = N THEN OnPort(port)' ELSE StageCell(m, port)']
    PROVE  Demux!Contents(port)' = Joined(N, after)[N]
<1>1. (Demux!Contents(port) =
         Joined(StageFor(port) + 1, PortCells(port))[StageFor(port) + 1])'
  BY PortContentsAfter
<1>2. PortCells(port)' = after
  BY DEF PortCells
<1>3. StageFor(port)' = StageFor(port)
  BY DEF StageFor
<1> QED
  BY <1>1, <1>2, <1>3

\* A clock of a stage behind the first one.
LEMMA StageMoves ==
    ASSUME DemuxInv, DemuxInv', Demux!Clock, NEW port \in Ports,
           NEW m \in Demux!Stages, m + 1 <= StageFor(port), NEW n, n = m + 1
    PROVE  Row(StageCell(n, port), StageOut(m, port))
               = Row(StageOut(n, port), StageCell(n, port)')
<1>1. n \in Demux!Stages
  BY PortFacts, StageNumbers
<1>2. Row(StageIn(n, port), StageOut(m, port)) = Row(Entering(n, port), StageIn(n, port)')
  BY StageInConveys
<1>3. Row(StageSkid(n, port), Entering(n, port)) = Row(StageOut(n, port), StageSkid(n, port)')
  BY <1>1, StageSkidConveys
<1>4. /\ StageSkid(n, port) \in Seq(WORDS) /\ StageIn(n, port) \in Seq(WORDS)
      /\ StageOut(m, port) \in Seq(WORDS) /\ StageOut(n, port) \in Seq(WORDS)
      /\ Entering(n, port) \in Seq(WORDS)
  BY <1>1, PortPlaces
<1>5. StageSkid(n, port)' \in Seq(WORDS) /\ StageIn(n, port)' \in Seq(WORDS)
  BY <1>1, PortPlacesNext
<1>6. StageCell(n, port)' = Row(StageSkid(n, port)', StageIn(n, port)')
  BY DEF StageCell
<1> DEFINE skid == StageSkid(n, port)
           register == StageIn(n, port)
           loads == StageOut(m, port)
           leaves == Entering(n, port)
           taken == StageOut(n, port)
           skid2 == StageSkid(n, port)'
           register2 == StageIn(n, port)'
           S == WORDS
<1>7. Row(Row(skid, register), loads) = Row(taken, Row(skid2, register2))
  <2>1. /\ skid \in Seq(S) /\ register \in Seq(S) /\ loads \in Seq(S)
        /\ leaves \in Seq(S) /\ register2 \in Seq(S) /\ taken \in Seq(S)
        /\ skid2 \in Seq(S)
        /\ Row(register, loads) = Row(leaves, register2)
        /\ Row(skid, leaves) = Row(taken, skid2)
    BY <1>2, <1>3, <1>4, <1>5
  <2> HIDE DEF skid, register, loads, leaves, taken, skid2, register2, S
  <2>2. Row(Row(skid, register), loads) = Row(skid, Row(leaves, register2))
    BY <2>1, RowAssociative
  <2>3. Row(skid, Row(leaves, register2)) = Row(Row(taken, skid2), register2)
    BY <2>1, RowAssociative
  <2>4. Row(Row(taken, skid2), register2) = Row(taken, Row(skid2, register2))
    BY <2>1, RowAssociative
  <2> QED
    BY <2>2, <2>3, <2>4
<1> QED
  BY <1>6, <1>7 DEF StageCell

\* A clock of the first stage, which has no register before it.
LEMMA StageEnters ==
    ASSUME DemuxInv, DemuxInv', Demux!Clock, NEW port \in Ports, NEW n, n = 0
    PROVE  Row(StageCell(n, port), Entering(n, port))
               = Row(StageOut(n, port), StageCell(n, port)')
<1>1. n \in Demux!Stages
  BY StageNumbers
<1>2. Row(StageSkid(n, port), Entering(n, port)) = Row(StageOut(n, port), StageSkid(n, port)')
  BY <1>1, StageSkidConveys
<1>3. StageIn(n, port) = <<>> /\ StageIn(n, port)' = <<>>
  BY DEF StageIn, One
<1>4. StageSkid(n, port) \in Seq(WORDS) /\ StageSkid(n, port)' \in Seq(WORDS)
  BY <1>1, PortPlaces, PortPlacesNext
<1>5. StageCell(n, port) = StageSkid(n, port)
  BY <1>3, <1>4, RowEmpty DEF StageCell
<1>6. StageCell(n, port)' = StageSkid(n, port)'
  <2>1. StageCell(n, port)' = Row(StageSkid(n, port)', <<>>)
    BY <1>3 DEF StageCell
  <2> DEFINE skid2 == StageSkid(n, port)'
  <2>2. skid2 \in Seq(WORDS)
    BY <1>4
  <2> HIDE DEF skid2
  <2>3. Row(skid2, <<>>) = skid2
    BY <2>2, RowEmpty
  <2> QED
    BY <2>1, <2>3 DEF skid2
<1> QED
  BY <1>2, <1>5, <1>6

\* What the stages do in a clock with the words for a port.
LEMMA PortWayConveys ==
    ASSUME DemuxInv, DemuxInv', Demux!Clock, NEW port \in Ports,
           NEW N, N = StageFor(port) + 1, NEW after,
           after = [m \in 0 .. N |-> IF m = N THEN OnPort(port)' ELSE StageCell(m, port)']
    PROVE  /\ Row(Joined(N, PortCells(port))[N], Entering(0, port))
                = Row(PortOut(port), Joined(N, after)[N])
           /\ after \in [0 .. N -> Seq(WORDS)]
           /\ PortCells(port) \in [0 .. N -> Seq(WORDS)]
<1> DEFINE s == StageFor(port)
           cells == PortCells(port)
           passed == [m \in 0 .. N |-> IF m = N THEN PortOut(port) ELSE StageOut(m, port)]
           coming == Entering(0, port)
           S == WORDS
<1>1. /\ N \in Nat /\ 0 \in 0 .. N /\ N \in 0 .. N /\ N # 0 /\ N \in 1 .. N /\ N - 1 = s
      /\ N - 1 # N
      /\ \A m \in 0 .. N : m # N => m \in Demux!Stages /\ m <= s
  BY PortFacts, StageNumbers
<1>2. coming \in Seq(S)
  BY PortPlaces, StageNumbers
<1>3. /\ cells = [m \in 0 .. N |-> IF m = N THEN OnPort(port) ELSE StageCell(m, port)]
      /\ passed = [m \in 0 .. N |-> IF m = N THEN PortOut(port) ELSE StageOut(m, port)]
  BY DEF PortCells
<1> HIDE DEF cells, passed
<1>4. /\ cells[N] = OnPort(port) /\ after[N] = OnPort(port)' /\ passed[N] = PortOut(port)
      /\ \A m \in 0 .. N : m # N => /\ cells[m] = StageCell(m, port)
                                    /\ after[m] = StageCell(m, port)'
                                    /\ passed[m] = StageOut(m, port)
  BY <1>1, <1>3
<1>5. ASSUME NEW m \in 0 .. N
      PROVE  cells[m] \in Seq(S) /\ after[m] \in Seq(S) /\ passed[m] \in Seq(S)
  <2>1. CASE m = N
    BY <1>4, <2>1, PortPlaces, PortPlacesNext
  <2>2. CASE m # N
    <3>1. m \in Demux!Stages
      BY <1>1, <2>2
    <3>2. /\ cells[m] = Row(StageSkid(m, port), StageIn(m, port))
          /\ after[m] = Row(StageSkid(m, port)', StageIn(m, port)')
          /\ passed[m] = StageOut(m, port)
      <4>1. /\ cells[m] = StageCell(m, port) /\ after[m] = StageCell(m, port)'
            /\ passed[m] = StageOut(m, port)
        BY <1>4, <2>2
      <4> QED
        BY <4>1 DEF StageCell
    <3>3. /\ StageSkid(m, port) \in Seq(S) /\ StageIn(m, port) \in Seq(S)
          /\ StageOut(m, port) \in Seq(S)
          /\ StageSkid(m, port)' \in Seq(S) /\ StageIn(m, port)' \in Seq(S)
      BY <3>1, PortPlaces, PortPlacesNext
    <3> DEFINE skid == StageSkid(m, port)
               register == StageIn(m, port)
               skid2 == StageSkid(m, port)'
               register2 == StageIn(m, port)'
    <3>4. cells[m] = Row(skid, register) /\ after[m] = Row(skid2, register2)
      BY <3>2
    <3>5. skid \in Seq(S) /\ register \in Seq(S) /\ skid2 \in Seq(S) /\ register2 \in Seq(S)
      BY <3>3
    <3> HIDE DEF skid, register, skid2, register2, S
    <3>6. cells[m] \in Seq(S) /\ after[m] \in Seq(S)
      BY <3>4, <3>5, RowSeq
    <3> QED
      BY <3>2, <3>3, <3>6
  <2> QED
    BY <2>1, <2>2
<1>6. cells \in [0 .. N -> Seq(S)] /\ after \in [0 .. N -> Seq(S)] /\ passed \in [0 .. N -> Seq(S)]
  <2>1. /\ cells = [m \in 0 .. N |-> cells[m]] /\ after = [m \in 0 .. N |-> after[m]]
        /\ passed = [m \in 0 .. N |-> passed[m]]
    BY <1>3
  <2> QED
    BY <1>5, <2>1
<1>7. Row(cells[0], coming) = Row(passed[0], after[0])
  <2>1. /\ cells[0] = StageCell(0, port) /\ after[0] = StageCell(0, port)'
        /\ passed[0] = StageOut(0, port)
    BY <1>1, <1>4
  <2> QED
    BY <2>1, StageEnters
<1>8. ASSUME NEW d \in 1 .. N PROVE Row(cells[d], passed[d - 1]) = Row(passed[d], after[d])
  <2>1. d \in 0 .. N /\ d - 1 \in 0 .. N /\ d - 1 # N
    BY <1>1
  <2>2. passed[d - 1] = StageOut(d - 1, port)
    BY <1>4, <2>1
  <2>3. CASE d = N
    <3>1. d - 1 = s
      BY <1>1, <2>3
    <3>2. Row(OnPort(port), StageOut(s, port)) = Row(PortOut(port), OnPort(port)')
      BY PortConveys
    <3> HIDE DEF s
    <3> QED
      BY <1>4, <2>2, <2>3, <3>1, <3>2
  <2>4. CASE d # N
    <3> DEFINE m == d - 1
    <3>1. m \in Demux!Stages /\ d = m + 1 /\ m + 1 <= s
      BY <1>1, <2>1, <2>4
    <3> HIDE DEF m
    <3>2. Row(StageCell(d, port), StageOut(m, port)) = Row(StageOut(d, port), StageCell(d, port)')
      BY <3>1, StageMoves
    <3>3. cells[d] = StageCell(d, port) /\ after[d] = StageCell(d, port)'
          /\ passed[d] = StageOut(d, port)
      BY <1>4, <2>1, <2>4
    <3> QED
      BY <2>2, <3>2, <3>3 DEF m
  <2> QED
    BY <2>3, <2>4
<1> HIDE DEF s, coming, S
<1>9. Steps(S, N, cells, after, passed, coming)
  BY <1>1, <1>2, <1>6, <1>7, <1>8 DEF Steps
<1>10. Row(Joined(N, cells)[N], coming) = Row(passed[N], Joined(N, after)[N])
  BY <1>1, <1>9, Conveyed
<1> QED
  BY <1>4, <1>6, <1>10 DEF cells, coming, S

\* The room on the way to a port.
LEMMA PortRoom ==
    ASSUME DemuxInv', NEW port \in Ports, NEW N, N = StageFor(port) + 1,
           NEW after \in [0 .. N -> Seq(WORDS)],
           after = [m \in 0 .. N |-> IF m = N THEN OnPort(port)' ELSE StageCell(m, port)']
    PROVE  Len(Joined(N, after)[N]) <= 2 * Demux!DEMUXES
<1> DEFINE room == [d \in 0 .. N |-> IF d = N THEN 2 * N ELSE 2 * d + 1]
           S == WORDS
           D == Demux!DEMUXES
<1>1. /\ N \in Nat /\ N >= 1 /\ 0 \in 0 .. N /\ N \in 0 .. N /\ N <= D /\ D \in Nat
      /\ \A m \in 0 .. N : m # N => m \in Demux!Stages
  BY PortFacts, StageNumbers
<1>2. ASSUME NEW d \in 0 .. N
      PROVE  /\ Len(after[d]) \in Nat /\ Len(after[d]) <= 2
             /\ d = 0 \/ d = N => Len(after[d]) <= 1
  <2>1. CASE d = N
    <3>1. after[d] = OnPort(port)'
      BY <2>1
    <3>2. after[d] \in Seq(S) /\ Len(after[d]) <= 1
      BY <3>1, PortPlacesNext
    <3>3. Len(after[d]) \in Nat
      BY <3>2, LenProperties
    <3> QED
      BY <3>2, <3>3
  <2>2. CASE d # N
    <3> DEFINE skid == StageSkid(d, port)'
               register == StageIn(d, port)'
               x == Len(skid)
               y == Len(register)
    <3>1. d \in Demux!Stages
      BY <1>1, <2>2
    <3>2. after[d] = Row(skid, register)
      BY <2>2 DEF StageCell
    <3>3. skid \in Seq(S) /\ register \in Seq(S) /\ Len(skid) <= 1 /\ Len(register) <= 1
      BY <3>1, PortPlacesNext
    <3>4. d = 0 => register = <<>>
      BY DEF StageIn, One
    <3> HIDE DEF skid, register, S
    <3>5. Len(after[d]) = x + y
      BY <3>2, <3>3, RowSeq
    <3>6. x \in Nat /\ y \in Nat /\ x <= 1 /\ y <= 1
      BY <3>3, LenProperties
    <3>7. Len(<<>>) = 0
      OBVIOUS
    <3>8. d = 0 => y = 0
      BY <3>4, <3>7
    <3> HIDE DEF x, y
    <3> QED
      BY <2>2, <3>5, <3>6, <3>8
  <2> QED
    BY <2>1, <2>2
<1>3. room \in [0 .. N -> Nat] /\ room[0] = 1 /\ room[N] = 2 * N
      /\ \A d \in 1 .. N : room[d - 1] = 2 * d - 1 /\ (d # N => room[d] = 2 * d + 1)
  BY <1>1
<1> HIDE DEF room
<1>4. Len(after[0]) <= room[0]
  BY <1>1, <1>2, <1>3
<1>5. ASSUME NEW d \in 1 .. N PROVE Len(after[d]) + room[d - 1] <= room[d]
  <2>1. d \in 0 .. N
    BY <1>1
  <2> DEFINE x == Len(after[d])
  <2>2. x \in Nat /\ x <= 2 /\ (d = N => x <= 1)
    BY <1>2, <2>1
  <2>3. room[d - 1] = 2 * d - 1 /\ (d # N => room[d] = 2 * d + 1) /\ room[N] = 2 * N
    BY <1>3
  <2> HIDE DEF x
  <2>4. x + room[d - 1] <= room[d]
    <3>1. CASE d = N
      BY <1>1, <2>2, <2>3, <3>1
    <3>2. CASE d # N
      BY <1>1, <2>2, <2>3, <3>2
    <3> QED
      BY <3>1, <3>2
  <2> QED
    BY <2>4 DEF x
<1> HIDE DEF S, D
<1>6. after \in [0 .. N -> Seq(S)]
  BY DEF S
<1>7. \A m \in 0 .. N : Len(Joined(N, after)[m]) <= room[m]
  BY <1>1, <1>3, <1>4, <1>5, <1>6, JoinedRoom
<1>8. Len(Joined(N, after)[N]) <= 2 * N
  BY <1>1, <1>3, <1>7
<1>9. Len(Joined(N, after)[N]) \in Nat
  <2> DEFINE row == Joined(N, after)[N]
  <2>1. row \in Seq(S)
    BY <1>1, <1>6, JoinedSeq
  <2> HIDE DEF row
  <2> QED
    BY <2>1, LenProperties DEF row
<1> DEFINE length == Len(Joined(N, after)[N])
<1>10. length \in Nat /\ length <= 2 * N
  BY <1>8, <1>9
<1> HIDE DEF length
<1>11. length <= 2 * D
  BY <1>1, <1>10
<1> QED
  BY <1>11 DEF length, D

\* What a port shows is for the port, and is held until it is taken.
LEMMA PortShows ==
    ASSUME DemuxInv, NEW port \in Ports
    PROVE  /\ PortValid(port) => PortWord(port) \in WORDS /\ For(port, PortWord(port))
           /\ PortValid(port) \in BOOLEAN /\ PortReady(port) \in BOOLEAN
           /\ Demux!Clock /\ PortValid(port) /\ ~PortReady(port) =>
                 PortValid(port)' /\ PortWord(port)' = PortWord(port)
<1>1. CASE port = OUTPUTS
  <2> DEFINE D == Demux!DEMUXES
             d == D - 1
  <2>1. D \in 0 .. D /\ D # 0 /\ d \in Demux!Stages /\ d + 1 = D /\ D \notin Demux!Stages
    BY StageNumbers
  <2>2. /\ PortValid(port) = next_tvalid[d] /\ PortValid(port)' = next_tvalid'[d]
        /\ PortWord(port) = next_tdata[d] /\ PortWord(port)' = next_tdata'[d]
        /\ PortReady(port) = Demux!Ready(D)
    BY <1>1 DEF PortValid, PortWord, PortReady
  <2>3. Demux!Valid(D) = next_tvalid[d] /\ Demux!Word(D) = next_tdata[d]
    BY <2>1 DEF Demux!Valid, Demux!Word
  <2>4. next_tvalid[d] => next_tdata[d] \in WORDS /\ Beyond(D, next_tdata[d])
    BY <2>1, <2>3 DEF DemuxInv
  <2>5. next_tvalid[d] => Demux!PortOf(next_tdata[d].id) = OUTPUTS
    BY <2>4, PortBeyond
  <2>6. next_tvalid[d] \in BOOLEAN
    BY <2>1 DEF DemuxInv, Demux!TypeOK
  <2>7. Demux!Ready(D) \in BOOLEAN
    <3>1. EXTRACT \in BOOLEAN
      BY DemuxAssumption DEF Demux!Parameters
    <3>2. demux_tx_tready \in [Demux!TxPorts -> BOOLEAN] /\ drop_tready \in BOOLEAN
      BY DEF DemuxInv, Demux!TypeOK
    <3>3. EXTRACT => OUTPUTS \in Demux!TxPorts
      BY DEF Demux!TxPorts
    <3>4. Demux!Ready(D) = IF EXTRACT THEN demux_tx_tready[OUTPUTS] ELSE drop_tready
      BY <2>1, <3>1 DEF Demux!Ready
    <3> QED
      BY <3>1, <3>2, <3>3, <3>4
  <2>8. Demux!Clock /\ ~Demux!Ready(D) =>
           next_tvalid'[d] = next_tvalid[d] /\ next_tdata'[d] = next_tdata[d]
    BY <2>1 DEF Demux!Clock, Demux!ClockUnits
  <2> HIDE DEF d, D
  <2> QED
    BY <1>1, <2>2, <2>4, <2>5, <2>6, <2>7, <2>8 DEF For
<1>2. CASE port # OUTPUTS
  <2>1. port \in Demux!Outputs /\ port \in Demux!TxPorts
    BY <1>2 DEF Ports, Demux!TxPorts
  <2>2. /\ PortValid(port) = tx_tvalid[port] /\ PortValid(port)' = tx_tvalid'[port]
        /\ PortWord(port) = tx_tdata[port] /\ PortWord(port)' = tx_tdata'[port]
        /\ PortReady(port) = demux_tx_tready[port]
    BY <1>2 DEF PortValid, PortWord, PortReady
  <2>3. tx_tvalid[port] => tx_tdata[port] \in WORDS /\ Demux!PortOf(tx_tdata[port].id) = port
    BY <2>1 DEF DemuxInv
  <2>4. tx_tvalid[port] \in BOOLEAN /\ demux_tx_tready[port] \in BOOLEAN
    BY <2>1 DEF DemuxInv, Demux!TypeOK
  <2>5. Demux!Clock /\ ~demux_tx_tready[port] =>
           tx_tvalid'[port] = tx_tvalid[port] /\ tx_tdata'[port] = tx_tdata[port]
    BY <2>1 DEF Demux!Clock, Demux!ClockUnits
  <2> QED
    BY <2>2, <2>3, <2>4, <2>5 DEF For
<1> QED
  BY <1>1, <1>2

(***************************************************************************)
(* A clock edge transfers: for the words of each port the stages up to it  *)
(* are one row, and the port shows the oldest of them or none.             *)
(***************************************************************************)
LEMMA DemuxTransfer ==
    ASSUME DemuxInv, DemuxInv', Demux!Clock, NEW port \in Ports
    PROVE  Demux!Fifo(port)!Transfer
<1> DEFINE N == StageFor(port) + 1
           S == WORDS
           after == [m \in 0 .. N |-> IF m = N THEN OnPort(port)' ELSE StageCell(m, port)']
           cells == PortCells(port)
           held == Joined(N, cells)
           left == Joined(N, after)[N]
           valid == PortValid(port)
           word == PortWord(port)
           ready == PortReady(port)
           coming == Entering(0, port)
           rest == Row(held[N - 1], coming)
           offered == Row(held[N], coming)
<1>1. N \in Nat /\ N >= 1 /\ N - 1 \in 0 .. N /\ N \in 0 .. N /\ N \in 1 .. N
  BY PortFacts
<1>2. /\ Row(held[N], coming) = Row(PortOut(port), left)
      /\ after \in [0 .. N -> Seq(S)]
      /\ cells \in [0 .. N -> Seq(S)]
  <2> HIDE DEF after, N
  <2>1. /\ N = StageFor(port) + 1
        /\ after = [m \in 0 .. N |-> IF m = N THEN OnPort(port)' ELSE StageCell(m, port)']
    BY DEF after, N
  <2> QED
    BY <2>1, PortWayConveys
<1>3. Demux!Contents(port) = held[N] /\ Demux!Contents(port)' = left
  <2> HIDE DEF after
  <2>1. /\ N = StageFor(port) + 1
        /\ after = [m \in 0 .. N |-> IF m = N THEN OnPort(port)' ELSE StageCell(m, port)']
    BY DEF after
  <2> QED
    BY <2>1, PortContents, PortContentsNext
<1>4. Len(left) <= 2 * Demux!DEMUXES
  <2> HIDE DEF after, N
  <2>1. /\ N = StageFor(port) + 1
        /\ after = [m \in 0 .. N |-> IF m = N THEN OnPort(port)' ELSE StageCell(m, port)']
    BY DEF after, N
  <2> QED
    BY <1>2, <2>1, PortRoom
<1>5. coming \in Seq(S)
  BY PortPlaces, StageNumbers
<1>6. /\ valid => word \in S /\ For(port, word)
      /\ valid \in BOOLEAN /\ ready \in BOOLEAN
      /\ valid /\ ~ready => PortValid(port)' /\ PortWord(port)' = word
  BY PortShows
<1>7. OnPort(port) = One(valid, word) /\ PortOut(port) = One(valid /\ ready, word)
  BY <1>6 DEF OnPort, PortOut, One
<1>8. cells[N] = One(valid, word)
  <2>1. cells[N] = OnPort(port)
    BY <1>1 DEF PortCells
  <2> QED
    BY <1>7, <2>1
<1>9. /\ held[N] \in Seq(S) /\ held[N - 1] \in Seq(S) /\ left \in Seq(S)
      /\ held[N] = Row(cells[N], held[N - 1])
  <2> HIDE DEF S, after, N, cells
  <2>1. \A m \in 0 .. N : held[m] \in Seq(S) /\ Joined(N, after)[m] \in Seq(S)
    BY <1>1, <1>2, JoinedSeq
  <2>2. held[N] = Row(cells[N], held[N - 1])
    BY <1>1, Joins
  <2> QED
    BY <1>1, <2>1, <2>2
<1>10. One(valid, word) \in Seq(S)
  <2> HIDE DEF valid, word, S
  <2> QED
    BY <1>6, OneTyped
<1>11. valid => One(valid, word) = <<word>>
  BY DEF One
<1>12. Demux!Fifo(port)!Offered = offered
  <2>1. 0 \in Demux!Stages /\ 0 # Demux!DEMUXES
    BY StageNumbers
  <2>2. Demux!Ready(0) = demux_buffer_tready[0]
    BY <2>1 DEF Demux!Ready
  <2>3. Demux!Valid(0) = demux_rx_tvalid /\ Demux!Word(0) = rx_tdata
    BY DEF Demux!Valid, Demux!Word
  <2>4. Demux!Fifo(port)!Accepted = coming
    BY <2>2, <2>3 DEF Demux!Fifo!Accepted, Entering, For, One
  <2> HIDE DEF held, coming
  <2> QED
    BY <1>3, <2>4 DEF Demux!Fifo!Offered, Row
<1>13. demux_areset_n /\ demux_areset_n'
  BY DEF Demux!Clock
<1>14. /\ (IF port = OUTPUTS THEN next_tvalid[Demux!DEMUXES - 1] ELSE tx_tvalid[port]) = valid
       /\ (IF port = OUTPUTS THEN next_tdata[Demux!DEMUXES - 1] ELSE tx_tdata[port]) = word
       /\ (IF port = OUTPUTS THEN Demux!Ready(Demux!DEMUXES) ELSE demux_tx_tready[port]) = ready
       /\ (IF port = OUTPUTS THEN next_tvalid[Demux!DEMUXES - 1] ELSE tx_tvalid[port])'
            = PortValid(port)'
       /\ (IF port = OUTPUTS THEN next_tdata[Demux!DEMUXES - 1] ELSE tx_tdata[port])'
            = PortWord(port)'
  BY DEF PortValid, PortWord, PortReady
<1> HIDE DEF S, after, N, cells, held, left, valid, word, ready, coming
<1>15. offered = Row(One(valid, word), rest) /\ rest \in Seq(S) /\ offered \in Seq(S)
  <2>1. offered = Row(Row(One(valid, word), held[N - 1]), coming)
    BY <1>8, <1>9
  <2>2. Row(Row(One(valid, word), held[N - 1]), coming) = Row(One(valid, word), rest)
    BY <1>5, <1>9, <1>10, RowAssociative
  <2>3. rest \in Seq(S) /\ offered \in Seq(S)
    BY <1>5, <1>9, RowSeq
  <2> QED
    BY <2>1, <2>2, <2>3
<1>16. offered = Row(One(valid /\ ready, word), left)
  BY <1>2, <1>7
<1> HIDE DEF rest, offered
<1>17. /\ valid => offered # <<>> /\ word = Head(offered)
       /\ left = IF valid /\ ready THEN Tail(offered) ELSE offered
  <2>1. CASE valid
    <3>1. FrontMoves(S, word, valid, ready, rest, left, offered)
      BY <1>6, <1>9, <1>15, <1>16, <2>1 DEF FrontMoves
    <3> QED
      BY <3>1, FrontDelivers
  <2>2. CASE ~valid
    <3>1. One(valid /\ ready, word) = <<>>
      BY <2>2 DEF One
    <3>2. left = offered
      BY <1>9, <1>16, <3>1, RowEmpty
    <3> QED
      BY <2>2, <3>2
  <2> QED
    BY <1>6, <2>1, <2>2
<1>18. /\ Demux!Contents(port)' = IF valid /\ ready THEN Tail(offered) ELSE offered
       /\ Len(Demux!Contents(port)') <= 2 * Demux!DEMUXES
  BY <1>3, <1>4, <1>17
<1> QED
  BY <1>6, <1>12, <1>13, <1>14, <1>17, <1>18
     DEF Demux!Fifo!Transfer, Demux!Fifo!Delivered

\* Stages without words.
LEMMA NothingInDemux ==
    (/\ \A n \in Demux!Stages : ~Waits(n) /\ ~next_tvalid[n]
     /\ \A k \in Demux!Outputs : ~tx_tvalid[k])
        => \A port \in Ports : Demux!Contents(port) = <<>> /\ ~PortValid(port)
<1> SUFFICES ASSUME \A n \in Demux!Stages : ~Waits(n) /\ ~next_tvalid[n],
                    \A k \in Demux!Outputs : ~tx_tvalid[k],
                    NEW port \in Ports
             PROVE  Demux!Contents(port) = <<>> /\ ~PortValid(port)
  OBVIOUS
<1> DEFINE N == StageFor(port) + 1
           cells == PortCells(port)
<1>1. N \in Nat /\ N \in 0 .. N /\ \A m \in 0 .. N : m # N => m \in Demux!Stages
  BY PortFacts, StageNumbers
<1>2. Row(<<>>, <<>>) = <<>>
  <2>1. <<>> \in Seq({0})
    OBVIOUS
  <2> QED
    BY <2>1, RowEmpty
<1>3. ~PortValid(port)
  <2>1. Demux!DEMUXES - 1 \in Demux!Stages
    BY StageNumbers
  <2> QED
    BY <2>1 DEF PortValid, Ports
<1>4. OnPort(port) = <<>>
  BY <1>3 DEF OnPort, One
<1>5. ASSUME NEW m \in 0 .. N PROVE cells[m] = <<>>
  <2>1. CASE m = N
    BY <1>4, <2>1 DEF PortCells
  <2>2. CASE m # N
    <3>1. m \in Demux!Stages /\ (m # 0 => m - 1 \in Demux!Stages)
      BY <1>1, <2>2, StageNumbers
    <3>2. cells[m] = Row(StageSkid(m, port), StageIn(m, port))
      BY <2>2 DEF PortCells, StageCell
    <3>3. StageSkid(m, port) = <<>>
      BY <3>1 DEF StageSkid, One
    <3>4. StageIn(m, port) = <<>>
      BY <3>1 DEF StageIn, One, Demux!Valid
    <3> QED
      BY <1>2, <3>2, <3>3, <3>4
  <2> QED
    BY <2>1, <2>2
<1> HIDE DEF N, cells
<1>6. Joined(N, cells)[N] = <<>>
  BY <1>1, <1>5, JoinedEmpty
<1> QED
  BY <1>3, <1>6, PortContents DEF N, cells

\* After power-up there is nothing in the stages.
LEMMA DemuxFifoInit == Demux!Init => Demux!FifoInit
<1> SUFFICES ASSUME Demux!Init, NEW port \in Demux!Outputs \cup {OUTPUTS}
             PROVE  Demux!Fifo(port)!Init
  BY DEF Demux!FifoInit
<1>1. port \in Ports
  BY DEF Ports
<1>2. /\ \A n \in Demux!Stages : ~Waits(n) /\ ~next_tvalid[n]
      /\ \A k \in Demux!Outputs : ~tx_tvalid[k]
  BY DEF Demux!Init, Waits
<1>3. Demux!Contents(port) = <<>> /\ ~PortValid(port)
  BY <1>1, <1>2, NothingInDemux
<1>4. ~Demux!Ready(0)
  <2>1. 0 \in Demux!Stages /\ 0 # Demux!DEMUXES
    BY StageNumbers
  <2> QED
    BY <2>1 DEF Demux!Init, Demux!Ready
<1> QED
  BY <1>3, <1>4 DEF Demux!Fifo!Init, Demux!Fifo!Quiet, Demux!Init, PortValid

\* The same after a step.
LEMMA NothingInDemuxNext ==
    ((/\ \A n \in Demux!Stages : ~Waits(n) /\ ~next_tvalid[n]
      /\ \A k \in Demux!Outputs : ~tx_tvalid[k])
         => \A port \in Ports : Demux!Contents(port) = <<>> /\ ~PortValid(port))'
BY NothingInDemux, PTL

\* A reset empties the stages.
LEMMA DemuxFifoReset == Demux!Reset => \A port \in Ports : Demux!Fifo(port)!Reset
<1> SUFFICES ASSUME Demux!Reset, NEW port \in Ports PROVE Demux!Fifo(port)!Reset
  OBVIOUS
<1>1. /\ \A n \in Demux!Stages : ~Waits(n)' /\ ~next_tvalid'[n]
      /\ \A k \in Demux!Outputs : ~tx_tvalid'[k]
  BY DEF Demux!Reset, Waits
<1>2. Demux!Contents(port)' = <<>> /\ ~PortValid(port)'
  BY <1>1, NothingInDemuxNext
<1>3. ~Demux!Ready(0)'
  <2>1. 0 \in Demux!Stages /\ 0 # Demux!DEMUXES
    BY StageNumbers
  <2> QED
    BY <2>1 DEF Demux!Reset, Demux!Ready
<1> QED
  BY <1>2, <1>3 DEF Demux!Fifo!Reset, Demux!Fifo!Quiet, Demux!Reset, PortValid

\* The words for a port change only when a register does.
LEMMA DemuxContentsStill ==
    UNCHANGED <<demux_buffer_state, demux_buffered, next_tvalid, next_tdata,
                tx_tvalid, tx_tdata>>
        => \A port : Demux!Contents(port)' = Demux!Contents(port)
BY DEF Demux!Contents, Demux!OnWay

\* The release of the reset moves nothing.
LEMMA DemuxFifoRelease ==
    Demux!Release => \A port \in Ports : Demux!Fifo(port)!Release
<1> SUFFICES ASSUME Demux!Release, NEW port \in Ports PROVE Demux!Fifo(port)!Release
  OBVIOUS
<1>1. UNCHANGED <<demux_buffer_state, demux_buffer_tready, demux_buffered, next_tvalid,
                  next_tdata, tx_tvalid, tx_tdata, demux_tx_tready, drop_tready>>
  BY DEF Demux!Release, Demux!registers, Demux!dataRegisters
<1>2. Demux!Contents(port)' = Demux!Contents(port)
  BY <1>1, DemuxContentsStill
<1>3. Demux!Ready(0)' = Demux!Ready(0)
  BY <1>1 DEF Demux!Ready
<1>4. ~demux_areset_n /\ demux_areset_n'
  BY DEF Demux!Release
<1> QED
  BY <1>1, <1>2, <1>3, <1>4 DEF Demux!Fifo!Release

\* Nothing moves when the demultiplexer does not.
LEMMA DemuxFifoStill ==
    UNCHANGED Demux!vars => \A port \in Ports : UNCHANGED Demux!Fifo(port)!vars
<1> SUFFICES ASSUME UNCHANGED Demux!vars, NEW port \in Ports
             PROVE  UNCHANGED Demux!Fifo(port)!vars
  OBVIOUS
<1>1. UNCHANGED <<demux_areset_n, demux_rx_tvalid, rx_tdata,
                  demux_buffer_state, demux_buffer_tready, demux_buffered, next_tvalid,
                  next_tdata, tx_tvalid, tx_tdata, demux_tx_tready, drop_tready>>
  BY DEF Demux!vars, Demux!registers, Demux!dataRegisters
<1>2. Demux!Contents(port)' = Demux!Contents(port)
  BY <1>1, DemuxContentsStill
<1>3. Demux!Ready(0)' = Demux!Ready(0) /\ Demux!Ready(Demux!DEMUXES)' = Demux!Ready(Demux!DEMUXES)
  BY <1>1 DEF Demux!Ready
<1> QED
  BY <1>1, <1>2, <1>3 DEF Demux!Fifo!vars

\* Every step of the demultiplexer is one of the FIFO of each port.
LEMMA DemuxFifoStep ==
    DemuxInv /\ DemuxInv' /\ (Demux!Next \/ UNCHANGED Demux!vars) => Demux!FifoStep
<1> SUFFICES ASSUME DemuxInv, DemuxInv', Demux!Next \/ UNCHANGED Demux!vars,
                    NEW port \in Demux!Outputs \cup {OUTPUTS}
             PROVE  Demux!Fifo(port)!Next \/ UNCHANGED Demux!Fifo(port)!vars
  BY DEF Demux!FifoStep
<1>0. port \in Ports
  BY DEF Ports
<1>1. CASE Demux!Clock
  BY <1>0, <1>1, DemuxTransfer DEF Demux!Fifo!Next
<1>2. CASE Demux!Reset
  BY <1>0, <1>2, DemuxFifoReset DEF Demux!Fifo!Next
<1>3. CASE Demux!Release
  BY <1>0, <1>3, DemuxFifoRelease DEF Demux!Fifo!Next
<1>4. CASE UNCHANGED Demux!vars
  BY <1>0, <1>4, DemuxFifoStill
<1> QED
  BY <1>1, <1>2, <1>3, <1>4 DEF Demux!Next

(***************************************************************************)
(* To each of its inputs the multiplexer, and to each of its ports the     *)
(* demultiplexer, is a FIFO: the words of an input come out of the tree,   *)
(* and those of an identifier on its port, once, in their order, and a     *)
(* word on Tx stays until it is taken.  For trees of any depth, any number *)
(* and grouping of the outputs, with the extra port or the drop.           *)
(***************************************************************************)
THEOREM RoutesAsFifo == RoutingSpec => RoutesFifo
<1> DEFINE v == <<block, mcVars, demuxVars>>
           Step == IF block = "mux" THEN FifoStep ELSE Demux!FifoStep
<1>1. RoutingInit => FifoInit /\ Demux!FifoInit /\ WayInv /\ DemuxInv
  BY MuxFifoInit, DemuxFifoInit, DemuxBegins DEF RoutingInit
<1>2. WayInv /\ [RoutingNext]_v => WayInv'
  BY WayNext
<1>3. DemuxInv /\ [RoutingNext]_v => DemuxInv'
  BY DemuxNext
<1>4. WayInv /\ WayInv' /\ DemuxInv /\ DemuxInv' /\ [RoutingNext]_v
         => [Step]_<<vars, demuxVars>>
  <2> SUFFICES ASSUME WayInv, WayInv', DemuxInv, DemuxInv', [RoutingNext]_v
               PROVE  Step \/ UNCHANGED <<vars, demuxVars>>
    OBVIOUS
  <2>1. CASE UNCHANGED v
    BY <2>1 DEF mcVars
  <2>2. CASE block = "mux" /\ MCNext
    <3>1. Next \/ UNCHANGED vars
      BY <2>2 DEF MCNext
    <3> QED
      BY <2>2, <3>1, MuxFifoStep
  <2>3. CASE block = "demux" /\ Demux!Next
    BY <2>3, DemuxFifoStep
  <2> QED
    BY <2>1, <2>2, <2>3 DEF RoutingNext
<1> QED
  BY <1>1, <1>2, <1>3, <1>4, PTL DEF RoutingSpec, RoutesFifo

-----------------------------------------------------------------------------
\* The extractor and the splitter behind it.

OutputFor(word) == Extract!Output(word)

ExtractWaits == extract_buffer_state = "BUFFERED"

SplitWaits == split_buffer_state = "BUFFERED"

\* Whether an output of the extractor is ready.
OutputReady(k) == IF k = 0 THEN pass_tready ELSE mirror_tready

(***************************************************************************)
(* The inductive invariant: a skid buffer that keeps a word takes no       *)
(* other, and a word on an output of the extractor is for this output.     *)
(***************************************************************************)
DistributorInv ==
    /\ dist_rx_tvalid \in BOOLEAN /\ dist_rx_tready \in BOOLEAN
    /\ pass_tready \in BOOLEAN /\ mirror_tready \in BOOLEAN
    /\ copy_tready \in [Copies -> BOOLEAN]
    /\ extract_buffer_state \in {"IDLE", "BUFFERED"}
    /\ split_buffer_state \in {"IDLE", "BUFFERED"}
    /\ dist_rx_tvalid => dist_rx_tdata \in DISTRIBUTED
    /\ ExtractWaits => ~dist_rx_tready /\ extract_buffered \in DISTRIBUTED
    /\ SplitWaits => ~mirror_tready /\ split_buffered \in DISTRIBUTED
    /\ \A k \in {0, 1} :
          /\ extract_tvalid[k] \in BOOLEAN
          /\ extract_tvalid[k] =>
                extract_tdata[k] \in DISTRIBUTED /\ OutputFor(extract_tdata[k]) = k
    /\ \A k \in Copies :
          /\ copy_tvalid[k] \in BOOLEAN
          /\ copy_tvalid[k] => copy_tdata[k] \in DISTRIBUTED

\* What the skid buffers offer to the units.
LEMMA UnitsOffered ==
    ASSUME DistributorInv
    PROVE  /\ Extract!buffered_tvalid <=>
                 ExtractWaits \/ (dist_rx_tvalid /\ dist_rx_tready)
           /\ Extract!buffered_tdata =
                 IF ExtractWaits THEN extract_buffered ELSE dist_rx_tdata
           /\ Extract!buffered_tready <=>
                 \/ ~Extract!buffered_tvalid
                 \/ OutputReady(OutputFor(Extract!buffered_tdata))
           /\ Split!buffered_tvalid <=>
                 SplitWaits \/ (extract_tvalid[1] /\ mirror_tready)
           /\ Split!buffered_tdata =
                 IF SplitWaits THEN split_buffered ELSE extract_tdata[1]
           /\ Split!buffered_tready <=>
                 \/ ~Split!buffered_tvalid
                 \/ \A k \in Copies : copy_tready[k]
<1>1. extract_buffer_state \in {"IDLE", "BUFFERED"} /\ split_buffer_state \in {"IDLE", "BUFFERED"}
  BY DEF DistributorInv
<1>2. \A word : OutputFor(word) \in {0, 1}
  BY DEF OutputFor, Extract!Output
<1>3. Extract!buffered_tready <=>
         \/ ~Extract!buffered_tvalid
         \/ OutputReady(OutputFor(Extract!buffered_tdata))
  BY <1>2 DEF Extract!buffered_tready, OutputReady, OutputFor
<1>4. Split!buffered_tready <=>
         \/ ~Split!buffered_tvalid
         \/ \A k \in Copies : copy_tready[k]
  BY DEF Split!buffered_tready, Split!Outputs, Copies
<1>5. /\ Extract!buffered_tvalid <=>
            ExtractWaits \/ (dist_rx_tvalid /\ dist_rx_tready)
      /\ Split!buffered_tvalid <=>
            SplitWaits \/ (extract_tvalid[1] /\ mirror_tready)
  BY DEF Extract!buffered_tvalid, Split!buffered_tvalid,
         ExtractWaits, SplitWaits
<1>6. /\ Extract!buffered_tdata =
            IF ExtractWaits THEN extract_buffered ELSE dist_rx_tdata
      /\ Split!buffered_tdata =
            IF SplitWaits THEN split_buffered ELSE extract_tdata[1]
  BY <1>1 DEF Extract!buffered_tdata, Split!buffered_tdata,
              ExtractWaits, SplitWaits
<1> QED
  BY <1>3, <1>4, <1>5, <1>6

\* What a clock does to the registers.
LEMMA DistributorRegisters ==
    ASSUME DistributorInv, DistributorClock
    PROVE  /\ extract_buffer_state' =
                 CASE ~ExtractWaits /\ dist_rx_tvalid /\ dist_rx_tready
                         /\ ~Extract!buffered_tready -> "BUFFERED"
                   [] ExtractWaits /\ Extract!buffered_tready -> "IDLE"
                   [] OTHER -> extract_buffer_state
           /\ dist_rx_tready' = Extract!buffered_tready
           /\ extract_buffered' = IF dist_rx_tready THEN dist_rx_tdata ELSE extract_buffered
           /\ \A k \in {0, 1} :
                 /\ extract_tvalid'[k] =
                       IF OutputReady(k)
                       THEN /\ Extract!buffered_tvalid
                            /\ OutputFor(Extract!buffered_tdata) = k
                       ELSE extract_tvalid[k]
                 /\ extract_tdata'[k] = IF OutputReady(k) THEN Extract!buffered_tdata
                                                          ELSE extract_tdata[k]
           /\ split_buffer_state' =
                 CASE ~SplitWaits /\ extract_tvalid[1] /\ mirror_tready
                         /\ ~Split!buffered_tready -> "BUFFERED"
                   [] SplitWaits /\ Split!buffered_tready -> "IDLE"
                   [] OTHER -> split_buffer_state
           /\ mirror_tready' = Split!buffered_tready
           /\ split_buffered' = IF mirror_tready THEN extract_tdata[1] ELSE split_buffered
           /\ \A k \in Copies :
                 /\ copy_tvalid'[k] =
                       IF copy_tready[k]
                       THEN Split!buffered_tvalid /\ Split!buffered_tready
                       ELSE copy_tvalid[k]
                 /\ copy_tdata'[k] = IF copy_tready[k] THEN Split!buffered_tdata
                                                       ELSE copy_tdata[k]
<1>1. /\ extract_buffer_state = "IDLE" <=> ~ExtractWaits
      /\ split_buffer_state = "IDLE" <=> ~SplitWaits
  BY DEF DistributorInv, ExtractWaits, SplitWaits
<1>2. /\ extract_buffer_state' =
            CASE ~ExtractWaits /\ dist_rx_tvalid /\ dist_rx_tready
                    /\ ~Extract!buffered_tready -> "BUFFERED"
              [] ExtractWaits /\ Extract!buffered_tready -> "IDLE"
              [] OTHER -> extract_buffer_state
      /\ dist_rx_tready' = Extract!buffered_tready
      /\ extract_buffered' = IF dist_rx_tready THEN dist_rx_tdata ELSE extract_buffered
  BY <1>1 DEF DistributorClock, Extract!ClockRegisters,
              Extract!Buffer!FsmState, Extract!Buffer!RxReady,
              Extract!Buffer!Buffered, ExtractWaits
<1>3. /\ split_buffer_state' =
            CASE ~SplitWaits /\ extract_tvalid[1] /\ mirror_tready
                    /\ ~Split!buffered_tready -> "BUFFERED"
              [] SplitWaits /\ Split!buffered_tready -> "IDLE"
              [] OTHER -> split_buffer_state
      /\ mirror_tready' = Split!buffered_tready
      /\ split_buffered' = IF mirror_tready THEN extract_tdata[1] ELSE split_buffered
  BY <1>1 DEF DistributorClock, Split!ClockRegisters,
              Split!Buffer!FsmState, Split!Buffer!RxReady,
              Split!Buffer!Buffered, SplitWaits
<1>4. ASSUME NEW k \in {0, 1}
      PROVE  /\ extract_tvalid'[k] =
                   IF OutputReady(k)
                   THEN /\ Extract!buffered_tvalid
                        /\ OutputFor(Extract!buffered_tdata) = k
                   ELSE extract_tvalid[k]
             /\ extract_tdata'[k] = IF OutputReady(k) THEN Extract!buffered_tdata
                                                      ELSE extract_tdata[k]
  BY DEF DistributorClock, Extract!ClockRegisters, Extract!Tx,
         Extract!Outputs, OutputReady, OutputFor
<1>5. ASSUME NEW k \in Copies
      PROVE  /\ copy_tvalid'[k] =
                   IF copy_tready[k]
                   THEN Split!buffered_tvalid /\ Split!buffered_tready
                   ELSE copy_tvalid[k]
             /\ copy_tdata'[k] = IF copy_tready[k] THEN Split!buffered_tdata
                                                   ELSE copy_tdata[k]
  BY DEF DistributorClock, Split!ClockRegisters, Split!Tx,
         Split!Outputs, Copies
<1> QED
  BY <1>2, <1>3, <1>4, <1>5

\* The invariant holds at first.
LEMMA DistributorBegins == DistributorInit => DistributorInv
<1> SUFFICES ASSUME DistributorInit PROVE DistributorInv
  OBVIOUS
<1>1. /\ ~ExtractWaits /\ ~SplitWaits
      /\ extract_buffer_state = "IDLE" /\ split_buffer_state = "IDLE"
      /\ dist_rx_tready = FALSE /\ mirror_tready = FALSE
      /\ \A k \in {0, 1} : extract_tvalid[k] = FALSE
      /\ \A k \in Copies : copy_tvalid[k] = FALSE
  BY DEF DistributorInit, Extract!Init, Split!Init, ExtractWaits,
         SplitWaits, Extract!Outputs, Split!Outputs, Copies
<1> QED
  BY <1>1 DEF DistributorInv, DistributorInit

\* Only words reach the units.
LEMMA UnitsTyped ==
    ASSUME DistributorInv
    PROVE  /\ Extract!buffered_tvalid \in BOOLEAN
           /\ Extract!buffered_tready \in BOOLEAN
           /\ Split!buffered_tvalid \in BOOLEAN
           /\ Split!buffered_tready \in BOOLEAN
           /\ Extract!buffered_tvalid =>
                 Extract!buffered_tdata \in DISTRIBUTED
           /\ Split!buffered_tvalid =>
                 Split!buffered_tdata \in DISTRIBUTED
<1>1. /\ Extract!buffered_tvalid =>
            Extract!buffered_tdata \in DISTRIBUTED
      /\ Split!buffered_tvalid =>
            Split!buffered_tdata \in DISTRIBUTED
  BY UnitsOffered DEF DistributorInv
<1>2. /\ Extract!buffered_tvalid \in BOOLEAN
      /\ Split!buffered_tvalid \in BOOLEAN
  BY DEF Extract!buffered_tvalid, Split!buffered_tvalid, DistributorInv
<1>3. Split!buffered_tready \in BOOLEAN
  BY DEF Split!buffered_tready
<1>4. Extract!buffered_tready \in BOOLEAN
  <2>1. \A word : OutputFor(word) \in {0, 1}
    BY DEF OutputFor, Extract!Output
  <2>2. \A k \in {0, 1} : OutputReady(k) \in BOOLEAN
    BY DEF OutputReady, DistributorInv
  <2> QED
    BY <2>1, <2>2 DEF Extract!buffered_tready, OutputReady, OutputFor
<1> QED
  BY <1>1, <1>2, <1>3, <1>4

\* A clock keeps the invariant.
LEMMA DistributorInvClock ==
    ASSUME DistributorInv, DistributorClock
    PROVE  DistributorInv'
<1> DEFINE ev == Extract!buffered_tvalid
           er == Extract!buffered_tready
           ed == Extract!buffered_tdata
           sv == Split!buffered_tvalid
           sr == Split!buffered_tready
           sd == Split!buffered_tdata
<1>1. /\ ev \in BOOLEAN /\ er \in BOOLEAN /\ sv \in BOOLEAN /\ sr \in BOOLEAN
      /\ ev => ed \in DISTRIBUTED
      /\ sv => sd \in DISTRIBUTED
  BY UnitsTyped
<1>2. /\ ev <=> ExtractWaits \/ (dist_rx_tvalid /\ dist_rx_tready)
      /\ sv <=> SplitWaits \/ (extract_tvalid[1] /\ mirror_tready)
  BY UnitsOffered
<1>3. /\ extract_buffer_state' = CASE ~ExtractWaits /\ dist_rx_tvalid /\ dist_rx_tready
                                         /\ ~er -> "BUFFERED"
                                   [] ExtractWaits /\ er -> "IDLE"
                                   [] OTHER -> extract_buffer_state
      /\ dist_rx_tready' = er
      /\ extract_buffered' = IF dist_rx_tready THEN dist_rx_tdata ELSE extract_buffered
      /\ \A k \in {0, 1} :
            /\ extract_tvalid'[k] = IF OutputReady(k) THEN ev /\ OutputFor(ed) = k
                                                      ELSE extract_tvalid[k]
            /\ extract_tdata'[k] = IF OutputReady(k) THEN ed ELSE extract_tdata[k]
      /\ split_buffer_state' = CASE ~SplitWaits /\ extract_tvalid[1] /\ mirror_tready
                                       /\ ~sr -> "BUFFERED"
                                 [] SplitWaits /\ sr -> "IDLE"
                                 [] OTHER -> split_buffer_state
      /\ mirror_tready' = sr
      /\ split_buffered' = IF mirror_tready THEN extract_tdata[1] ELSE split_buffered
      /\ \A k \in Copies :
            /\ copy_tvalid'[k] = IF copy_tready[k] THEN sv /\ sr ELSE copy_tvalid[k]
            /\ copy_tdata'[k] = IF copy_tready[k] THEN sd ELSE copy_tdata[k]
  BY DistributorRegisters
<1> HIDE DEF ev, er, ed, sv, sr, sd
<1>4. /\ dist_rx_tvalid' \in BOOLEAN
      /\ dist_rx_tvalid' => dist_rx_tdata' \in DISTRIBUTED
      /\ pass_tready' \in BOOLEAN /\ copy_tready' \in [Copies -> BOOLEAN]
  BY DEF DistributorClock, DistributorDrive, DistributorInv
<1>5. /\ extract_buffer_state' \in {"IDLE", "BUFFERED"}
      /\ split_buffer_state' \in {"IDLE", "BUFFERED"}
      /\ ExtractWaits' <=> (ExtractWaits \/ (dist_rx_tvalid /\ dist_rx_tready)) /\ ~er
      /\ SplitWaits' <=> (SplitWaits \/ (extract_tvalid[1] /\ mirror_tready)) /\ ~sr
  <2>1. \/ extract_buffer_state = "IDLE" /\ ~ExtractWaits
        \/ extract_buffer_state = "BUFFERED" /\ ExtractWaits
    BY DEF DistributorInv, ExtractWaits
  <2>2. \/ split_buffer_state = "IDLE" /\ ~SplitWaits
        \/ split_buffer_state = "BUFFERED" /\ SplitWaits
    BY DEF DistributorInv, SplitWaits
  <2>3. (ExtractWaits' <=> extract_buffer_state' = "BUFFERED")
        /\ (SplitWaits' <=> split_buffer_state' = "BUFFERED")
    BY DEF ExtractWaits, SplitWaits
  <2>4. /\ extract_buffer_state' \in {"IDLE", "BUFFERED"}
        /\ extract_buffer_state' = "BUFFERED"
              <=> (ExtractWaits \/ (dist_rx_tvalid /\ dist_rx_tready)) /\ ~er
    BY <1>1, <1>3, <2>1 DEF DistributorInv
  <2>5. /\ split_buffer_state' \in {"IDLE", "BUFFERED"}
        /\ split_buffer_state' = "BUFFERED"
              <=> (SplitWaits \/ (extract_tvalid[1] /\ mirror_tready)) /\ ~sr
    BY <1>1, <1>3, <2>2 DEF DistributorInv
  <2> QED
    BY <2>3, <2>4, <2>5
<1>6. ExtractWaits' => ~dist_rx_tready' /\ extract_buffered' \in DISTRIBUTED
  BY <1>1, <1>3, <1>5 DEF DistributorInv
<1>7. SplitWaits' => ~mirror_tready' /\ split_buffered' \in DISTRIBUTED
  <2>1. extract_tvalid[1] => extract_tdata[1] \in DISTRIBUTED
    BY DEF DistributorInv
  <2> QED
    BY <1>1, <1>3, <1>5, <2>1 DEF DistributorInv
<1>8. ASSUME NEW k \in {0, 1}
      PROVE  /\ extract_tvalid'[k] \in BOOLEAN
             /\ extract_tvalid'[k] =>
                   extract_tdata'[k] \in DISTRIBUTED /\ OutputFor(extract_tdata'[k]) = k
  <2>1. /\ extract_tvalid[k] \in BOOLEAN
        /\ extract_tvalid[k] =>
              extract_tdata[k] \in DISTRIBUTED /\ OutputFor(extract_tdata[k]) = k
    BY DEF DistributorInv
  <2>2. /\ extract_tvalid'[k] = IF OutputReady(k) THEN ev /\ OutputFor(ed) = k
                                                  ELSE extract_tvalid[k]
        /\ extract_tdata'[k] = IF OutputReady(k) THEN ed ELSE extract_tdata[k]
    BY <1>3
  <2> QED
    BY <1>1, <2>1, <2>2
<1>9. ASSUME NEW k \in Copies
      PROVE  /\ copy_tvalid'[k] \in BOOLEAN
             /\ copy_tvalid'[k] => copy_tdata'[k] \in DISTRIBUTED
  <2>1. copy_tvalid[k] \in BOOLEAN /\ (copy_tvalid[k] => copy_tdata[k] \in DISTRIBUTED)
    BY DEF DistributorInv
  <2>2. /\ copy_tvalid'[k] = IF copy_tready[k] THEN sv /\ sr ELSE copy_tvalid[k]
        /\ copy_tdata'[k] = IF copy_tready[k] THEN sd ELSE copy_tdata[k]
    BY <1>3
  <2> QED
    BY <1>1, <2>1, <2>2
<1>10. dist_rx_tready' \in BOOLEAN /\ mirror_tready' \in BOOLEAN
  BY <1>1, <1>3 DEF DistributorInv
<1> QED
  BY <1>4, <1>5, <1>6, <1>7, <1>8, <1>9, <1>10
  DEF DistributorInv, OutputFor, Extract!Output, Extract!Extracted,
      Copies

\* So do the edges of the reset.
LEMMA DistributorInvReset ==
    ASSUME DistributorInv, DistributorReset \/ DistributorRelease \/ UNCHANGED distributorVars
    PROVE  DistributorInv'
<1>1. CASE DistributorReset
  <2>1. /\ ~ExtractWaits' /\ ~SplitWaits'
        /\ extract_buffer_state' = "IDLE" /\ split_buffer_state' = "IDLE"
        /\ dist_rx_tready' = FALSE /\ mirror_tready' = FALSE
        /\ dist_rx_tvalid' = FALSE /\ pass_tready' = FALSE
        /\ copy_tready' \in [Copies -> BOOLEAN]
        /\ \A k \in {0, 1} : extract_tvalid'[k] = FALSE
        /\ \A k \in Copies : copy_tvalid'[k] = FALSE
    BY <1>1 DEF DistributorReset, Extract!ResetRegisters,
                Split!ResetRegisters, ExtractWaits, SplitWaits,
                Extract!Outputs, Split!Outputs, Copies
  <2> QED
    BY <2>1 DEF DistributorInv, Copies
<1>2. CASE DistributorRelease \/ UNCHANGED distributorVars
  <2>1. UNCHANGED <<dist_rx_tvalid, dist_rx_tdata, dist_rx_tready, pass_tready, copy_tready,
                    extract_buffer_state, extract_buffered, extract_tvalid, extract_tdata,
                    mirror_tready, split_buffer_state, split_buffered, copy_tvalid, copy_tdata>>
    BY <1>2 DEF DistributorRelease, distributorVars, extract, split
  <2> QED
    BY <2>1 DEF DistributorInv, ExtractWaits, SplitWaits, OutputFor, Extract!Output,
                Extract!Extracted, Copies
<1> QED
  BY <1>1, <1>2

\* A step of the distributor keeps the invariant.
LEMMA DistributorInvNext ==
    DistributorInv /\ [DistributorNext]_distributorVars => DistributorInv'
BY DistributorInvClock, DistributorInvReset DEF DistributorNext

-----------------------------------------------------------------------------
\* The words of an output in the registers of the distributor.

\* The words for output k in the skid buffer, and on the port behind the unit.
ExtractSkid(k) == One(ExtractWaits /\ OutputFor(extract_buffered) = k, extract_buffered)

ExtractPort(k) == One(extract_tvalid[k], extract_tdata[k])

SplitSkid == One(SplitWaits, split_buffered)

CopyPort(k) == One(copy_tvalid[k], copy_tdata[k])

\* The words that a clock moves: into the extractor, through its unit, out of it,
\* through the unit of the splitter, and out of that.
ExtractIn(k) ==
    One(dist_rx_tvalid /\ dist_rx_tready /\ OutputFor(dist_rx_tdata) = k, dist_rx_tdata)

ExtractTaken ==
    Extract!buffered_tvalid /\ Extract!buffered_tready

ExtractPassed(k) ==
    One(ExtractTaken /\ OutputFor(Extract!buffered_tdata) = k,
        Extract!buffered_tdata)

ExtractGiven(k) == One(extract_tvalid[k] /\ OutputReady(k), extract_tdata[k])

SplitTaken == Split!buffered_tvalid /\ Split!buffered_tready

SplitPassed == One(SplitTaken, Split!buffered_tdata)

CopyGiven(k) == One(copy_tvalid[k] /\ copy_tready[k], copy_tdata[k])

\* Each place has room for one word.
LEMMA DistributorPlaces ==
    ASSUME DistributorInv
    PROVE  /\ \A k \in {0, 1} :
                 /\ ExtractSkid(k) \in Seq(DISTRIBUTED) /\ Len(ExtractSkid(k)) <= 1
                 /\ ExtractPort(k) \in Seq(DISTRIBUTED) /\ Len(ExtractPort(k)) <= 1
                 /\ {ExtractIn(k), ExtractPassed(k), ExtractGiven(k)} \subseteq Seq(DISTRIBUTED)
           /\ SplitSkid \in Seq(DISTRIBUTED) /\ Len(SplitSkid) <= 1
           /\ SplitPassed \in Seq(DISTRIBUTED)
           /\ \A k \in Copies :
                 /\ CopyPort(k) \in Seq(DISTRIBUTED) /\ Len(CopyPort(k)) <= 1
                 /\ CopyGiven(k) \in Seq(DISTRIBUTED)
<1> DEFINE OfOne(row) == row \in Seq(DISTRIBUTED) /\ Len(row) <= 1
<1>1. ASSUME NEW word, NEW valid \in BOOLEAN, valid => word \in DISTRIBUTED
      PROVE  OfOne(One(valid, word))
  BY <1>1, OneTyped
<1> HIDE DEF OfOne
<1>2. ASSUME NEW k \in {0, 1}
      PROVE  /\ OfOne(ExtractSkid(k)) /\ OfOne(ExtractPort(k))
             /\ OfOne(ExtractIn(k)) /\ OfOne(ExtractPassed(k)) /\ OfOne(ExtractGiven(k))
  <2>1. /\ extract_tvalid[k] \in BOOLEAN /\ OutputReady(k) \in BOOLEAN
        /\ extract_tvalid[k] => extract_tdata[k] \in DISTRIBUTED
    BY DEF DistributorInv, OutputReady
  <2>2. OfOne(ExtractPort(k)) /\ OfOne(ExtractGiven(k))
    BY <1>1, <2>1 DEF ExtractPort, ExtractGiven
  <2>3. OfOne(ExtractSkid(k)) /\ OfOne(ExtractIn(k))
    BY <1>1 DEF ExtractSkid, ExtractIn, DistributorInv, ExtractWaits
  <2>4. OfOne(ExtractPassed(k))
    BY <1>1, UnitsTyped DEF ExtractPassed, ExtractTaken
  <2> QED
    BY <2>2, <2>3, <2>4
<1>3. OfOne(SplitSkid)
  BY <1>1 DEF SplitSkid, DistributorInv, SplitWaits
<1>4. OfOne(SplitPassed)
  BY <1>1, UnitsTyped DEF SplitPassed, SplitTaken
<1>5. ASSUME NEW k \in Copies
      PROVE  OfOne(CopyPort(k)) /\ OfOne(CopyGiven(k))
  <2>1. /\ copy_tvalid[k] \in BOOLEAN /\ copy_tready[k] \in BOOLEAN
        /\ copy_tvalid[k] => copy_tdata[k] \in DISTRIBUTED
    BY DEF DistributorInv
  <2> QED
    BY <1>1, <2>1 DEF CopyPort, CopyGiven
<1> QED
  BY <1>2, <1>3, <1>4, <1>5 DEF OfOne

\* So does it after a clock.
LEMMA DistributorPlacesNext ==
    DistributorInv'
        => (/\ \A k \in {0, 1} :
                  /\ ExtractSkid(k) \in Seq(DISTRIBUTED) /\ Len(ExtractSkid(k)) <= 1
                  /\ ExtractPort(k) \in Seq(DISTRIBUTED) /\ Len(ExtractPort(k)) <= 1
            /\ SplitSkid \in Seq(DISTRIBUTED) /\ Len(SplitSkid) <= 1
            /\ \A k \in Copies :
                  CopyPort(k) \in Seq(DISTRIBUTED) /\ Len(CopyPort(k)) <= 1)'
<1>1. DistributorInv
         => /\ \A k \in {0, 1} :
                  /\ ExtractSkid(k) \in Seq(DISTRIBUTED) /\ Len(ExtractSkid(k)) <= 1
                  /\ ExtractPort(k) \in Seq(DISTRIBUTED) /\ Len(ExtractPort(k)) <= 1
            /\ SplitSkid \in Seq(DISTRIBUTED) /\ Len(SplitSkid) <= 1
            /\ \A k \in Copies :
                  CopyPort(k) \in Seq(DISTRIBUTED) /\ Len(CopyPort(k)) <= 1
  BY DistributorPlaces
<1> QED
  BY <1>1, PTL

\* After a clock a skid buffer keeps the word that its unit did not take.
LEMMA DistributorKept ==
    ASSUME DistributorInv, DistributorClock
    PROVE  /\ ExtractWaits' <=> (ExtractWaits \/ (dist_rx_tvalid /\ dist_rx_tready))
                                   /\ ~ExtractTaken
           /\ SplitWaits' <=> (SplitWaits \/ (extract_tvalid[1] /\ mirror_tready))
                                 /\ ~SplitTaken
<1> DEFINE ev == Extract!buffered_tvalid
           er == Extract!buffered_tready
           sv == Split!buffered_tvalid
           sr == Split!buffered_tready
<1>1. /\ ev \in BOOLEAN /\ er \in BOOLEAN /\ sv \in BOOLEAN /\ sr \in BOOLEAN
  BY UnitsTyped
<1>2. /\ ev <=> ExtractWaits \/ (dist_rx_tvalid /\ dist_rx_tready)
      /\ sv <=> SplitWaits \/ (extract_tvalid[1] /\ mirror_tready)
  BY UnitsOffered
<1>3. /\ extract_buffer_state' = CASE ~ExtractWaits /\ dist_rx_tvalid /\ dist_rx_tready
                                         /\ ~er -> "BUFFERED"
                                   [] ExtractWaits /\ er -> "IDLE"
                                   [] OTHER -> extract_buffer_state
      /\ split_buffer_state' = CASE ~SplitWaits /\ extract_tvalid[1] /\ mirror_tready
                                       /\ ~sr -> "BUFFERED"
                                 [] SplitWaits /\ sr -> "IDLE"
                                 [] OTHER -> split_buffer_state
  BY DistributorRegisters
<1>4. (ExtractTaken <=> ev /\ er) /\ (SplitTaken <=> sv /\ sr)
  BY DEF ExtractTaken, SplitTaken
<1> HIDE DEF ev, er, sv, sr
<1>5. \/ extract_buffer_state = "IDLE" /\ ~ExtractWaits
      \/ extract_buffer_state = "BUFFERED" /\ ExtractWaits
  BY DEF DistributorInv, ExtractWaits
<1>6. \/ split_buffer_state = "IDLE" /\ ~SplitWaits
      \/ split_buffer_state = "BUFFERED" /\ SplitWaits
  BY DEF DistributorInv, SplitWaits
<1>7. (ExtractWaits' <=> extract_buffer_state' = "BUFFERED")
      /\ (SplitWaits' <=> split_buffer_state' = "BUFFERED")
  BY DEF ExtractWaits, SplitWaits
<1>8. extract_buffer_state' = "BUFFERED"
         <=> (ExtractWaits \/ (dist_rx_tvalid /\ dist_rx_tready)) /\ ~(ev /\ er)
  BY <1>1, <1>2, <1>3, <1>5
<1>9. split_buffer_state' = "BUFFERED"
         <=> (SplitWaits \/ (extract_tvalid[1] /\ mirror_tready)) /\ ~(sv /\ sr)
  BY <1>1, <1>2, <1>3, <1>6
<1> QED
  BY <1>4, <1>7, <1>8, <1>9

\* The skid buffer of the extractor.
LEMMA ExtractSkidConveys ==
    ASSUME DistributorInv, DistributorInv', DistributorClock, NEW k \in {0, 1}
    PROVE  Conveys(DISTRIBUTED, ExtractSkid(k), ExtractIn(k), ExtractPassed(k),
                   ExtractSkid(k)')
<1> DEFINE kept == ExtractWaits
           ready == dist_rx_tready
           valid == dist_rx_tvalid
           taken == ExtractTaken
           kept2 == ExtractWaits'
           b == extract_buffered
           mb == OutputFor(extract_buffered) = k
           w == dist_rx_tdata
           mw == OutputFor(dist_rx_tdata) = k
           b2 == extract_buffered'
           mb2 == OutputFor(extract_buffered') = k
           t == Extract!buffered_tdata
           mt == OutputFor(Extract!buffered_tdata) = k
<1>1. {kept, ready, valid, taken, kept2, mb, mw, mb2, mt} \subseteq BOOLEAN
  BY UnitsTyped DEF DistributorInv, ExtractWaits, ExtractTaken
<1>2. /\ kept => ~ready
      /\ taken => kept \/ (valid /\ ready)
      /\ kept2 <=> (kept \/ (valid /\ ready)) /\ ~taken
  BY UnitsOffered, DistributorKept DEF DistributorInv, ExtractTaken
<1>3. /\ b2 = (IF ready THEN w ELSE b) /\ t = (IF kept THEN b ELSE w)
  BY UnitsOffered, DistributorRegisters
<1>4. mb2 = (IF ready THEN mw ELSE mb) /\ mt = (IF kept THEN mb ELSE mw)
  BY <1>3
<1>5. /\ ExtractSkid(k) = One(kept /\ mb, b)
      /\ ExtractIn(k) = One(valid /\ ready /\ mw, w)
      /\ ExtractPassed(k) = One(taken /\ mt, t)
      /\ ExtractSkid(k)' = One(kept2 /\ mb2, b2)
  BY DEF ExtractSkid, ExtractIn, ExtractPassed, One, OutputFor, Extract!Output,
         Extract!Extracted
<1> HIDE DEF kept, ready, valid, taken, kept2, b, mb, w, mw, b2, mb2, t, mt
<1>6. SkidMoves(kept, ready, valid, taken, kept2, b, mb, w, mw, b2, mb2, t, mt)
  BY <1>1, <1>2, <1>3, <1>4 DEF SkidMoves
<1>7. Row(One(kept /\ mb, b), One(valid /\ ready /\ mw, w))
        = Row(One(taken /\ mt, t), One(kept2 /\ mb2, b2))
  BY <1>6, SkidConveys
<1>8. {ExtractSkid(k), ExtractIn(k), ExtractPassed(k), ExtractSkid(k)'} \subseteq Seq(DISTRIBUTED)
  BY DistributorPlaces, DistributorPlacesNext
<1> QED
  BY <1>5, <1>7, <1>8 DEF Conveys

\* The skid buffer of the splitter.
LEMMA SplitSkidConveys ==
    ASSUME DistributorInv, DistributorInv', DistributorClock
    PROVE  Conveys(DISTRIBUTED, SplitSkid, ExtractGiven(1), SplitPassed, SplitSkid')
<1> DEFINE kept == SplitWaits
           ready == mirror_tready
           valid == extract_tvalid[1]
           taken == SplitTaken
           kept2 == SplitWaits'
           b == split_buffered
           w == extract_tdata[1]
           b2 == split_buffered'
           t == Split!buffered_tdata
           all == TRUE
<1>1. {kept, ready, valid, taken, kept2, all} \subseteq BOOLEAN
  <2>1. extract_tvalid[1] \in BOOLEAN
    BY DEF DistributorInv
  <2> QED
    BY <2>1, UnitsTyped DEF DistributorInv, SplitWaits, SplitTaken
<1>2. /\ kept => ~ready
      /\ taken => kept \/ (valid /\ ready)
      /\ kept2 <=> (kept \/ (valid /\ ready)) /\ ~taken
  BY UnitsOffered, DistributorKept DEF DistributorInv, SplitTaken
<1>3. b2 = (IF ready THEN w ELSE b) /\ t = (IF kept THEN b ELSE w)
  BY UnitsOffered, DistributorRegisters
<1>4. /\ SplitSkid = One(kept /\ all, b)
      /\ ExtractGiven(1) = One(valid /\ ready /\ all, w)
      /\ SplitPassed = One(taken /\ all, t)
      /\ SplitSkid' = One(kept2 /\ all, b2)
  BY DEF SplitSkid, ExtractGiven, OutputReady, SplitPassed, One
<1> HIDE DEF kept, ready, valid, taken, kept2, b, w, b2, t, all
<1>5. SkidMoves(kept, ready, valid, taken, kept2, b, all, w, all, b2, all, t, all)
  BY <1>1, <1>2, <1>3 DEF SkidMoves
<1>6. Row(One(kept /\ all, b), One(valid /\ ready /\ all, w))
        = Row(One(taken /\ all, t), One(kept2 /\ all, b2))
  BY <1>5, SkidConveys
<1>7. {SplitSkid, ExtractGiven(1), SplitPassed, SplitSkid'} \subseteq Seq(DISTRIBUTED)
  BY DistributorPlaces, DistributorPlacesNext
<1> QED
  BY <1>4, <1>6, <1>7 DEF Conveys

\* A port of the extractor takes the words for it that pass the unit.
LEMMA ExtractPortConveys ==
    ASSUME DistributorInv, DistributorInv', DistributorClock, NEW k \in {0, 1}
    PROVE  Conveys(DISTRIBUTED, ExtractPort(k), ExtractPassed(k), ExtractGiven(k),
                   ExtractPort(k)')
<1> DEFINE valid == extract_tvalid[k]
           ready == OutputReady(k)
           t == Extract!buffered_tdata
           loads == ExtractTaken /\ OutputFor(t) = k
           valid2 == extract_tvalid'[k]
           w == extract_tdata[k]
           w2 == extract_tdata'[k]
<1>1. valid \in BOOLEAN /\ valid2 \in BOOLEAN
  BY DEF DistributorInv
<1>2. ready \in BOOLEAN /\ loads \in BOOLEAN
  BY UnitsTyped DEF DistributorInv, OutputReady, ExtractTaken
<1>3. loads <=> ready /\ Extract!buffered_tvalid /\ OutputFor(t) = k
  BY UnitsOffered DEF ExtractTaken
<1>4. valid2 = (IF ready THEN loads ELSE valid) /\ w2 = (IF ready THEN t ELSE w)
  <2>1. /\ valid2 = IF ready THEN Extract!buffered_tvalid /\ OutputFor(t) = k
                             ELSE valid
        /\ w2 = IF ready THEN t ELSE w
    BY DistributorRegisters
  <2> QED
    BY <1>1, <1>2, <1>3, <2>1
<1>5. /\ ExtractPort(k) = One(valid, w)
      /\ ExtractPassed(k) = One(loads, t)
      /\ ExtractGiven(k) = One(valid /\ ready, w)
      /\ ExtractPort(k)' = One(valid2, w2)
  BY DEF ExtractPort, ExtractPassed, ExtractGiven, One
<1>6. {ExtractPort(k), ExtractPassed(k), ExtractGiven(k), ExtractPort(k)'} \subseteq Seq(DISTRIBUTED)
  BY DistributorPlaces, DistributorPlacesNext
<1> HIDE DEF valid, ready, t, loads, valid2, w, w2
<1>7. Row(One(valid, w), One(loads, t)) = Row(One(valid /\ ready, w), One(valid2, w2))
  BY <1>1, <1>2, <1>3, <1>4, RegisterConveys
<1> QED
  BY <1>5, <1>6, <1>7 DEF Conveys

\* Each port of the splitter takes every word that passes its unit.
LEMMA CopyPortConveys ==
    ASSUME DistributorInv, DistributorInv', DistributorClock, NEW k \in Copies
    PROVE  Conveys(DISTRIBUTED, CopyPort(k), SplitPassed, CopyGiven(k), CopyPort(k)')
<1> DEFINE valid == copy_tvalid[k]
           ready == copy_tready[k]
           t == Split!buffered_tdata
           loads == SplitTaken
           valid2 == copy_tvalid'[k]
           w == copy_tdata[k]
           w2 == copy_tdata'[k]
<1>1. valid \in BOOLEAN /\ ready \in BOOLEAN /\ valid2 \in BOOLEAN
  BY DEF DistributorInv, Copies
<1>2. loads \in BOOLEAN
  BY UnitsTyped DEF SplitTaken
<1>3. loads => ready
  BY UnitsOffered DEF SplitTaken
<1>4. valid2 = (IF ready THEN loads ELSE valid) /\ w2 = (IF ready THEN t ELSE w)
  BY DistributorRegisters DEF SplitTaken
<1>5. /\ CopyPort(k) = One(valid, w)
      /\ SplitPassed = One(loads, t)
      /\ CopyGiven(k) = One(valid /\ ready, w)
      /\ CopyPort(k)' = One(valid2, w2)
  BY DEF CopyPort, SplitPassed, CopyGiven, One
<1>6. {CopyPort(k), SplitPassed, CopyGiven(k), CopyPort(k)'} \subseteq Seq(DISTRIBUTED)
  BY DistributorPlaces, DistributorPlacesNext
<1> HIDE DEF valid, ready, t, loads, valid2, w, w2
<1>7. Row(One(valid, w), One(loads, t)) = Row(One(valid /\ ready, w), One(valid2, w2))
  BY <1>1, <1>2, <1>3, <1>4, RegisterConveys
<1> QED
  BY <1>5, <1>6, <1>7 DEF Conveys

-----------------------------------------------------------------------------
\* The whole way of a word.

\* The words that the FIFOs of the two kinds of outputs contain.
LEMMA DistributorContents ==
    /\ \A k \in {0, 1} : Extract!Contents(k) = Row(ExtractPort(k), ExtractSkid(k))
    /\ \A k : Split!Contents(k) = Row(CopyPort(k), SplitSkid)
<1>1. ASSUME NEW k \in {0, 1}
      PROVE  Extract!Contents(k) = Row(ExtractPort(k), ExtractSkid(k))
  BY DEF Extract!Contents, ExtractPort, ExtractSkid, ExtractWaits, OutputFor, Row, One
<1>2. ASSUME NEW k PROVE Split!Contents(k) = Row(CopyPort(k), SplitSkid)
  BY DEF Split!Contents, CopyPort, SplitSkid, SplitWaits, Row, One
<1> QED
  BY <1>1, <1>2

\* The same after a step.
LEMMA DistributorContentsNext ==
    (/\ \A k \in {0, 1} : Extract!Contents(k) = Row(ExtractPort(k), ExtractSkid(k))
     /\ \A k : Split!Contents(k) = Row(CopyPort(k), SplitSkid))'
BY DistributorContents, PTL

\* From Rx to a port of the extractor.
LEMMA ExtractConveys ==
    ASSUME DistributorInv, DistributorInv', DistributorClock, NEW k \in {0, 1}
    PROVE  Conveys(DISTRIBUTED, Row(ExtractPort(k), ExtractSkid(k)), ExtractIn(k),
                   ExtractGiven(k), Row(ExtractPort(k)', ExtractSkid(k)'))
BY ExtractSkidConveys, ExtractPortConveys, ConveysOn

\* From the second port of the extractor to a port of the splitter.
LEMMA SplitConveys ==
    ASSUME DistributorInv, DistributorInv', DistributorClock, NEW k \in Copies
    PROVE  Conveys(DISTRIBUTED, Row(CopyPort(k), SplitSkid), ExtractGiven(1),
                   CopyGiven(k), Row(CopyPort(k)', SplitSkid'))
BY SplitSkidConveys, CopyPortConveys, ConveysOn

\* Two rows, each of at most some length.
LEMMA RowRoom ==
    ASSUME NEW S, NEW first \in Seq(S), NEW second \in Seq(S), NEW n \in Nat, NEW m \in Nat,
           Len(first) <= n, Len(second) <= m
    PROVE  Row(first, second) \in Seq(S) /\ Len(Row(first, second)) <= n + m
<1>1. Row(first, second) \in Seq(S) /\ Len(Row(first, second)) = Len(first) + Len(second)
  BY RowSeq
<1>2. Len(first) \in Nat /\ Len(second) \in Nat
  BY LenProperties
<1> DEFINE a == Len(first)
           b == Len(second)
<1>3. a \in Nat /\ b \in Nat /\ a <= n /\ b <= m
  BY <1>2
<1> HIDE DEF a, b
<1>4. a + b <= n + m
  BY <1>3
<1> QED
  BY <1>1, <1>4 DEF a, b

\* A clock is a transfer of the first output of the extractor.
LEMMA PassTransfer ==
    ASSUME DistributorInv, DistributorInv', DistributorClock
    PROVE  Pass!Transfer
<1> DEFINE valid == extract_tvalid[0]
           ready == pass_tready
           word == extract_tdata[0]
           behind == ExtractSkid(0)
           coming == ExtractIn(0)
           part == Row(ExtractPort(0), ExtractSkid(0))
           after == Row(ExtractPort(0)', ExtractSkid(0)')
           offered == Row(part, coming)
<1>1. Conveys(DISTRIBUTED, part, coming, One(valid /\ ready, word), after)
  BY ExtractConveys DEF ExtractGiven, OutputReady
<1>2. /\ valid \in BOOLEAN /\ ready \in BOOLEAN /\ (valid => word \in DISTRIBUTED)
      /\ behind \in Seq(DISTRIBUTED)
  BY DistributorPlaces DEF DistributorInv
<1>3. part = Row(One(valid, word), behind) /\ offered = Row(part, coming)
  BY DEF ExtractPort
<1>4. Len(after) <= 2
  <2>1. /\ ExtractPort(0)' \in Seq(DISTRIBUTED) /\ Len(ExtractPort(0)') <= 1
        /\ ExtractSkid(0)' \in Seq(DISTRIBUTED) /\ Len(ExtractSkid(0)') <= 1
    BY DistributorPlacesNext
  <2> QED
    BY <2>1, RowRoom
<1>5. /\ Extract!Contents(0) = part
      /\ Extract!Contents(0)' = after
  BY DistributorContents, DistributorContentsNext
<1>6. Pass!Accepted = coming
  BY DEF Pass!Accepted, ExtractIn, OutputFor, One
<1>7. valid /\ ~ready => extract_tvalid'[0] /\ extract_tdata'[0] = word
  BY DistributorRegisters DEF OutputReady
<1>8. Pass!Offered = offered
  BY <1>5, <1>6 DEF Pass!Offered, Row
<1>9. dist_areset_n /\ dist_areset_n'
  BY DEF DistributorClock
<1> HIDE DEF valid, ready, word, behind, coming, part, after, offered
<1>10. /\ valid => offered # <<>> /\ word = Head(offered)
       /\ after = IF valid /\ ready THEN Tail(offered) ELSE offered
  <2>1. PortGives(DISTRIBUTED, word, valid, ready, behind, coming, part, after, offered)
    BY <1>1, <1>2, <1>3 DEF PortGives
  <2> QED
    BY <2>1, ConveysToPort
<1> QED
  BY <1>4, <1>5, <1>7, <1>8, <1>9, <1>10
  DEF Pass!Transfer, Pass!Delivered, valid, ready, word

\* It is a transfer of each output of the splitter.
LEMMA CopyTransfer ==
    ASSUME DistributorInv, DistributorInv', DistributorClock, NEW k \in Copies
    PROVE  Copy(k)!Transfer
<1> DEFINE valid == copy_tvalid[k]
           ready == copy_tready[k]
           word == copy_tdata[k]
           inner == Row(ExtractPort(1), ExtractSkid(1))
           outer == Row(CopyPort(k), SplitSkid)
           behind == Row(SplitSkid, inner)
           coming == ExtractIn(1)
           part == Row(outer, inner)
           inner2 == Row(ExtractPort(1)', ExtractSkid(1)')
           outer2 == Row(CopyPort(k)', SplitSkid')
           after == Row(outer2, inner2)
           offered == Row(part, coming)
<1>1. Conveys(DISTRIBUTED, part, coming, One(valid /\ ready, word), after)
  <2>1. Conveys(DISTRIBUTED, inner, coming, ExtractGiven(1), inner2)
    BY ExtractConveys
  <2>2. Conveys(DISTRIBUTED, outer, ExtractGiven(1), One(valid /\ ready, word), outer2)
    BY SplitConveys DEF CopyGiven
  <2> HIDE DEF inner, outer, inner2, outer2
  <2> QED
    BY <2>1, <2>2, ConveysOn
<1>2. /\ CopyPort(k) \in Seq(DISTRIBUTED) /\ SplitSkid \in Seq(DISTRIBUTED)
      /\ inner \in Seq(DISTRIBUTED)
  BY DistributorPlaces, RowSeq
<1>3. valid \in BOOLEAN /\ ready \in BOOLEAN /\ (valid => word \in DISTRIBUTED)
  BY DEF DistributorInv
<1>4. behind \in Seq(DISTRIBUTED)
  BY <1>2, RowSeq
<1>5. part = Row(One(valid, word), behind) /\ offered = Row(part, coming)
  <2>1. CopyPort(k) = One(valid, word)
    BY DEF CopyPort
  <2> HIDE DEF inner, valid, word
  <2>2. Row(Row(CopyPort(k), SplitSkid), inner) = Row(CopyPort(k), Row(SplitSkid, inner))
    BY <1>2, RowAssociative
  <2> QED
    BY <2>1, <2>2
<1>6. Len(after) <= 4
  <2>1. /\ ExtractPort(1)' \in Seq(DISTRIBUTED) /\ Len(ExtractPort(1)') <= 1
        /\ ExtractSkid(1)' \in Seq(DISTRIBUTED) /\ Len(ExtractSkid(1)') <= 1
        /\ CopyPort(k)' \in Seq(DISTRIBUTED) /\ Len(CopyPort(k)') <= 1
        /\ SplitSkid' \in Seq(DISTRIBUTED) /\ Len(SplitSkid') <= 1
    BY DistributorPlacesNext DEF Copies
  <2>2. /\ inner2 \in Seq(DISTRIBUTED) /\ Len(inner2) <= 2
        /\ outer2 \in Seq(DISTRIBUTED) /\ Len(outer2) <= 2
    BY <2>1, RowRoom
  <2> HIDE DEF inner2, outer2
  <2> QED
    BY <2>2, RowRoom
<1>7. /\ Extract!Contents(1) = inner /\ Extract!Contents(1)' = inner2
      /\ Split!Contents(k) = outer /\ Split!Contents(k)' = outer2
  BY DistributorContents, DistributorContentsNext
<1>8. /\ Split!Contents(k) \o Extract!Contents(1) = part
      /\ (Split!Contents(k) \o Extract!Contents(1))' = after
  <2> HIDE DEF inner, outer, inner2, outer2
  <2> QED
    BY <1>7 DEF Row
<1>9. Copy(k)!Accepted = coming
  BY DEF Copy!Accepted, ExtractIn, OutputFor, One
<1>10. valid /\ ~ready => copy_tvalid'[k] /\ copy_tdata'[k] = word
  BY DistributorRegisters
<1>11. dist_areset_n /\ dist_areset_n'
  BY DEF DistributorClock
<1> HIDE DEF valid, ready, word, behind, coming, part, after, offered
<1>12. Copy(k)!Offered = offered
  BY <1>5, <1>8, <1>9 DEF Copy!Offered, Row
<1>13. /\ valid => offered # <<>> /\ word = Head(offered)
       /\ after = IF valid /\ ready THEN Tail(offered) ELSE offered
  <2>1. PortGives(DISTRIBUTED, word, valid, ready, behind, coming, part, after, offered)
    BY <1>1, <1>3, <1>4, <1>5 DEF PortGives
  <2> QED
    BY <2>1, ConveysToPort
<1> QED
  BY <1>6, <1>8, <1>10, <1>11, <1>12, <1>13
  DEF Copy!Transfer, Copy!Delivered, valid, ready, word

\* An empty distributor.
DistributorEmpty ==
    /\ ~dist_areset_n /\ ~dist_rx_tready /\ ~ExtractWaits /\ ~SplitWaits
    /\ \A k \in {0, 1} : ~extract_tvalid[k]
    /\ \A k \in Copies : ~copy_tvalid[k]

\* Its FIFOs are quiet.
LEMMA DistributorQuiet ==
    DistributorEmpty => /\ Pass!Quiet
                        /\ \A k \in Copies : Copy(k)!Quiet
<1> SUFFICES ASSUME DistributorEmpty
             PROVE  /\ Pass!Quiet
                    /\ \A k \in Copies : Copy(k)!Quiet
  OBVIOUS
<1>1. <<>> \o <<>> = <<>>
  <2>1. <<>> \in Seq(DISTRIBUTED)
    OBVIOUS
  <2> QED
    BY <2>1, RowEmpty DEF Row
<1>2. \A k \in {0, 1} : Extract!Contents(k) = <<>>
  BY <1>1 DEF DistributorEmpty, Extract!Contents, ExtractWaits
<1>3. \A k \in Copies : Split!Contents(k) = <<>>
  BY <1>1 DEF DistributorEmpty, Split!Contents, SplitWaits
<1>4. Pass!Quiet
  BY <1>2 DEF DistributorEmpty, Pass!Quiet
<1>5. ASSUME NEW k \in Copies PROVE Copy(k)!Quiet
  BY <1>1, <1>2, <1>3 DEF DistributorEmpty, Copy!Quiet
<1> QED
  BY <1>4, <1>5

\* The same after a step.
LEMMA DistributorQuietNext ==
    (DistributorEmpty => /\ Pass!Quiet
                         /\ \A k \in Copies : Copy(k)!Quiet)'
BY DistributorQuiet, PTL

\* At first the FIFOs are quiet.
LEMMA DistributorFifoInit ==
    DistributorInit => /\ Pass!Init
                        /\ \A k \in Copies : Copy(k)!Init
<1> SUFFICES ASSUME DistributorInit
             PROVE  /\ Pass!Init
                    /\ \A k \in Copies : Copy(k)!Init
  OBVIOUS
<1>1. DistributorEmpty
  BY DEF DistributorEmpty, DistributorInit, Extract!Init, Split!Init,
         ExtractWaits, SplitWaits, Extract!Outputs, Split!Outputs,
         Copies
<1> QED
  BY <1>1, DistributorQuiet DEF Pass!Init, Copy!Init

\* A reset makes them quiet.
LEMMA DistributorFifoReset ==
    DistributorReset => /\ Pass!Reset
                         /\ \A k \in Copies : Copy(k)!Reset
<1> SUFFICES ASSUME DistributorReset
             PROVE  /\ Pass!Reset
                    /\ \A k \in Copies : Copy(k)!Reset
  OBVIOUS
<1>1. DistributorEmpty'
  BY DEF DistributorEmpty, DistributorReset, Extract!ResetRegisters,
         Split!ResetRegisters, ExtractWaits, SplitWaits,
         Extract!Outputs, Split!Outputs, Copies
<1>2. Pass!Quiet' /\ \A k \in Copies : Copy(k)!Quiet'
  BY <1>1, DistributorQuietNext DEF Copies
<1> QED
  BY <1>2 DEF Pass!Reset, Copy!Reset, Pass!Quiet,
              Copy!Quiet

\* The words inside stay where they are while the registers do.
LEMMA DistributorContentsStill ==
    UNCHANGED <<extract_buffer_state, extract_buffered, extract_tvalid, extract_tdata,
                split_buffer_state, split_buffered, copy_tvalid, copy_tdata>>
        => /\ \A k : Extract!Contents(k)' = Extract!Contents(k)
           /\ \A k : Split!Contents(k)' = Split!Contents(k)
BY DEF Extract!Contents, Split!Contents, Extract!Output,
       Extract!Extracted

\* The release of the reset moves nothing.
LEMMA DistributorFifoRelease ==
    DistributorRelease => /\ Pass!Release
                           /\ \A k \in Copies : Copy(k)!Release
<1> SUFFICES ASSUME DistributorRelease
             PROVE  /\ Pass!Release
                    /\ \A k \in Copies : Copy(k)!Release
  OBVIOUS
<1>1. UNCHANGED <<dist_rx_tready, extract_buffer_state, extract_buffered, extract_tvalid,
                  extract_tdata, split_buffer_state, split_buffered, copy_tvalid, copy_tdata>>
  BY DEF DistributorRelease, extract, split
<1>2. /\ \A k : Extract!Contents(k)' = Extract!Contents(k)
      /\ \A k : Split!Contents(k)' = Split!Contents(k)
  BY <1>1, DistributorContentsStill
<1>3. ~dist_areset_n /\ dist_areset_n'
  BY DEF DistributorRelease
<1> QED
  BY <1>1, <1>2, <1>3 DEF Pass!Release, Copy!Release

\* Nothing moves when the distributor does not.
LEMMA DistributorFifoStill ==
    UNCHANGED distributorVars
        => /\ UNCHANGED Pass!vars
           /\ \A k \in Copies : UNCHANGED Copy(k)!vars
<1> SUFFICES ASSUME UNCHANGED distributorVars
             PROVE  /\ UNCHANGED Pass!vars
                    /\ \A k \in Copies : UNCHANGED Copy(k)!vars
  OBVIOUS
<1>1. UNCHANGED <<dist_areset_n, dist_rx_tvalid, dist_rx_tdata, dist_rx_tready, pass_tready,
                  copy_tready, extract_buffer_state, extract_buffered, extract_tvalid,
                  extract_tdata, split_buffer_state, split_buffered, copy_tvalid, copy_tdata>>
  BY DEF distributorVars, extract, split
<1>2. /\ \A k : Extract!Contents(k)' = Extract!Contents(k)
      /\ \A k : Split!Contents(k)' = Split!Contents(k)
  BY <1>1, DistributorContentsStill
<1>3. Extract!Output(dist_rx_tdata)' = Extract!Output(dist_rx_tdata)
  BY <1>1 DEF Extract!Output, Extract!Extracted
<1> QED
  BY <1>1, <1>2, <1>3 DEF Pass!vars, Copy!vars

\* Every step of the distributor is one of all its FIFOs.
LEMMA DistributorFifoStep ==
    DistributorInv /\ DistributorInv' /\ [DistributorNext]_distributorVars
        => /\ [Pass!Next]_Pass!vars
           /\ \A k \in Copies :
                 Copy(k)!Next \/ UNCHANGED Copy(k)!vars
<1> SUFFICES ASSUME DistributorInv, DistributorInv', [DistributorNext]_distributorVars
             PROVE  /\ [Pass!Next]_Pass!vars
                    /\ \A k \in Copies :
                          Copy(k)!Next \/ UNCHANGED Copy(k)!vars
  OBVIOUS
<1>1. CASE DistributorClock
  BY <1>1, PassTransfer, CopyTransfer DEF Pass!Next, Copy!Next
<1>2. CASE DistributorReset
  BY <1>2, DistributorFifoReset DEF Pass!Next, Copy!Next
<1>3. CASE DistributorRelease
  BY <1>3, DistributorFifoRelease DEF Pass!Next, Copy!Next
<1>4. CASE UNCHANGED distributorVars
  BY <1>4, DistributorFifoStill
<1> QED
  BY <1>1, <1>2, <1>3, <1>4 DEF DistributorNext

(***************************************************************************)
(* The first output of the extractor, and every output of the splitter     *)
(* behind its second one, are FIFOs of their own words: none is lost,      *)
(* repeated, overtaken or sent the wrong way, however the outputs stall.   *)
(* For any number of identifiers and of outputs of the splitter.           *)
(***************************************************************************)
THEOREM DistributesAsFifo == DistributorSpec => DistributesFifo
<1> DEFINE CopiesStep == \A k \in Copies :
                            Copy(k)!Next \/ UNCHANGED Copy(k)!vars
           CopiesInit == \A k \in Copies : Copy(k)!Init
<1>1. DistributorInit => DistributorInv /\ Pass!Init /\ CopiesInit
  BY DistributorBegins, DistributorFifoInit
<1>2. DistributorInv /\ [DistributorNext]_distributorVars => DistributorInv'
  BY DistributorInvNext
<1>3. DistributorInv /\ DistributorInv' /\ [DistributorNext]_distributorVars
         => /\ [Pass!Next]_Pass!vars
            /\ [CopiesStep]_distributorVars
  BY DistributorFifoStep
<1> QED
  BY <1>1, <1>2, <1>3, PTL DEF DistributorSpec, DistributesFifo,
     PassesFifo, CopiesFifo, Pass!Spec

-----------------------------------------------------------------------------
\* The downsizer and the upsizer behind it.

\* What words consist of, seen as sequences.
StreamItems == Bytes \cup {END, UNDRIVEN}

\* A lane and a mark are sequences.
LEMMA LaneTyped ==
    /\ \A lane \in Bytes \cup {NULL, UNDRIVEN} :
          /\ Down!Kept(lane) \in Seq(StreamItems)
          /\ Up!Kept(lane) \in Seq(StreamItems)
    /\ \A end : /\ Down!Mark(end) \in Seq(StreamItems)
                /\ Up!Mark(end) \in Seq(StreamItems)
<1>1. \A x \in StreamItems : <<x>> \in Seq(StreamItems)
  OBVIOUS
<1>2. <<>> \in Seq(StreamItems)
  OBVIOUS
<1>3. ASSUME NEW lane \in Bytes \cup {NULL, UNDRIVEN}
      PROVE  Down!Kept(lane) \in Seq(StreamItems) /\ Up!Kept(lane) \in Seq(StreamItems)
  <2>1. CASE lane = NULL
    BY <1>2, <2>1 DEF Down!Kept, Up!Kept
  <2>2. CASE lane # NULL
    <3>1. lane \in StreamItems
      BY <2>2 DEF StreamItems
    <3> QED
      BY <1>1, <2>2, <3>1 DEF Down!Kept, Up!Kept
  <2> QED
    BY <2>1, <2>2
<1>4. END \in StreamItems
  BY DEF StreamItems
<1> QED
  BY <1>1, <1>2, <1>3, <1>4 DEF Down!Mark, Up!Mark

\* The mark and the lanes of a word, from the last one to the first.
WordCells(word) ==
    [n \in 0 .. WIDE |-> IF n = 0 THEN Down!Mark(word.last)
                                  ELSE Down!Kept(word.lanes[WIDE - n])]

\* The word is the row of them.
LEMMA FromJoined ==
    ASSUME WIDE \in Nat, NEW word, NEW k \in 0 .. WIDE
    PROVE  Down!From(word, k) = Joined(WIDE, WordCells(word))[WIDE - k]
<1> DEFINE cells == WordCells(word)
           F(f) == [n \in 0 .. WIDE |-> IF n = 0 THEN Down!Mark(word.last)
                                        ELSE Down!Kept(word.lanes[WIDE - n]) \o f[n - 1]]
           rest == CHOOSE f : f = F(f)
           joined == Joined(WIDE, cells)
<1>1. /\ cells[0] = Down!Mark(word.last)
      /\ \A n \in 1 .. WIDE : cells[n] = Down!Kept(word.lanes[WIDE - n])
  BY DEF WordCells
<1>2. joined = [n \in 0 .. WIDE |-> IF n = 0 THEN cells[0] ELSE Row(cells[n], joined[n - 1])]
  BY Joins
<1> HIDE DEF cells, joined
<1>3. \A n \in 0 .. WIDE : n # 0 => n \in 1 .. WIDE
  OBVIOUS
<1>4. joined = F(joined)
  <2>1. ASSUME NEW n \in 0 .. WIDE
        PROVE  (IF n = 0 THEN cells[0] ELSE Row(cells[n], joined[n - 1]))
                 = IF n = 0 THEN Down!Mark(word.last)
                   ELSE Down!Kept(word.lanes[WIDE - n]) \o joined[n - 1]
    BY <1>1, <1>3 DEF Row
  <2> QED
    BY <1>2, <2>1
<1>5. rest = F(rest)
  <2> HIDE DEF F
  <2> QED
    BY <1>4
<1>6. rest[0] = cells[0] /\ \A n \in 1 .. WIDE : rest[n] = Row(cells[n], rest[n - 1])
  <2> HIDE DEF rest
  <2>1. \A n \in 0 .. WIDE : rest[n] = IF n = 0 THEN Down!Mark(word.last)
                                ELSE Down!Kept(word.lanes[WIDE - n]) \o rest[n - 1]
    BY <1>5
  <2>2. 0 \in 0 .. WIDE /\ \A n \in 1 .. WIDE : n \in 0 .. WIDE /\ n # 0
    OBVIOUS
  <2> QED
    BY <1>1, <2>1, <2>2 DEF Row
<1>7. Down!From(word, k) = rest[WIDE - k]
  BY DEF Down!From
<1> HIDE DEF rest
<1>8. \A n \in 0 .. WIDE : rest[n] = Joined(WIDE, cells)[n]
  BY <1>6, JoinsOnly
<1>9. WIDE - k \in 0 .. WIDE
  OBVIOUS
<1> QED
  BY <1>7, <1>8, <1>9 DEF joined, cells

\* A word from a lane on is this lane and the rest.
LEMMA FromNext ==
    ASSUME WIDE \in Nat, NEW word
    PROVE  /\ Down!From(word, WIDE) = Down!Mark(word.last)
           /\ \A k \in 0 .. WIDE - 1 :
                 Down!From(word, k) = Row(Down!Kept(word.lanes[k]), Down!From(word, k + 1))
<1> DEFINE cells == WordCells(word)
           joined == Joined(WIDE, cells)
<1>1. joined[0] = cells[0] /\ \A n \in 1 .. WIDE : joined[n] = Row(cells[n], joined[n - 1])
  BY Joins
<1>2. \A k \in 0 .. WIDE : Down!From(word, k) = joined[WIDE - k]
  BY FromJoined
<1>3. /\ cells[0] = Down!Mark(word.last)
      /\ \A n \in 1 .. WIDE : cells[n] = Down!Kept(word.lanes[WIDE - n])
  BY DEF WordCells
<1> HIDE DEF cells, joined
<1>4. Down!From(word, WIDE) = Down!Mark(word.last)
  BY <1>1, <1>2, <1>3
<1>5. ASSUME NEW k \in 0 .. WIDE - 1
      PROVE  Down!From(word, k) = Row(Down!Kept(word.lanes[k]), Down!From(word, k + 1))
  <2> DEFINE n == WIDE - k
  <2>1. n \in 1 .. WIDE /\ WIDE - (k + 1) = n - 1 /\ WIDE - n = k
        /\ k \in 0 .. WIDE /\ k + 1 \in 0 .. WIDE
    OBVIOUS
  <2>2. Down!From(word, k) = joined[n] /\ Down!From(word, k + 1) = joined[n - 1]
    BY <1>2, <2>1
  <2> HIDE DEF n
  <2> QED
    BY <1>1, <1>3, <2>1, <2>2
<1> QED
  BY <1>4, <1>5

\* It is a sequence.
LEMMA FromSeq ==
    ASSUME WIDE \in Nat, NEW word \in Down!RxWords, NEW k \in 0 .. WIDE
    PROVE  Down!From(word, k) \in Seq(StreamItems)
<1>1. WordCells(word) \in [0 .. WIDE -> Seq(StreamItems)]
  <2>1. ASSUME NEW n \in 0 .. WIDE, n # 0
        PROVE  Down!Kept(word.lanes[WIDE - n]) \in Seq(StreamItems)
    <3>1. WIDE - n \in 0 .. WIDE - 1
      BY <2>1
    <3>2. word.lanes[WIDE - n] \in Bytes \cup {NULL, UNDRIVEN}
      BY <3>1 DEF Down!RxWords, Down!Lanes
    <3> QED
      BY <3>2, LaneTyped
  <2>2. Down!Mark(word.last) \in Seq(StreamItems)
    BY LaneTyped
  <2> QED
    BY <2>1, <2>2 DEF WordCells
<1>2. \A n \in 0 .. WIDE : Joined(WIDE, WordCells(word))[n] \in Seq(StreamItems)
  BY <1>1, JoinedSeq
<1>3. WIDE - k \in 0 .. WIDE
  OBVIOUS
<1> QED
  BY <1>2, <1>3, FromJoined

\* Behind the last lane that is kept there is only the mark.
LEMMA FromEnd ==
    ASSUME WIDE \in Nat, NEW word, NEW k \in 0 .. WIDE,
           \A j \in 0 .. WIDE - 1 : j >= k => word.lanes[j] = NULL
    PROVE  Down!From(word, k) = Down!Mark(word.last)
<1> DEFINE mark == Down!Mark(word.last)
           joined == Joined(WIDE, WordCells(word))
           N == WIDE - k
           T == {n \in Nat : n <= N => joined[n] = mark}
<1>1. /\ joined[0] = WordCells(word)[0]
      /\ \A n \in 1 .. WIDE : joined[n] = Row(WordCells(word)[n], joined[n - 1])
  BY Joins
<1>2. \A n \in 0 .. WIDE : WordCells(word)[n] = IF n = 0 THEN mark
                                        ELSE Down!Kept(word.lanes[WIDE - n])
  BY DEF WordCells
<1>3. mark \in Seq(StreamItems)
  BY LaneTyped
<1>4. Down!From(word, k) = joined[N]
  BY FromJoined
<1>5. N \in Nat /\ N <= WIDE /\ WIDE - N = k
  OBVIOUS
<1> HIDE DEF mark, joined, N
<1>6. 0 \in T
  BY <1>1, <1>2
<1>7. ASSUME NEW n \in 0 .. N - 1, n \in T PROVE n + 1 \in T
  <2>1. n + 1 \in 1 .. WIDE /\ n + 1 - 1 = n /\ n <= N /\ n + 1 \in Nat /\ n + 1 \in 0 .. WIDE
        /\ n + 1 # 0
    BY <1>5
  <2>2. WIDE - (n + 1) \in 0 .. WIDE - 1 /\ WIDE - (n + 1) >= k
    BY <1>5
  <2>3. word.lanes[WIDE - (n + 1)] = NULL
    BY <2>2
  <2>4. WordCells(word)[n + 1] = <<>>
    BY <1>2, <2>1, <2>3 DEF Down!Kept
  <2>5. joined[n] = mark
    BY <1>7, <2>1
  <2>6. joined[n + 1] = Row(<<>>, mark)
    BY <1>1, <2>1, <2>4, <2>5
  <2>7. joined[n + 1] = mark
    BY <1>3, <2>6, RowEmpty
  <2> QED
    BY <2>1, <2>7
<1> HIDE DEF T
<1>8. N \in T
  BY <1>5, <1>6, <1>7, Induction
<1> USE DEF T
<1>9. joined[N] = mark
  BY <1>5, <1>8
<1> QED
  BY <1>4, <1>9 DEF mark

\* The lanes that the upsizer gathered, one after the other.
LEMMA UpToNext ==
    ASSUME WIDE \in Nat, NEW word
    PROVE  /\ Up!UpTo(word, 0) = <<>>
           /\ \A n \in 1 .. WIDE :
                 Up!UpTo(word, n) = Row(Up!UpTo(word, n - 1), Up!Kept(word[n - 1]))
<1> DEFINE F(f, m) == [n \in 0 .. m |->
                          IF n = 0 THEN <<>> ELSE f[n - 1] \o Up!Kept(word[n - 1])]
           S == {m \in Nat : \E f : f = F(f, m)}
           first == CHOOSE f : f = F(f, WIDE)
<1>1. 0 \in S
  <2> DEFINE f == [n \in 0 .. 0 |-> <<>>]
  <2>1. f = F(f, 0)
    OBVIOUS
  <2> HIDE DEF f, F
  <2> QED
    BY <2>1
<1>2. ASSUME NEW m \in 0 .. WIDE - 1, m \in S PROVE m + 1 \in S
  <2>1. PICK f : f = F(f, m)
    BY <1>2
  <2> DEFINE new == f[m] \o Up!Kept(word[m])
             g == [n \in 0 .. m + 1 |-> IF n = m + 1 THEN new ELSE f[n]]
  <2>2. m \in Nat /\ m + 1 \in Nat
    OBVIOUS
  <2>3. ASSUME NEW n \in 0 .. m + 1 PROVE g[n] = F(g, m + 1)[n]
    <3>1. CASE n = m + 1
      <4>1. n # 0 /\ n - 1 = m /\ m \in 0 .. m + 1 /\ m # m + 1
        BY <2>2, <3>1
      <4>2. g[m] = f[m]
        BY <4>1
      <4>3. F(g, m + 1)[n] = new
        BY <3>1, <4>1, <4>2
      <4> QED
        BY <3>1, <4>3
    <3>2. CASE n # m + 1
      <4>1. n \in 0 .. m /\ (n # 0 => n - 1 \in 0 .. m /\ n - 1 # m + 1)
        BY <2>2, <3>2
      <4>2. g[n] = f[n] /\ (n # 0 => g[n - 1] = f[n - 1])
        BY <2>2, <3>2, <4>1
      <4>3. f[n] = F(f, m)[n]
        BY <2>1
      <4>4. F(f, m)[n] = F(g, m + 1)[n]
        <5> HIDE DEF g
        <5> QED
          BY <4>1, <4>2
      <4> QED
        BY <4>2, <4>3, <4>4
    <3> QED
      BY <3>1, <3>2
  <2>4. g = F(g, m + 1)
    <3>1. DOMAIN g = 0 .. m + 1 /\ DOMAIN F(g, m + 1) = 0 .. m + 1
      OBVIOUS
    <3> QED
      BY <2>3, <3>1
  <2> HIDE DEF g, F
  <2> QED
    BY <2>2, <2>4
<1> HIDE DEF S
<1>3. WIDE \in S
  BY <1>1, <1>2, Induction
<1> USE DEF S
<1>4. \E f : f = F(f, WIDE)
  BY <1>3
<1>5. first = F(first, WIDE)
  <2> HIDE DEF F
  <2> QED
    BY <1>4
<1>6. \A n : Up!UpTo(word, n) = first[n]
  BY DEF Up!UpTo
<1> HIDE DEF first
<1>7. \A n \in 0 .. WIDE : first[n] = IF n = 0 THEN <<>>
                                     ELSE first[n - 1] \o Up!Kept(word[n - 1])
  BY <1>5
<1>8. 0 \in 0 .. WIDE /\ \A n \in 1 .. WIDE : n \in 0 .. WIDE /\ n # 0
  OBVIOUS
<1>9. /\ first[0] = <<>>
      /\ \A n \in 1 .. WIDE : first[n] = Row(first[n - 1], Up!Kept(word[n - 1]))
  BY <1>7, <1>8 DEF Row
<1> QED
  BY <1>6, <1>9

\* They are a sequence.
LEMMA UpToSeq ==
    ASSUME WIDE \in Nat, NEW word \in Up!LaneWords
    PROVE  \A k \in 0 .. WIDE : Up!UpTo(word, k) \in Seq(StreamItems)
<1> DEFINE T == {n \in Nat : n <= WIDE => Up!UpTo(word, n) \in Seq(StreamItems)}
<1>1. 0 \in T
  <2>1. Up!UpTo(word, 0) = <<>>
    BY UpToNext
  <2>2. Up!UpTo(word, 0) \in Seq(StreamItems)
    <3>1. <<>> \in Seq(StreamItems)
      OBVIOUS
    <3> QED
      BY <2>1, <3>1
  <2> QED
    BY <2>2
<1>2. ASSUME NEW n \in 0 .. WIDE - 1, n \in T PROVE n + 1 \in T
  <2>1. n + 1 \in 1 .. WIDE /\ n + 1 - 1 = n /\ n <= WIDE /\ n + 1 \in Nat
    OBVIOUS
  <2>2. Up!UpTo(word, n) \in Seq(StreamItems)
    BY <1>2, <2>1
  <2>3. word[n] \in Bytes \cup {NULL, UNDRIVEN}
    BY DEF Up!LaneWords, Up!Lanes
  <2>4. Up!Kept(word[n]) \in Seq(StreamItems)
    BY <2>3, LaneTyped
  <2>5. Up!UpTo(word, n + 1) = Row(Up!UpTo(word, n), Up!Kept(word[n]))
    BY <2>1, UpToNext
  <2>6. Up!UpTo(word, n + 1) \in Seq(StreamItems)
    BY <2>2, <2>4, <2>5, RowSeq
  <2> QED
    BY <2>1, <2>6
<1> HIDE DEF T
<1>3. ASSUME NEW k \in 0 .. WIDE PROVE k \in T
  <2>1. k \in Nat /\ \A n \in 0 .. k - 1 : n \in 0 .. WIDE - 1
    OBVIOUS
  <2>2. \A n \in 0 .. k - 1 : n \in T => n + 1 \in T
    BY <1>2, <2>1
  <2> QED
    BY <1>1, <2>1, <2>2, Induction
<1>4. ASSUME NEW k \in 0 .. WIDE PROVE Up!UpTo(word, k) \in Seq(StreamItems)
  <2>1. k \in T /\ k <= WIDE
    BY <1>3
  <2> QED
    BY <2>1 DEF T
<1> QED
  BY <1>4

\* Only the lanes that are looked at count.
LEMMA UpToSame ==
    ASSUME WIDE \in Nat, NEW word, NEW word2, NEW k \in 0 .. WIDE,
           \A j \in 0 .. k - 1 : word2[j] = word[j]
    PROVE  Up!UpTo(word2, k) = Up!UpTo(word, k)
<1> DEFINE T == {n \in Nat : n <= k => Up!UpTo(word2, n) = Up!UpTo(word, n)}
<1>1. 0 \in T
  BY UpToNext
<1>2. ASSUME NEW n \in 0 .. k - 1, n \in T PROVE n + 1 \in T
  <2>1. n + 1 \in 1 .. WIDE /\ n + 1 - 1 = n /\ n <= k /\ n + 1 \in Nat
    OBVIOUS
  <2>2. Up!UpTo(word2, n) = Up!UpTo(word, n) /\ word2[n] = word[n]
    BY <1>2, <2>1
  <2>3. /\ Up!UpTo(word, n + 1) = Row(Up!UpTo(word, n), Up!Kept(word[n]))
        /\ Up!UpTo(word2, n + 1) = Row(Up!UpTo(word2, n), Up!Kept(word2[n]))
    BY <2>1, UpToNext
  <2>4. Up!UpTo(word2, n + 1) = Up!UpTo(word, n + 1)
    BY <2>2, <2>3
  <2> QED
    BY <2>1, <2>4
<1> HIDE DEF T
<1>3. k \in T
  BY <1>1, <1>2, Induction
<1>4. k <= k
  OBVIOUS
<1> QED
  BY <1>3, <1>4 DEF T

\* Lanes that are not kept do not count.
LEMMA UpToRest ==
    ASSUME WIDE \in Nat, NEW word \in Up!LaneWords, NEW k \in 0 .. WIDE,
           \A j \in 0 .. WIDE - 1 : j >= k => word[j] = NULL
    PROVE  Up!UpTo(word, WIDE) = Up!UpTo(word, k)
<1> DEFINE N == WIDE - k
           At(n) == Up!UpTo(word, k + n) = Up!UpTo(word, k)
           T == {n \in Nat : n <= N => At(n)}
<1>1. 0 \in T
  <2>1. k + 0 = k
    OBVIOUS
  <2> QED
    BY <2>1
<1>2. ASSUME NEW n \in 0 .. N - 1, n \in T PROVE n + 1 \in T
  <2> DEFINE m == k + n + 1
  <2>1. m \in 1 .. WIDE /\ m - 1 = k + n /\ n <= N /\ n + 1 \in Nat /\ k + (n + 1) = m
        /\ k + n \in 0 .. WIDE - 1 /\ k + n >= k /\ k + n \in 0 .. WIDE
    OBVIOUS
  <2>2. At(n)
    BY <1>2, <2>1
  <2> HIDE DEF m
  <2>3. Up!UpTo(word, m) = Row(Up!UpTo(word, k + n), Up!Kept(word[k + n]))
    BY <2>1, UpToNext
  <2>4. Up!Kept(word[k + n]) = <<>>
    BY <2>1 DEF Up!Kept
  <2>5. Up!UpTo(word, k + n) \in Seq(StreamItems)
    BY <2>1, UpToSeq
  <2>6. Up!UpTo(word, m) = Up!UpTo(word, k + n)
    BY <2>3, <2>4, <2>5, RowEmpty
  <2>7. At(n + 1)
    BY <2>1, <2>2, <2>6
  <2> QED
    BY <2>1, <2>7
<1>3. N \in Nat /\ k + N = WIDE /\ N <= N
  OBVIOUS
<1> HIDE DEF T, N
<1>4. N \in T
  BY <1>1, <1>2, <1>3, Induction
<1>5. At(N)
  BY <1>3, <1>4 DEF T
<1> QED
  BY <1>3, <1>5

-----------------------------------------------------------------------------
\* The invariant of the resizers, and their registers.

\* The skid buffers keep a word.
DownWaits == down_buffer_state = "BUFFERED"

UpWaits == up_buffer_state = "BUFFERED"

(***************************************************************************)
(* The invariant.  A word waits in a skid buffer only while it is not      *)
(* ready; the downsizer is past the first lane only of a word that waits;  *)
(* the upsizer counts only while it gathers, and the lanes that it has not *)
(* reached are empty.                                                      *)
(***************************************************************************)
ResizerInv ==
    /\ resize_areset_n \in BOOLEAN
    /\ resize_rx_tvalid \in BOOLEAN /\ resize_rx_tdata \in Down!RxWords
    /\ resize_rx_tready \in BOOLEAN
    /\ resize_tx_tready \in BOOLEAN
    /\ down_buffer_state \in {"IDLE", "BUFFERED"}
    /\ DownWaits => ~resize_rx_tready /\ down_buffered \in Down!RxWords
    /\ down_index \in 0 .. WIDE - 1
    /\ down_fsm_state = IF down_index = 0 THEN "FIRST" ELSE "DOWNSIZE"
    /\ down_index # 0 => DownWaits
    /\ narrow_tvalid \in BOOLEAN
    /\ narrow_tvalid => narrow_tdata \in Up!RxWords
    /\ narrow_tready \in BOOLEAN
    /\ up_buffer_state \in {"IDLE", "BUFFERED"}
    /\ UpWaits => ~narrow_tready /\ up_buffered \in Up!RxWords
    /\ up_fsm_state \in {"UPSIZE", "UPSIZE_NEXT", "UPSIZE_LAST"}
    /\ up_index \in 0 .. WIDE - 1
    /\ up_fsm_state # "UPSIZE" => up_index = 0
    /\ up_lanes \in Up!LaneWords
    /\ up_index # 0 => \A j \in 0 .. WIDE - 1 : j >= up_index => up_lanes[j] = NULL
    /\ resize_tx_tvalid \in BOOLEAN
    /\ resize_tx_tvalid => resize_tx_tdata \in Up!TxWords

\* The parameters.
LEMMA ResizerWide == WIDE \in Nat /\ WIDE >= 1 /\ 0 \in 0 .. WIDE - 1
BY ResizerAssumption

(***************************************************************************)
(* A clock, with any words on Rx.                                          *)
(***************************************************************************)
ResizerEdge ==
    /\ resize_areset_n
    /\ Down!ClockRegisters
    /\ Up!ClockRegisters
    /\ resize_rx_tvalid' \in BOOLEAN
    /\ resize_rx_tdata' \in Down!RxWords
    /\ resize_tx_tready' \in BOOLEAN
    /\ UNCHANGED resize_areset_n

\* What the skid buffers offer to the units.
LEMMA ResizersOffered ==
    ASSUME ResizerInv
    PROVE  /\ Down!buffered_tvalid <=>
                 DownWaits \/ (resize_rx_tvalid /\ resize_rx_tready)
           /\ Down!buffered_tdata = IF DownWaits THEN down_buffered ELSE resize_rx_tdata
           /\ Down!buffered_tdata \in Down!RxWords
           /\ Down!buffered_tready <=>
                 IF Down!buffered_tvalid THEN narrow_tready /\ Down!last(down_index)
                                         ELSE down_index = 0
           /\ Down!Taken <=> Down!buffered_tvalid /\ narrow_tready
           /\ Up!buffered_tvalid <=> UpWaits \/ (narrow_tvalid /\ narrow_tready)
           /\ Up!buffered_tdata = IF UpWaits THEN up_buffered ELSE narrow_tdata
           /\ Up!buffered_tvalid => Up!buffered_tdata \in Up!RxWords
           /\ Up!buffered_tready <=>
                 up_fsm_state = "UPSIZE" \/ ~Up!buffered_tvalid \/ resize_tx_tready
<1>1. /\ Down!buffered_tvalid <=>
            DownWaits \/ (resize_rx_tvalid /\ resize_rx_tready)
      /\ Up!buffered_tvalid <=> UpWaits \/ (narrow_tvalid /\ narrow_tready)
  BY DEF Down!buffered_tvalid, Up!buffered_tvalid, DownWaits, UpWaits
<1>2. /\ Down!buffered_tdata = IF DownWaits THEN down_buffered ELSE resize_rx_tdata
      /\ Up!buffered_tdata = IF UpWaits THEN up_buffered ELSE narrow_tdata
  BY DEF Down!buffered_tdata, Up!buffered_tdata, DownWaits, UpWaits, ResizerInv
<1>3. /\ Down!buffered_tdata \in Down!RxWords
      /\ Up!buffered_tvalid => Up!buffered_tdata \in Up!RxWords
  BY <1>1, <1>2 DEF ResizerInv
<1>4. Down!buffered_tready <=>
         IF Down!buffered_tvalid THEN narrow_tready /\ Down!last(down_index)
                                 ELSE down_index = 0
  <2>1. CASE down_index = 0
    <3>1. down_fsm_state = "FIRST"
      BY <2>1 DEF ResizerInv
    <3> QED
      BY <2>1, <3>1 DEF Down!buffered_tready
  <2>2. CASE down_index # 0
    <3>1. down_fsm_state = "DOWNSIZE" /\ down_fsm_state # "FIRST"
      BY <2>2 DEF ResizerInv
    <3> QED
      BY <2>2, <3>1 DEF Down!buffered_tready
  <2> QED
    BY <2>1, <2>2
<1>5. Up!buffered_tready <=>
         up_fsm_state = "UPSIZE" \/ ~Up!buffered_tvalid \/ resize_tx_tready
  BY DEF Up!buffered_tready
<1>6. Down!Taken <=> Down!buffered_tvalid /\ narrow_tready
  BY DEF Down!Taken
<1> QED
  BY <1>1, <1>2, <1>3, <1>4, <1>5, <1>6

\* The unit of the downsizer sends the last lane of the word.
DownDone == Down!Taken /\ Down!last(down_index)

\* What a clock does to the registers of the downsizer.
LEMMA DownRegisters ==
    ASSUME ResizerInv, Down!ClockRegisters
    PROVE  /\ DownWaits' <=> Down!buffered_tvalid /\ ~DownDone
           /\ down_buffer_state' \in {"IDLE", "BUFFERED"}
           /\ resize_rx_tready' = Down!buffered_tready
           /\ down_buffered' = IF resize_rx_tready THEN resize_rx_tdata ELSE down_buffered
           /\ down_index' = IF DownDone THEN 0
                            ELSE IF Down!Taken THEN down_index + 1 ELSE down_index
           /\ down_fsm_state' =
                 IF DownDone THEN "FIRST"
                 ELSE IF Down!Taken THEN "DOWNSIZE" ELSE down_fsm_state
           /\ narrow_tvalid' = IF narrow_tready THEN Down!buffered_tvalid
                                                ELSE narrow_tvalid
           /\ narrow_tdata' =
                 IF narrow_tready
                 THEN [lane |-> Down!buffered_tdata.lanes[down_index],
                       last |-> /\ Down!buffered_tdata.last
                                /\ Down!buffered_tvalid
                                /\ Down!last(down_index)]
                 ELSE narrow_tdata
<1> DEFINE v == Down!buffered_tvalid
           r == Down!buffered_tready
           t == Down!Taken
           l == Down!last(down_index)
<1>1. /\ v <=> DownWaits \/ (resize_rx_tvalid /\ resize_rx_tready)
      /\ r <=> IF v THEN narrow_tready /\ l ELSE down_index = 0
      /\ t <=> v /\ narrow_tready
  BY ResizersOffered
<1>2. DownDone <=> t /\ l
  BY DEF DownDone
<1>3. /\ down_buffer_state \in {"IDLE", "BUFFERED"}
      /\ down_buffer_state = "BUFFERED" <=> DownWaits
      /\ down_buffer_state' = "BUFFERED" <=> DownWaits'
      /\ DownWaits => ~resize_rx_tready
      /\ down_fsm_state = IF down_index = 0 THEN "FIRST" ELSE "DOWNSIZE"
      /\ down_index # 0 => DownWaits
  BY DEF ResizerInv, DownWaits
<1>4. down_buffer_state' =
         CASE down_buffer_state = "IDLE" /\ resize_rx_tvalid /\ resize_rx_tready /\ ~r
                 -> "BUFFERED"
           [] down_buffer_state = "BUFFERED" /\ r -> "IDLE"
           [] OTHER -> down_buffer_state
  BY DEF Down!ClockRegisters, Down!Buffer!FsmState
<1>5. resize_rx_tready' = r
  BY DEF Down!ClockRegisters, Down!Buffer!RxReady
<1>6. down_buffered' = IF resize_rx_tready THEN resize_rx_tdata ELSE down_buffered
  BY DEF Down!ClockRegisters, Down!Buffer!Buffered
<1>7. down_index' = CASE t /\ l -> 0 [] t /\ ~l -> down_index + 1 [] OTHER -> down_index
  BY DEF Down!ClockRegisters, Down!Index
<1>8. down_fsm_state' =
         CASE t /\ down_fsm_state = "FIRST" /\ ~Down!last(0) -> "DOWNSIZE"
           [] t /\ down_fsm_state = "DOWNSIZE" /\ l -> "FIRST"
           [] OTHER -> down_fsm_state
  BY DEF Down!ClockRegisters, Down!FsmState
<1>9. down_index = 0 => (Down!last(0) <=> l)
  OBVIOUS
<1>10. /\ narrow_tvalid' = IF narrow_tready THEN v ELSE narrow_tvalid
       /\ narrow_tdata' =
             IF narrow_tready
             THEN [lane |-> Down!buffered_tdata.lanes[down_index],
                   last |-> Down!buffered_tdata.last /\ v /\ l]
             ELSE narrow_tdata
  BY DEF Down!ClockRegisters, Down!Tx
<1> HIDE DEF v, r, t, l
<1>11. DownWaits' <=> v /\ ~DownDone
  BY <1>1, <1>2, <1>3, <1>4
<1>12. down_buffer_state' \in {"IDLE", "BUFFERED"}
  BY <1>3, <1>4
<1>13. down_index' = IF DownDone THEN 0 ELSE IF t THEN down_index + 1 ELSE down_index
  BY <1>2, <1>7
<1>14. down_fsm_state' = IF DownDone THEN "FIRST" ELSE IF t THEN "DOWNSIZE"
                                                  ELSE down_fsm_state
  <2>1. CASE down_index = 0
    BY <1>2, <1>3, <1>8, <1>9, <2>1
  <2>2. CASE down_index # 0
    BY <1>2, <1>3, <1>8, <2>2
  <2> QED
    BY <2>1, <2>2
<1> QED
  BY <1>5, <1>6, <1>10, <1>11, <1>12, <1>13, <1>14 DEF v, r, t, l

\* What a clock does to the registers of the upsizer.
LEMMA UpRegisters ==
    ASSUME ResizerInv, Up!ClockRegisters
    PROVE  /\ UpWaits' <=> Up!buffered_tvalid /\ ~Up!Taken
           /\ up_buffer_state' \in {"IDLE", "BUFFERED"}
           /\ narrow_tready' = Up!buffered_tready
           /\ up_buffered' = IF narrow_tready THEN narrow_tdata ELSE up_buffered
           /\ up_fsm_state' =
                 IF Up!Taken
                 THEN IF Up!buffered_tdata.last THEN "UPSIZE_LAST"
                      ELSE IF Up!Complete THEN "UPSIZE_NEXT" ELSE "UPSIZE"
                 ELSE IF resize_tx_tready THEN "UPSIZE" ELSE up_fsm_state
           /\ up_index' = IF Up!Taken THEN IF Up!Complete THEN 0 ELSE up_index + 1
                                      ELSE up_index
           /\ up_lanes' =
                 IF Up!Taken
                 THEN IF up_index = 0
                      THEN [k \in 0 .. WIDE - 1 |->
                               IF k = 0 THEN Up!buffered_tdata.lane ELSE NULL]
                      ELSE [up_lanes EXCEPT ![up_index] = Up!buffered_tdata.lane]
                 ELSE up_lanes
           /\ resize_tx_tvalid' = IF resize_tx_tready THEN up_fsm_state # "UPSIZE"
                                                      ELSE resize_tx_tvalid
           /\ resize_tx_tdata' =
                 IF resize_tx_tready
                 THEN [lanes |-> up_lanes, last |-> up_fsm_state = "UPSIZE_LAST"]
                 ELSE resize_tx_tdata
<1> DEFINE v == Up!buffered_tvalid
           r == Up!buffered_tready
           t == Up!Taken
           c == Up!Complete
           e == Up!buffered_tdata.last
<1>1. /\ v <=> UpWaits \/ (narrow_tvalid /\ narrow_tready)
      /\ t <=> v /\ r
      /\ v => e \in BOOLEAN
      /\ ~v => r
  BY ResizersOffered DEF Up!Taken, Up!RxWords
<1>2. /\ up_buffer_state \in {"IDLE", "BUFFERED"}
      /\ up_buffer_state = "BUFFERED" <=> UpWaits
      /\ up_buffer_state' = "BUFFERED" <=> UpWaits'
      /\ UpWaits => ~narrow_tready
      /\ up_fsm_state \in {"UPSIZE", "UPSIZE_NEXT", "UPSIZE_LAST"}
  BY DEF ResizerInv, UpWaits
<1>3. up_buffer_state' =
         CASE up_buffer_state = "IDLE" /\ narrow_tvalid /\ narrow_tready /\ ~r
                 -> "BUFFERED"
           [] up_buffer_state = "BUFFERED" /\ r -> "IDLE"
           [] OTHER -> up_buffer_state
  BY DEF Up!ClockRegisters, Up!Buffer!FsmState
<1>4. narrow_tready' = r
  BY DEF Up!ClockRegisters, Up!Buffer!RxReady
<1>5. up_buffered' = IF narrow_tready THEN narrow_tdata ELSE up_buffered
  BY DEF Up!ClockRegisters, Up!Buffer!Buffered
<1>6. up_fsm_state' = CASE t /\ e -> "UPSIZE_LAST"
                        [] t /\ ~e /\ c -> "UPSIZE_NEXT"
                        [] t /\ ~e /\ ~c -> "UPSIZE"
                        [] ~t /\ resize_tx_tready -> "UPSIZE"
                        [] OTHER -> up_fsm_state
  BY DEF Up!ClockRegisters, Up!FsmState
<1>7. up_index' = CASE t /\ c -> 0 [] t /\ ~c -> up_index + 1 [] OTHER -> up_index
  BY DEF Up!ClockRegisters, Up!Index
<1>8. up_lanes' = CASE t /\ up_index = 0 ->
                          [k \in 0 .. WIDE - 1 |->
                              IF k = 0 THEN Up!buffered_tdata.lane ELSE NULL]
                    [] t /\ up_index # 0 ->
                          [up_lanes EXCEPT ![up_index] = Up!buffered_tdata.lane]
                    [] OTHER -> up_lanes
  BY DEF Up!ClockRegisters, Up!WriteLanes, Up!Lanes
<1>9. /\ resize_tx_tvalid' = IF resize_tx_tready
                             THEN up_fsm_state \in {"UPSIZE_NEXT", "UPSIZE_LAST"}
                             ELSE resize_tx_tvalid
      /\ resize_tx_tdata' =
            IF resize_tx_tready
            THEN [lanes |-> up_lanes, last |-> up_fsm_state = "UPSIZE_LAST"]
            ELSE resize_tx_tdata
  BY DEF Up!ClockRegisters, Up!Tx
<1> HIDE DEF v, r, t, c, e
<1>10. UpWaits' <=> v /\ ~t
  BY <1>1, <1>2, <1>3
<1>11. up_buffer_state' \in {"IDLE", "BUFFERED"}
  BY <1>2, <1>3
<1>12. up_fsm_state' = IF t THEN IF e THEN "UPSIZE_LAST"
                                 ELSE IF c THEN "UPSIZE_NEXT" ELSE "UPSIZE"
                       ELSE IF resize_tx_tready THEN "UPSIZE" ELSE up_fsm_state
  BY <1>6
<1>13. up_index' = IF t THEN IF c THEN 0 ELSE up_index + 1 ELSE up_index
  BY <1>7
<1>14. up_lanes' = IF t THEN IF up_index = 0
                             THEN [k \in 0 .. WIDE - 1 |->
                                      IF k = 0 THEN Up!buffered_tdata.lane ELSE NULL]
                             ELSE [up_lanes EXCEPT ![up_index] = Up!buffered_tdata.lane]
                   ELSE up_lanes
  BY <1>8
<1>15. resize_tx_tvalid' = IF resize_tx_tready THEN up_fsm_state # "UPSIZE"
                                               ELSE resize_tx_tvalid
  BY <1>2, <1>9
<1> QED
  BY <1>4, <1>5, <1>9, <1>10, <1>11, <1>12, <1>13, <1>14, <1>15 DEF v, r, t, c, e

\* An idle driver offers a word without a byte.
LEMMA IdleTyped == Idle \in Down!RxWords
<1>1. [k \in Full |-> NULL] \in [Down!Lanes -> Bytes \cup {NULL}]
  BY DEF Full, Down!Lanes
<1> QED
  BY <1>1 DEF Idle, Down!RxWords

\* The invariant holds at first.
LEMMA ResizerBegins == ResizerInit => ResizerInv
<1> SUFFICES ASSUME ResizerInit PROVE ResizerInv
  OBVIOUS
<1>1. Down!Init /\ Up!Init /\ resize_rx_tdata \in Down!RxWords
  BY IdleTyped DEF ResizerInit
<1>2. up_lanes \in Up!LaneWords
  BY <1>1 DEF Up!Init, Up!LaneWords
<1>3. ~DownWaits /\ ~UpWaits
  BY <1>1 DEF Down!Init, Up!Init, DownWaits, UpWaits
<1> QED
  BY <1>1, <1>2, <1>3, ResizerWide DEF ResizerInv, ResizerInit, Down!Init, Up!Init

\* A clock preserves what the invariant says of the downsizer.
LEMMA DownInvEdge ==
    ASSUME ResizerInv, ResizerEdge
    PROVE  /\ resize_rx_tready' \in BOOLEAN
           /\ down_buffer_state' \in {"IDLE", "BUFFERED"}
           /\ DownWaits' => ~resize_rx_tready' /\ down_buffered' \in Down!RxWords
           /\ down_index' \in 0 .. WIDE - 1
           /\ down_fsm_state' = IF down_index' = 0 THEN "FIRST" ELSE "DOWNSIZE"
           /\ down_index' # 0 => DownWaits'
           /\ narrow_tvalid' \in BOOLEAN
           /\ narrow_tvalid' => narrow_tdata' \in Up!RxWords
<1> DEFINE v == Down!buffered_tvalid
           w == Down!buffered_tdata
           l == Down!last(down_index)
<1>1. /\ DownWaits' <=> v /\ ~DownDone
      /\ down_buffer_state' \in {"IDLE", "BUFFERED"}
      /\ resize_rx_tready' = Down!buffered_tready
      /\ down_buffered' = IF resize_rx_tready THEN resize_rx_tdata ELSE down_buffered
      /\ down_index' = IF DownDone THEN 0
                       ELSE IF Down!Taken THEN down_index + 1 ELSE down_index
      /\ down_fsm_state' = IF DownDone THEN "FIRST"
                           ELSE IF Down!Taken THEN "DOWNSIZE" ELSE down_fsm_state
      /\ narrow_tvalid' = IF narrow_tready THEN v ELSE narrow_tvalid
      /\ narrow_tdata' = IF narrow_tready
                         THEN [lane |-> w.lanes[down_index], last |-> w.last /\ v /\ l]
                         ELSE narrow_tdata
  BY DownRegisters DEF ResizerEdge
<1>2. /\ v <=> DownWaits \/ (resize_rx_tvalid /\ resize_rx_tready)
      /\ w \in Down!RxWords
      /\ Down!buffered_tready <=> IF v THEN narrow_tready /\ l ELSE down_index = 0
      /\ Down!Taken <=> v /\ narrow_tready
  BY ResizersOffered
<1>3. DownDone <=> Down!Taken /\ l
  BY DEF DownDone
<1>4. Down!buffered_tready \in BOOLEAN
  BY DEF Down!buffered_tready, Down!buffered_tvalid, Down!last, ResizerInv
<1>5. l \in BOOLEAN /\ (~l => down_index # WIDE - 1) /\ v \in BOOLEAN
  BY DEF Down!last, Down!buffered_tvalid
<1>6. /\ down_index \in 0 .. WIDE - 1
      /\ down_fsm_state = IF down_index = 0 THEN "FIRST" ELSE "DOWNSIZE"
      /\ down_index # 0 => DownWaits
      /\ DownWaits => ~resize_rx_tready /\ down_buffered \in Down!RxWords
      /\ resize_rx_tdata \in Down!RxWords
      /\ narrow_tvalid \in BOOLEAN /\ narrow_tready \in BOOLEAN
      /\ narrow_tvalid => narrow_tdata \in Up!RxWords
  BY DEF ResizerInv
<1>7. [lane |-> w.lanes[down_index], last |-> w.last /\ v /\ l] \in Up!RxWords
  BY <1>2, <1>5, <1>6 DEF Down!RxWords, Down!Lanes, Up!RxWords
<1> HIDE DEF v, w, l
<1>8. DownWaits' => ~resize_rx_tready' /\ down_buffered' \in Down!RxWords
  BY <1>1, <1>2, <1>3, <1>6
<1>9. /\ down_index' \in 0 .. WIDE - 1
      /\ down_fsm_state' = IF down_index' = 0 THEN "FIRST" ELSE "DOWNSIZE"
      /\ down_index' # 0 => DownWaits'
  <2>1. CASE DownDone
    BY <1>1, <2>1, ResizerWide
  <2>2. CASE ~DownDone /\ Down!Taken
    <3>1. down_index' = down_index + 1 /\ down_fsm_state' = "DOWNSIZE" /\ DownWaits'
      BY <1>1, <1>2, <2>2
    <3>2. down_index + 1 \in 0 .. WIDE - 1 /\ down_index + 1 # 0
      BY <1>3, <1>5, <1>6, <2>2, ResizerWide
    <3> QED
      BY <3>1, <3>2
  <2>3. CASE ~DownDone /\ ~Down!Taken
    <3>1. down_index' = down_index /\ down_fsm_state' = down_fsm_state
      BY <1>1, <2>3
    <3>2. DownWaits => DownWaits'
      BY <1>1, <1>2, <2>3
    <3> QED
      BY <1>6, <3>1, <3>2
  <2> QED
    BY <2>1, <2>2, <2>3
<1>10. narrow_tvalid' \in BOOLEAN /\ (narrow_tvalid' => narrow_tdata' \in Up!RxWords)
  BY <1>1, <1>5, <1>6, <1>7
<1> QED
  BY <1>1, <1>4, <1>8, <1>9, <1>10

\* It preserves what the invariant says of the upsizer.
LEMMA UpInvEdge ==
    ASSUME ResizerInv, ResizerEdge
    PROVE  /\ narrow_tready' \in BOOLEAN
           /\ up_buffer_state' \in {"IDLE", "BUFFERED"}
           /\ UpWaits' => ~narrow_tready' /\ up_buffered' \in Up!RxWords
           /\ up_fsm_state' \in {"UPSIZE", "UPSIZE_NEXT", "UPSIZE_LAST"}
           /\ up_index' \in 0 .. WIDE - 1
           /\ up_fsm_state' # "UPSIZE" => up_index' = 0
           /\ up_lanes' \in Up!LaneWords
           /\ up_index' # 0 =>
                 \A j \in 0 .. WIDE - 1 : j >= up_index' => up_lanes'[j] = NULL
           /\ resize_tx_tvalid' \in BOOLEAN
           /\ resize_tx_tvalid' => resize_tx_tdata' \in Up!TxWords
<1> DEFINE v == Up!buffered_tvalid
           w == Up!buffered_tdata
           t == Up!Taken
           c == Up!Complete
<1>1. /\ UpWaits' <=> v /\ ~t
      /\ up_buffer_state' \in {"IDLE", "BUFFERED"}
      /\ narrow_tready' = Up!buffered_tready
      /\ up_buffered' = IF narrow_tready THEN narrow_tdata ELSE up_buffered
      /\ up_fsm_state' = IF t THEN IF w.last THEN "UPSIZE_LAST"
                                   ELSE IF c THEN "UPSIZE_NEXT" ELSE "UPSIZE"
                         ELSE IF resize_tx_tready THEN "UPSIZE" ELSE up_fsm_state
      /\ up_index' = IF t THEN IF c THEN 0 ELSE up_index + 1 ELSE up_index
      /\ up_lanes' = IF t THEN IF up_index = 0
                               THEN [k \in 0 .. WIDE - 1 |->
                                        IF k = 0 THEN w.lane ELSE NULL]
                               ELSE [up_lanes EXCEPT ![up_index] = w.lane]
                     ELSE up_lanes
      /\ resize_tx_tvalid' = IF resize_tx_tready THEN up_fsm_state # "UPSIZE"
                                                 ELSE resize_tx_tvalid
      /\ resize_tx_tdata' = IF resize_tx_tready
                            THEN [lanes |-> up_lanes, last |-> up_fsm_state = "UPSIZE_LAST"]
                            ELSE resize_tx_tdata
  BY UpRegisters DEF ResizerEdge
<1>2. /\ v <=> UpWaits \/ (narrow_tvalid /\ narrow_tready)
      /\ w = IF UpWaits THEN up_buffered ELSE narrow_tdata
      /\ v => w \in Up!RxWords
      /\ Up!buffered_tready <=> up_fsm_state = "UPSIZE" \/ ~v \/ resize_tx_tready
  BY ResizersOffered
<1>3. t <=> v /\ Up!buffered_tready
  BY DEF Up!Taken
<1>4. c <=> up_index = WIDE - 1 \/ w.last
  BY DEF Up!Complete
<1>5. Up!buffered_tready \in BOOLEAN
  BY DEF Up!buffered_tready, Up!buffered_tvalid, ResizerInv
<1>6. /\ up_index \in 0 .. WIDE - 1
      /\ up_fsm_state \in {"UPSIZE", "UPSIZE_NEXT", "UPSIZE_LAST"}
      /\ up_fsm_state # "UPSIZE" => up_index = 0
      /\ up_lanes \in [0 .. WIDE - 1 -> Bytes \cup {NULL, UNDRIVEN}]
      /\ up_index # 0 => \A j \in 0 .. WIDE - 1 : j >= up_index => up_lanes[j] = NULL
      /\ UpWaits => ~narrow_tready /\ up_buffered \in Up!RxWords
      /\ narrow_tvalid => narrow_tdata \in Up!RxWords
      /\ resize_tx_tvalid \in BOOLEAN /\ resize_tx_tready \in BOOLEAN
      /\ resize_tx_tvalid => resize_tx_tdata \in Up!TxWords
      /\ narrow_tready \in BOOLEAN
  BY DEF ResizerInv, Up!LaneWords, Up!Lanes
<1>7. v => w.lane \in Bytes \cup {NULL} /\ w.last \in BOOLEAN
  BY <1>2 DEF Up!RxWords
<1>8. [lanes |-> up_lanes, last |-> up_fsm_state = "UPSIZE_LAST"] \in Up!TxWords
  BY <1>6 DEF Up!TxWords, Up!LaneWords, Up!Lanes
<1> HIDE DEF v, w, t, c
<1>9. UpWaits' => ~narrow_tready' /\ up_buffered' \in Up!RxWords
  BY <1>1, <1>2, <1>3, <1>6
<1>10. /\ up_fsm_state' \in {"UPSIZE", "UPSIZE_NEXT", "UPSIZE_LAST"}
       /\ up_index' \in 0 .. WIDE - 1
       /\ up_fsm_state' # "UPSIZE" => up_index' = 0
  <2>1. CASE t /\ c
    BY <1>1, <2>1, ResizerWide
  <2>2. CASE t /\ ~c
    <3>1. up_fsm_state' = "UPSIZE" /\ up_index' = up_index + 1
      BY <1>1, <1>4, <2>2
    <3>2. up_index + 1 \in 0 .. WIDE - 1
      BY <1>4, <1>6, <2>2, ResizerWide
    <3> QED
      BY <3>1, <3>2
  <2>3. CASE ~t
    BY <1>1, <1>6, <2>3
  <2> QED
    BY <2>1, <2>2, <2>3
<1>11. /\ up_lanes' \in [0 .. WIDE - 1 -> Bytes \cup {NULL, UNDRIVEN}]
       /\ up_index' # 0 =>
             \A j \in 0 .. WIDE - 1 : j >= up_index' => up_lanes'[j] = NULL
  <2>1. CASE ~t
    BY <1>1, <1>6, <2>1
  <2>2. CASE t /\ up_index = 0
    <3>1. /\ up_lanes' = [k \in 0 .. WIDE - 1 |-> IF k = 0 THEN w.lane ELSE NULL]
          /\ up_index' = 0 \/ up_index' = up_index + 1
      BY <1>1, <2>2
    <3>2. w.lane \in Bytes \cup {NULL}
      BY <1>3, <1>7, <2>2
    <3> QED
      BY <2>2, <3>1, <3>2, ResizerWide
  <2>3. CASE t /\ up_index # 0
    <3>1. /\ up_lanes' = [up_lanes EXCEPT ![up_index] = w.lane]
          /\ up_index' = 0 \/ up_index' = up_index + 1
      BY <1>1, <2>3
    <3>2. w.lane \in Bytes \cup {NULL}
      BY <1>3, <1>7, <2>3
    <3> QED
      BY <1>6, <2>3, <3>1, <3>2, ResizerWide
  <2> QED
    BY <2>1, <2>2, <2>3
<1>12. resize_tx_tvalid' \in BOOLEAN /\ (resize_tx_tvalid' => resize_tx_tdata' \in Up!TxWords)
  BY <1>1, <1>6, <1>8
<1> QED
  BY <1>1, <1>5, <1>9, <1>10, <1>11, <1>12 DEF Up!LaneWords, Up!Lanes

\* A clock preserves the invariant.
LEMMA ResizerInvEdge == ResizerInv /\ ResizerEdge => ResizerInv'
<1> SUFFICES ASSUME ResizerInv, ResizerEdge PROVE ResizerInv'
  OBVIOUS
<1>1. /\ resize_areset_n' \in BOOLEAN
      /\ resize_rx_tvalid' \in BOOLEAN /\ resize_rx_tdata' \in Down!RxWords
      /\ resize_tx_tready' \in BOOLEAN
  BY DEF ResizerEdge, ResizerInv
<1>2. /\ resize_rx_tready' \in BOOLEAN
      /\ down_buffer_state' \in {"IDLE", "BUFFERED"}
      /\ DownWaits' => ~resize_rx_tready' /\ down_buffered' \in Down!RxWords
      /\ down_index' \in 0 .. WIDE - 1
      /\ down_fsm_state' = IF down_index' = 0 THEN "FIRST" ELSE "DOWNSIZE"
      /\ down_index' # 0 => DownWaits'
      /\ narrow_tvalid' \in BOOLEAN
      /\ narrow_tvalid' => narrow_tdata' \in Up!RxWords
  BY DownInvEdge
<1>3. /\ narrow_tready' \in BOOLEAN
      /\ up_buffer_state' \in {"IDLE", "BUFFERED"}
      /\ UpWaits' => ~narrow_tready' /\ up_buffered' \in Up!RxWords
      /\ up_fsm_state' \in {"UPSIZE", "UPSIZE_NEXT", "UPSIZE_LAST"}
      /\ up_index' \in 0 .. WIDE - 1
      /\ up_fsm_state' # "UPSIZE" => up_index' = 0
      /\ up_lanes' \in Up!LaneWords
      /\ up_index' # 0 =>
            \A j \in 0 .. WIDE - 1 : j >= up_index' => up_lanes'[j] = NULL
      /\ resize_tx_tvalid' \in BOOLEAN
      /\ resize_tx_tvalid' => resize_tx_tdata' \in Up!TxWords
  BY UpInvEdge
<1> QED
  BY <1>1, <1>2, <1>3 DEF ResizerInv, Down!RxWords, Down!Lanes, Up!RxWords,
     Up!LaneWords, Up!Lanes, Up!TxWords, Bytes

\* Downsizer and upsizer in reset.
ResizerEmpty ==
    /\ ~resize_areset_n /\ ~resize_rx_tready
    /\ ~DownWaits /\ ~narrow_tvalid
    /\ ~UpWaits /\ up_fsm_state = "UPSIZE" /\ up_index = 0
    /\ ~resize_tx_tvalid

\* The reset makes the invariant hold.
LEMMA ResizerInvReset ==
    ResizerInv /\ ResizerReset => ResizerInv' /\ ResizerEmpty'
<1> SUFFICES ASSUME ResizerInv, ResizerReset PROVE ResizerInv' /\ ResizerEmpty'
  OBVIOUS
<1>1. /\ resize_areset_n' = FALSE /\ resize_rx_tvalid' = FALSE /\ resize_tx_tready' = FALSE
      /\ resize_rx_tdata' \in Down!RxWords
  BY IdleTyped DEF ResizerReset
<1>2. /\ down_buffer_state' = "IDLE" /\ resize_rx_tready' = FALSE
      /\ down_fsm_state' = "FIRST" /\ down_index' = 0 /\ narrow_tvalid' = FALSE
      /\ up_buffer_state' = "IDLE" /\ narrow_tready' = FALSE
      /\ up_fsm_state' = "UPSIZE" /\ up_index' = 0 /\ resize_tx_tvalid' = FALSE
      /\ up_lanes' = up_lanes
  BY DEF ResizerReset, Down!ResetRegisters, Up!ResetRegisters
<1>3. up_lanes' \in Up!LaneWords
  BY <1>2 DEF ResizerInv
<1>4. ~DownWaits' /\ ~UpWaits'
  BY <1>2 DEF DownWaits, UpWaits
<1> QED
  BY <1>1, <1>2, <1>3, <1>4, ResizerWide DEF ResizerInv, ResizerEmpty, Down!RxWords,
     Down!Lanes, Up!RxWords, Up!LaneWords, Up!Lanes, Up!TxWords, Bytes

\* The invariant stays as it is while the registers and the ports do.
LEMMA ResizerInvStill ==
    ResizerInv /\ resize_areset_n' \in BOOLEAN
    /\ UNCHANGED <<resize_rx_tvalid, resize_rx_tdata, resize_tx_tready, down, up>>
        => ResizerInv'
BY DEF ResizerInv, down, up, DownWaits, UpWaits, Down!RxWords, Down!Lanes, Up!RxWords,
       Up!LaneWords, Up!Lanes, Up!TxWords, Bytes

\* The word that the driver of the Rx port numbers is one of the downsizer's.
LEMMA NumberedTyped ==
    ASSUME NEW word \in Shapes, NEW first \in Nat
    PROVE  /\ [lanes |-> Numbered(word.kept, first), last |-> word.last] \in Down!RxWords
           /\ (first + Cardinality(word.kept)) % MaxBytes \in Nat
<1>1. MaxBytes \in Nat /\ MaxBytes >= 1 /\ WIDE \in Nat /\ WIDE >= 1
  BY ResizerAssumption
<1>2. word.kept \subseteq Full /\ word.last \in BOOLEAN
  <2>1. 0 \in Full
    BY <1>1 DEF Full
  <2>2. {0} \subseteq Full /\ Full \ {0} \subseteq Full /\ {} \subseteq Full
    BY <2>1
  <2>3. \E kept \in {Full, Full \ {0}, {0}, {}} : \E end \in BOOLEAN :
           word = [kept |-> kept, last |-> end]
    BY DEF Shapes
  <2>4. PICK kept \in {Full, Full \ {0}, {0}, {}}, end \in BOOLEAN :
           word = [kept |-> kept, last |-> end]
    BY <2>3
  <2>5. kept \subseteq Full
    BY <2>2
  <2> QED
    BY <2>4, <2>5
<1>3. IsFiniteSet(Full)
  BY <1>1, FS_Interval DEF Full
<1>4. \A part : part \subseteq Full => Cardinality(part) \in Nat
  BY <1>3, FS_Subset, FS_CardinalityType
<1>5. \A n \in Nat : n % MaxBytes \in 0 .. MaxBytes - 1
  BY <1>1
<1>6. ASSUME NEW k \in Full
      PROVE  Numbered(word.kept, first)[k] \in Bytes \cup {NULL}
  <2> DEFINE before == Cardinality({j \in word.kept : j < k})
  <2>1. before \in Nat
    <3>1. {j \in word.kept : j < k} \subseteq Full
      BY <1>2
    <3> QED
      BY <1>4, <3>1
  <2>2. Numbered(word.kept, first)[k] = IF k \in word.kept THEN (first + before) % MaxBytes
                                                           ELSE NULL
    BY DEF Numbered
  <2> HIDE DEF before
  <2>3. (first + before) % MaxBytes \in 0 .. MaxBytes - 1
    BY <1>5, <2>1
  <2> QED
    BY <2>2, <2>3 DEF Bytes
<1>7. Numbered(word.kept, first) \in [Down!Lanes -> Bytes \cup {NULL}]
  <2>1. Numbered(word.kept, first) = [k \in Full |-> Numbered(word.kept, first)[k]]
    BY DEF Numbered
  <2>2. Full = Down!Lanes
    BY DEF Full, Down!Lanes
  <2> QED
    BY <1>6, <2>1, <2>2
<1>8. (first + Cardinality(word.kept)) % MaxBytes \in Nat
  <2> DEFINE n == Cardinality(word.kept)
  <2>1. n \in Nat
    BY <1>2, <1>4
  <2> HIDE DEF n
  <2>2. first + n \in Nat
    BY <2>1
  <2>3. (first + n) % MaxBytes \in 0 .. MaxBytes - 1
    BY <1>5, <2>2
  <2>4. (first + n) % MaxBytes \in Nat
    BY <1>1, <2>3
  <2> QED
    BY <2>4 DEF n
<1> QED
  BY <1>2, <1>7, <1>8 DEF Down!RxWords

\* So a clock of the composition is one with some word on Rx.
LEMMA ResizerClocked ==
    ResizerInv /\ next_byte \in Nat /\ ResizerClock => ResizerEdge /\ next_byte' \in Nat
<1> SUFFICES ASSUME ResizerInv, next_byte \in Nat, ResizerClock
             PROVE  ResizerEdge /\ next_byte' \in Nat
  OBVIOUS
<1>1. /\ resize_rx_tvalid' \in BOOLEAN
      /\ resize_rx_tdata' \in Down!RxWords
      /\ next_byte' \in Nat
  <2>1. CASE UNCHANGED <<resize_rx_tvalid, resize_rx_tdata, next_byte>>
    BY <2>1 DEF ResizerInv, Down!RxWords, Down!Lanes, Bytes
  <2>2. CASE /\ resize_rx_tvalid' = TRUE
             /\ \E word \in Shapes :
                   /\ resize_rx_tdata' = [lanes |-> Numbered(word.kept, next_byte),
                                          last  |-> word.last]
                   /\ next_byte' = (next_byte + Cardinality(word.kept)) % MaxBytes
    BY <2>2, NumberedTyped
  <2>3. CASE resize_rx_tvalid' = FALSE /\ resize_rx_tdata' = Idle /\ UNCHANGED next_byte
    BY <2>3, IdleTyped
  <2> QED
    BY <2>1, <2>2, <2>3 DEF ResizerClock, ResizerDrive
<1> QED
  BY <1>1 DEF ResizerClock, ResizerEdge

-----------------------------------------------------------------------------
\* What the places contain.

\* A place that may be empty.
Shown(valid, row) == IF valid THEN row ELSE <<>>

\* A narrow word.
NarrowRow(word) == Row(Down!Kept(word.lane), Down!Mark(word.last))

\* A wide word of the upsizer.
WideRow(lanes, end) == Row(Up!UpTo(lanes, WIDE), Up!Mark(end))

\* What the upsizer has gathered.
Gathered(state, lanes, index) ==
    IF state = "UPSIZE" THEN Up!UpTo(lanes, index)
                        ELSE WideRow(lanes, state = "UPSIZE_LAST")

\* The places, from Rx to Tx.
DownSkidRow == Shown(DownWaits, Down!From(down_buffered, down_index))

NarrowPort == Shown(narrow_tvalid, NarrowRow(narrow_tdata))

UpSkidRow == Shown(UpWaits, NarrowRow(up_buffered))

UpUnitRow == Gathered(up_fsm_state, up_lanes, up_index)

WidePort == Shown(resize_tx_tvalid, WideRow(resize_tx_tdata.lanes, resize_tx_tdata.last))

\* What passes from one to the next.
BytesIn == Shown(resize_rx_tvalid /\ resize_rx_tready, Down!From(resize_rx_tdata, 0))

LanePassed ==
    Shown(Down!Taken,
          Row(Down!Kept(Down!buffered_tdata.lanes[down_index]),
              Down!Mark(Down!buffered_tdata.last /\ Down!last(down_index))))

NarrowTaken == Shown(narrow_tvalid /\ narrow_tready, NarrowRow(narrow_tdata))

UpTaken == Shown(Up!Taken, NarrowRow(Up!buffered_tdata))

WordPassed ==
    Shown(up_fsm_state # "UPSIZE" /\ resize_tx_tready,
          WideRow(up_lanes, up_fsm_state = "UPSIZE_LAST"))

BytesOut ==
    Shown(resize_tx_tvalid /\ resize_tx_tready,
          WideRow(resize_tx_tdata.lanes, resize_tx_tdata.last))

\* Nothing is a sequence.
LEMMA NothingTyped == <<>> \in Seq(StreamItems)
OBVIOUS

\* Narrow and wide words are sequences.
LEMMA WordsTyped ==
    /\ \A word \in Up!RxWords : NarrowRow(word) \in Seq(StreamItems)
    /\ \A lanes \in Up!LaneWords : \A end :
          WideRow(lanes, end) \in Seq(StreamItems)
    /\ \A lanes \in Up!LaneWords : \A index \in 0 .. WIDE : \A state :
          Gathered(state, lanes, index) \in Seq(StreamItems)
<1>1. ASSUME NEW word \in Up!RxWords PROVE NarrowRow(word) \in Seq(StreamItems)
  <2>1. word.lane \in Bytes \cup {NULL, UNDRIVEN}
    BY DEF Up!RxWords
  <2>2. /\ Down!Kept(word.lane) \in Seq(StreamItems)
        /\ Down!Mark(word.last) \in Seq(StreamItems)
    BY <2>1, LaneTyped
  <2> QED
    BY <2>2, RowSeq DEF NarrowRow
<1>2. WIDE \in Nat /\ WIDE \in 0 .. WIDE
  BY ResizerWide
<1>3. ASSUME NEW lanes \in Up!LaneWords, NEW end
      PROVE  WideRow(lanes, end) \in Seq(StreamItems)
  <2>1. Up!UpTo(lanes, WIDE) \in Seq(StreamItems) /\ Up!Mark(end) \in Seq(StreamItems)
    BY <1>2, UpToSeq, LaneTyped
  <2> QED
    BY <2>1, RowSeq DEF WideRow
<1>4. ASSUME NEW lanes \in Up!LaneWords, NEW index \in 0 .. WIDE, NEW state
      PROVE  Gathered(state, lanes, index) \in Seq(StreamItems)
  <2>1. Up!UpTo(lanes, index) \in Seq(StreamItems)
    BY <1>2, UpToSeq
  <2> QED
    BY <1>3, <2>1 DEF Gathered
<1> QED
  BY <1>1, <1>3, <1>4

\* So are the places, and what passes.
LEMMA ResizerPlaces ==
    ResizerInv => /\ DownSkidRow \in Seq(StreamItems)
                  /\ NarrowPort \in Seq(StreamItems)
                  /\ UpSkidRow \in Seq(StreamItems)
                  /\ UpUnitRow \in Seq(StreamItems)
                  /\ WidePort \in Seq(StreamItems)
<1> SUFFICES ASSUME ResizerInv
             PROVE  /\ DownSkidRow \in Seq(StreamItems)
                    /\ NarrowPort \in Seq(StreamItems)
                    /\ UpSkidRow \in Seq(StreamItems)
                    /\ UpUnitRow \in Seq(StreamItems)
                    /\ WidePort \in Seq(StreamItems)
  OBVIOUS
<1>1. WIDE \in Nat /\ down_index \in 0 .. WIDE /\ up_index \in 0 .. WIDE
  BY ResizerWide DEF ResizerInv
<1>2. DownSkidRow \in Seq(StreamItems)
  <2>1. DownWaits => Down!From(down_buffered, down_index) \in Seq(StreamItems)
    BY <1>1, FromSeq DEF ResizerInv
  <2> QED
    BY <2>1, NothingTyped DEF DownSkidRow, Shown
<1>3. NarrowPort \in Seq(StreamItems)
  <2>1. narrow_tvalid => NarrowRow(narrow_tdata) \in Seq(StreamItems)
    BY WordsTyped DEF ResizerInv
  <2> QED
    BY <2>1, NothingTyped DEF NarrowPort, Shown
<1>4. UpSkidRow \in Seq(StreamItems)
  <2>1. UpWaits => NarrowRow(up_buffered) \in Seq(StreamItems)
    BY WordsTyped DEF ResizerInv
  <2> QED
    BY <2>1, NothingTyped DEF UpSkidRow, Shown
<1>5. UpUnitRow \in Seq(StreamItems)
  <2>1. up_lanes \in Up!LaneWords
    BY DEF ResizerInv
  <2> QED
    BY <1>1, <2>1, WordsTyped DEF UpUnitRow
<1>6. WidePort \in Seq(StreamItems)
  <2>1. resize_tx_tvalid => resize_tx_tdata.lanes \in Up!LaneWords
    BY DEF ResizerInv, Up!TxWords
  <2>2. resize_tx_tvalid
           => WideRow(resize_tx_tdata.lanes, resize_tx_tdata.last) \in Seq(StreamItems)
    BY <2>1, WordsTyped
  <2> QED
    BY <2>2, NothingTyped DEF WidePort, Shown
<1> QED
  BY <1>2, <1>3, <1>4, <1>5, <1>6

\* The places after a step.
LEMMA ResizerPlacesNext ==
    (ResizerInv => /\ DownSkidRow \in Seq(StreamItems)
                   /\ NarrowPort \in Seq(StreamItems)
                   /\ UpSkidRow \in Seq(StreamItems)
                   /\ UpUnitRow \in Seq(StreamItems)
                   /\ WidePort \in Seq(StreamItems))'
BY ResizerPlaces, PTL

\* What they contain then.
LEMMA ResizerPlacesAfter ==
    /\ DownSkidRow' = Shown(DownWaits', Down!From(down_buffered', down_index'))
    /\ NarrowPort' = Shown(narrow_tvalid', NarrowRow(narrow_tdata'))
    /\ UpSkidRow' = Shown(UpWaits', NarrowRow(up_buffered'))
    /\ UpUnitRow' = Gathered(up_fsm_state', up_lanes', up_index')
    /\ WidePort' = Shown(resize_tx_tvalid',
                         WideRow(resize_tx_tdata'.lanes, resize_tx_tdata'.last))
BY DEF DownSkidRow, NarrowPort, UpSkidRow, UpUnitRow, WidePort

-----------------------------------------------------------------------------
\* What a place takes and what it gives, in a clock.

\* What comes into the downsizer, and the lanes that its unit sends, are sequences.
LEMMA DownPassesTyped ==
    ASSUME ResizerInv
    PROVE  BytesIn \in Seq(StreamItems) /\ LanePassed \in Seq(StreamItems)
<1>1. WIDE \in Nat /\ 0 \in 0 .. WIDE /\ down_index \in 0 .. WIDE - 1
  BY ResizerWide DEF ResizerInv
<1>2. Down!From(resize_rx_tdata, 0) \in Seq(StreamItems)
  BY <1>1, FromSeq DEF ResizerInv
<1>3. Down!buffered_tdata.lanes[down_index] \in Bytes \cup {NULL, UNDRIVEN}
  <2>1. Down!buffered_tdata \in Down!RxWords
    BY ResizersOffered
  <2> QED
    BY <1>1, <2>1 DEF Down!RxWords, Down!Lanes
<1>4. Row(Down!Kept(Down!buffered_tdata.lanes[down_index]),
          Down!Mark(Down!buffered_tdata.last /\ Down!last(down_index)))
         \in Seq(StreamItems)
  BY <1>3, LaneTyped, RowSeq
<1> QED
  BY <1>2, <1>4, NothingTyped DEF BytesIn, LanePassed, Shown

\* The skid buffer and the unit of the downsizer: the lanes of the word that
\* were not sent remain.
LEMMA DownSkidConveys ==
    ASSUME ResizerInv, ResizerInv', ResizerEdge
    PROVE  Conveys(StreamItems, DownSkidRow, BytesIn, LanePassed, DownSkidRow')
<1> DEFINE v == Down!buffered_tvalid
           w == Down!buffered_tdata
           l == Down!last(down_index)
           t == Down!Taken
           F(i) == Down!From(w, i)
           lane == Down!Kept(w.lanes[down_index])
           mark == Down!Mark(w.last)
<1>1. /\ DownWaits' <=> v /\ ~DownDone
      /\ down_buffered' = IF resize_rx_tready THEN resize_rx_tdata ELSE down_buffered
      /\ down_index' = IF DownDone THEN 0 ELSE IF t THEN down_index + 1 ELSE down_index
  BY DownRegisters DEF ResizerEdge
<1>2. /\ v <=> DownWaits \/ (resize_rx_tvalid /\ resize_rx_tready)
      /\ w = IF DownWaits THEN down_buffered ELSE resize_rx_tdata
      /\ t <=> v /\ narrow_tready
      /\ w \in Down!RxWords
  BY ResizersOffered
<1>3. DownDone <=> t /\ l
  BY DEF DownDone
<1>4. /\ down_index \in 0 .. WIDE - 1
      /\ down_index # 0 => DownWaits
      /\ DownWaits => ~resize_rx_tready
      /\ DownSkidRow \in Seq(StreamItems) /\ DownSkidRow' \in Seq(StreamItems)
      /\ BytesIn \in Seq(StreamItems) /\ LanePassed \in Seq(StreamItems)
  <2>1. DownSkidRow \in Seq(StreamItems) /\ DownSkidRow' \in Seq(StreamItems)
    BY ResizerPlaces, ResizerPlacesNext
  <2>2. BytesIn \in Seq(StreamItems) /\ LanePassed \in Seq(StreamItems)
    BY DownPassesTyped
  <2> QED
    BY <2>1, <2>2 DEF ResizerInv
<1>5. DownSkidRow' = Shown(DownWaits', Down!From(down_buffered', down_index'))
  BY ResizerPlacesAfter
<1>6. lane \in Seq(StreamItems) /\ mark \in Seq(StreamItems)
  <2>1. w.lanes[down_index] \in Bytes \cup {NULL, UNDRIVEN}
    BY <1>2, <1>4 DEF Down!RxWords, Down!Lanes
  <2> QED
    BY <2>1, LaneTyped
<1>7. F(down_index) = Row(lane, F(down_index + 1))
  BY <1>4, FromNext, ResizerWide
<1>8. l => F(down_index + 1) = mark
  <2> SUFFICES ASSUME l PROVE Down!From(w, down_index + 1) = Down!Mark(w.last)
    OBVIOUS
  <2>1. \A j \in 0 .. WIDE - 1 : j >= down_index + 1 => w.lanes[j] = NULL
    BY <1>4, ResizerWide DEF Down!last, Down!Lanes
  <2>2. down_index + 1 \in 0 .. WIDE
    BY <1>4, ResizerWide
  <2> HIDE DEF w
  <2> QED
    BY <2>1, <2>2, FromEnd, ResizerWide
<1>9. LanePassed = Shown(t, Row(lane, Down!Mark(w.last /\ l)))
  BY DEF LanePassed
<1>10. (l => Down!Mark(w.last /\ l) = mark) /\ (~l => Down!Mark(w.last /\ l) = <<>>)
  BY DEF Down!Mark
<1>11. Row(DownSkidRow, BytesIn) = Shown(v, F(down_index))
  <2>1. CASE DownWaits
    <3>1. v /\ BytesIn = <<>> /\ DownSkidRow = F(down_index)
      BY <1>2, <1>4, <2>1 DEF BytesIn, DownSkidRow, Shown
    <3> HIDE DEF v, F
    <3>2. Row(DownSkidRow, BytesIn) = DownSkidRow
      BY <1>4, <3>1, RowEmpty
    <3> QED
      BY <3>1, <3>2 DEF Shown
  <2>2. CASE ~DownWaits
    <3>1. DownSkidRow = <<>> /\ BytesIn = Shown(v, F(down_index))
      BY <1>2, <1>4, <2>2 DEF BytesIn, DownSkidRow, Shown
    <3> HIDE DEF v, F
    <3> QED
      BY <1>4, <3>1, RowEmpty
  <2> QED
    BY <2>1, <2>2
<1>12. DownSkidRow' = Shown(v /\ ~DownDone, F(down_index'))
  <2>1. v => down_buffered' = w
    BY <1>1, <1>2, <1>4
  <2> HIDE DEF v, w
  <2> QED
    BY <1>1, <1>5, <2>1 DEF Shown
<1> HIDE DEF v, w, l, t, F, lane, mark
<1>13. Row(LanePassed, DownSkidRow') = Shown(v, F(down_index))
  <2>1. CASE ~t
    <3>1. /\ LanePassed = <<>>
          /\ DownSkidRow' = Shown(v, F(down_index))
      BY <1>1, <1>3, <1>9, <1>12, <2>1 DEF Shown
    <3> QED
      BY <1>4, <3>1, RowEmpty
  <2>2. CASE t /\ ~l
    <3>1. LanePassed = Row(lane, <<>>) /\ DownSkidRow' = F(down_index + 1)
      BY <1>1, <1>2, <1>3, <1>9, <1>10, <1>12, <2>2 DEF Shown
    <3>2. LanePassed = lane
      BY <1>6, <3>1, RowEmpty
    <3> QED
      BY <1>2, <1>7, <2>2, <3>1, <3>2 DEF Shown
  <2>3. CASE t /\ l
    <3>1. LanePassed = Row(lane, mark) /\ DownSkidRow' = <<>>
      BY <1>3, <1>9, <1>10, <1>12, <2>3 DEF Shown
    <3>2. F(down_index) = Row(lane, mark)
      BY <1>7, <1>8, <2>3
    <3>3. Row(LanePassed, DownSkidRow') = LanePassed
      BY <1>4, <3>1, RowEmpty
    <3> QED
      BY <1>2, <2>3, <3>1, <3>2, <3>3 DEF Shown
  <2> QED
    BY <2>1, <2>2, <2>3
<1> QED
  BY <1>4, <1>11, <1>13 DEF Conveys

\* A register whose word is taken, and which is loaded, when it is ready.
PlaceMoves(part, coming, given, after, valid, ready, loads, row, new, valid2, row2) ==
    /\ {valid, ready, loads} \subseteq BOOLEAN
    /\ part = Shown(valid, row) /\ part \in Seq(StreamItems)
    /\ coming = Shown(loads /\ ready, new) /\ coming \in Seq(StreamItems)
    /\ given = Shown(valid /\ ready, row)
    /\ after = Shown(valid2, row2)
    /\ valid2 = (IF ready THEN loads ELSE valid)
    /\ valid2 => row2 = (IF ready THEN new ELSE row)

\* What it gives is what it had, what it keeps is what came, or the other way round.
LEMMA PlaceConveys ==
    ASSUME NEW part, NEW coming, NEW given, NEW after, NEW valid, NEW ready, NEW loads,
           NEW row, NEW new, NEW valid2, NEW row2,
           PlaceMoves(part, coming, given, after, valid, ready, loads, row, new,
                      valid2, row2)
    PROVE  Conveys(StreamItems, part, coming, given, after)
<1> USE DEF PlaceMoves
<1>1. CASE ready
  <2>1. given = part /\ after = coming
    BY <1>1 DEF Shown
  <2> QED
    BY <2>1 DEF Conveys
<1>2. CASE ~ready
  <2>1. given = <<>> /\ coming = <<>> /\ after = part
    BY <1>2 DEF Shown
  <2>2. Row(part, <<>>) = Row(<<>>, part)
    BY RowEmpty
  <2> QED
    BY <2>1, <2>2, NothingTyped DEF Conveys
<1> QED
  BY <1>1, <1>2

\* The port between the downsizer and the upsizer.
LEMMA NarrowConveys ==
    ASSUME ResizerInv, ResizerInv', ResizerEdge
    PROVE  Conveys(StreamItems, NarrowPort, LanePassed, NarrowTaken, NarrowPort')
<1> DEFINE loads == Down!buffered_tvalid
           w == Down!buffered_tdata
           l == Down!last(down_index)
           new == Row(Down!Kept(w.lanes[down_index]), Down!Mark(w.last /\ l))
           row2 == NarrowRow(narrow_tdata')
<1>1. /\ narrow_tvalid' = IF narrow_tready THEN loads ELSE narrow_tvalid
      /\ narrow_tdata' =
            IF narrow_tready
            THEN [lane |-> w.lanes[down_index], last |-> w.last /\ loads /\ l]
            ELSE narrow_tdata
  BY DownRegisters DEF ResizerEdge
<1>2. /\ narrow_tvalid \in BOOLEAN /\ narrow_tready \in BOOLEAN
      /\ NarrowPort \in Seq(StreamItems)
      /\ LanePassed \in Seq(StreamItems)
  <2>1. NarrowPort \in Seq(StreamItems) /\ LanePassed \in Seq(StreamItems)
    BY ResizerPlaces, DownPassesTyped
  <2> QED
    BY <2>1 DEF ResizerInv
<1>3. loads \in BOOLEAN
  BY DEF Down!buffered_tvalid
<1>4. LanePassed = Shown(loads /\ narrow_tready, new)
  BY DEF LanePassed, Down!Taken
<1>5. NarrowPort = Shown(narrow_tvalid, NarrowRow(narrow_tdata))
      /\ NarrowTaken = Shown(narrow_tvalid /\ narrow_tready, NarrowRow(narrow_tdata))
  BY DEF NarrowPort, NarrowTaken
<1>6. NarrowPort' = Shown(narrow_tvalid', row2)
  BY ResizerPlacesAfter
<1>7. narrow_tvalid' => row2 = IF narrow_tready THEN new ELSE NarrowRow(narrow_tdata)
  <2>1. CASE narrow_tready /\ loads
    <3>1. /\ narrow_tdata'.lane = w.lanes[down_index]
          /\ narrow_tdata'.last = (w.last /\ loads /\ l)
      BY <1>1, <2>1
    <3>2. Down!Mark(narrow_tdata'.last) = Down!Mark(w.last /\ l)
      BY <2>1, <3>1 DEF Down!Mark
    <3> QED
      BY <2>1, <3>1, <3>2 DEF NarrowRow
  <2>2. CASE narrow_tready /\ ~loads
    BY <1>1, <2>2
  <2>3. CASE ~narrow_tready
    BY <1>1, <2>3
  <2> QED
    BY <2>1, <2>2, <2>3
<1> DEFINE row == NarrowRow(narrow_tdata)
           valid2 == narrow_tvalid'
<1> HIDE DEF loads, new, row2, row, valid2
<1>8. PlaceMoves(NarrowPort, LanePassed, NarrowTaken, NarrowPort', narrow_tvalid,
                 narrow_tready, loads, row, new, valid2, row2)
  BY <1>1, <1>2, <1>3, <1>4, <1>5, <1>6, <1>7 DEF PlaceMoves, row, valid2
<1> QED
  BY <1>8, PlaceConveys

\* What the skid buffer of the upsizer passes on, and what its unit sends.
LEMMA UpPassesTyped ==
    ASSUME ResizerInv
    PROVE  /\ NarrowTaken \in Seq(StreamItems)
           /\ UpTaken \in Seq(StreamItems)
           /\ WordPassed \in Seq(StreamItems)
           /\ BytesOut \in Seq(StreamItems)
<1>1. /\ narrow_tvalid => NarrowRow(narrow_tdata) \in Seq(StreamItems)
      /\ resize_tx_tvalid => resize_tx_tdata.lanes \in Up!LaneWords
      /\ up_lanes \in Up!LaneWords
  BY WordsTyped DEF ResizerInv, Up!TxWords
<1>2. Up!buffered_tvalid => NarrowRow(Up!buffered_tdata) \in Seq(StreamItems)
  BY ResizersOffered, WordsTyped
<1>3. Up!Taken => Up!buffered_tvalid
  BY DEF Up!Taken
<1>4. NarrowTaken \in Seq(StreamItems)
  BY <1>1, NothingTyped DEF NarrowTaken, Shown
<1>5. UpTaken \in Seq(StreamItems)
  BY <1>2, <1>3, NothingTyped DEF UpTaken, Shown
<1>6. WordPassed \in Seq(StreamItems)
  <2>1. WideRow(up_lanes, up_fsm_state = "UPSIZE_LAST") \in Seq(StreamItems)
    BY <1>1, WordsTyped
  <2> QED
    BY <2>1, NothingTyped DEF WordPassed, Shown
<1>7. BytesOut \in Seq(StreamItems)
  <2>1. resize_tx_tvalid
           => WideRow(resize_tx_tdata.lanes, resize_tx_tdata.last) \in Seq(StreamItems)
    BY <1>1, WordsTyped
  <2> QED
    BY <2>1, NothingTyped DEF BytesOut, Shown
<1> QED
  BY <1>4, <1>5, <1>6, <1>7

\* The skid buffer of the upsizer keeps the word that its unit did not take.
LEMMA UpSkidConveys ==
    ASSUME ResizerInv, ResizerInv', ResizerEdge
    PROVE  Conveys(StreamItems, UpSkidRow, NarrowTaken, UpTaken, UpSkidRow')
<1> DEFINE v == Up!buffered_tvalid
           w == Up!buffered_tdata
           t == Up!Taken
<1>1. /\ UpWaits' <=> v /\ ~t
      /\ up_buffered' = IF narrow_tready THEN narrow_tdata ELSE up_buffered
  BY UpRegisters DEF ResizerEdge
<1>2. /\ v <=> UpWaits \/ (narrow_tvalid /\ narrow_tready)
      /\ w = IF UpWaits THEN up_buffered ELSE narrow_tdata
  BY ResizersOffered
<1>3. t => v
  BY DEF Up!Taken
<1>4. UpWaits => ~narrow_tready
  BY DEF ResizerInv
<1>5. /\ UpSkidRow \in Seq(StreamItems) /\ UpSkidRow' \in Seq(StreamItems)
      /\ NarrowTaken \in Seq(StreamItems) /\ UpTaken \in Seq(StreamItems)
  BY ResizerPlaces, ResizerPlacesNext, UpPassesTyped
<1>6. UpTaken = Shown(t, NarrowRow(w))
  BY DEF UpTaken
<1> HIDE DEF v, w, t
<1>7. UpSkidRow' = Shown(v /\ ~t, NarrowRow(w))
  <2>1. UpSkidRow' = Shown(UpWaits', NarrowRow(up_buffered'))
    BY ResizerPlacesAfter
  <2>2. v => up_buffered' = w
    BY <1>1, <1>2, <1>4
  <2> QED
    BY <1>1, <2>1, <2>2 DEF Shown
<1>8. Row(UpSkidRow, NarrowTaken) = Shown(v, NarrowRow(w))
  <2>1. CASE UpWaits
    <3>1. NarrowTaken = <<>> /\ UpSkidRow = Shown(v, NarrowRow(w))
      BY <1>2, <1>4, <2>1 DEF NarrowTaken, UpSkidRow, Shown
    <3> QED
      BY <1>5, <3>1, RowEmpty
  <2>2. CASE ~UpWaits
    <3>1. UpSkidRow = <<>> /\ NarrowTaken = Shown(v, NarrowRow(w))
      BY <1>2, <2>2 DEF NarrowTaken, UpSkidRow, Shown
    <3> QED
      BY <1>5, <3>1, RowEmpty
  <2> QED
    BY <2>1, <2>2
<1>9. Row(UpTaken, UpSkidRow') = Shown(v, NarrowRow(w))
  <2>1. CASE t
    <3>1. UpSkidRow' = <<>> /\ UpTaken = Shown(v, NarrowRow(w))
      BY <1>3, <1>6, <1>7, <2>1 DEF Shown
    <3> QED
      BY <1>5, <3>1, RowEmpty
  <2>2. CASE ~t
    <3>1. UpTaken = <<>> /\ UpSkidRow' = Shown(v, NarrowRow(w))
      BY <1>6, <1>7, <2>2 DEF Shown
    <3> QED
      BY <1>5, <3>1, RowEmpty
  <2> QED
    BY <2>1, <2>2
<1> QED
  BY <1>5, <1>8, <1>9 DEF Conveys

\* The unit of the upsizer adds the lane that it takes to those it gathered.
LEMMA LaneGathered ==
    ASSUME ResizerInv, ResizerInv', ResizerEdge, Up!Taken
    PROVE  UpUnitRow' = Row(Up!UpTo(up_lanes, up_index), NarrowRow(Up!buffered_tdata))
<1> DEFINE w == Up!buffered_tdata
           c == Up!Complete
           before == Up!UpTo(up_lanes, up_index)
           lane == Up!Kept(w.lane)
           all == Up!UpTo(up_lanes', WIDE)
           next == Up!UpTo(up_lanes', up_index + 1)
<1>1. /\ up_fsm_state' = IF w.last THEN "UPSIZE_LAST"
                         ELSE IF c THEN "UPSIZE_NEXT" ELSE "UPSIZE"
      /\ up_index' = IF c THEN 0 ELSE up_index + 1
      /\ up_lanes' = IF up_index = 0
                     THEN [k \in 0 .. WIDE - 1 |-> IF k = 0 THEN w.lane ELSE NULL]
                     ELSE [up_lanes EXCEPT ![up_index] = w.lane]
  BY UpRegisters DEF ResizerEdge
<1>2. c <=> up_index = WIDE - 1 \/ w.last
  BY DEF Up!Complete
<1>3. w \in Up!RxWords
  BY ResizersOffered DEF Up!Taken
<1>4. /\ up_index \in 0 .. WIDE - 1 /\ WIDE \in Nat
      /\ up_lanes \in Up!LaneWords
      /\ DOMAIN up_lanes = 0 .. WIDE - 1
      /\ up_index # 0 => \A j \in 0 .. WIDE - 1 : j >= up_index => up_lanes[j] = NULL
  BY ResizerWide DEF ResizerInv, Up!LaneWords, Up!Lanes
<1>5. up_lanes' \in Up!LaneWords
  BY DEF ResizerInv, Up!LaneWords, Up!Lanes, Bytes
<1>6. up_index \in 0 .. WIDE /\ up_index + 1 \in 0 .. WIDE /\ up_index + 1 \in 1 .. WIDE
      /\ up_index + 1 - 1 = up_index /\ WIDE \in 0 .. WIDE
  BY <1>4
<1>7. up_lanes'[up_index] = w.lane
  <2>1. CASE up_index = 0
    BY <1>1, <1>4, <2>1
  <2>2. CASE up_index # 0
    BY <1>1, <1>4, <2>2
  <2> QED
    BY <2>1, <2>2
<1>8. \A j \in 0 .. up_index - 1 : up_lanes'[j] = up_lanes[j]
  BY <1>1, <1>4
<1>9. \A j \in 0 .. WIDE - 1 : j >= up_index + 1 => up_lanes'[j] = NULL
  BY <1>1, <1>4
<1>10. Up!UpTo(up_lanes', up_index) = before
  BY <1>4, <1>6, <1>8, UpToSame
<1>11. next = Row(before, lane)
  <2>1. Up!UpTo(up_lanes', up_index + 1)
           = Row(Up!UpTo(up_lanes', up_index), Up!Kept(up_lanes'[up_index]))
    BY <1>4, <1>6, UpToNext
  <2> QED
    BY <1>7, <1>10, <2>1
<1>12. all = next
  BY <1>4, <1>5, <1>6, <1>9, UpToRest
<1>13. before \in Seq(StreamItems)
  BY <1>4, <1>6, UpToSeq
<1>14. lane \in Seq(StreamItems) /\ w.lane \in Bytes \cup {NULL, UNDRIVEN} /\ w.last \in BOOLEAN
  <2>1. w.lane \in Bytes \cup {NULL, UNDRIVEN} /\ w.last \in BOOLEAN
    BY <1>3 DEF Up!RxWords
  <2> QED
    BY <2>1, LaneTyped
<1>15. NarrowRow(w) = Row(lane, Up!Mark(w.last))
  BY DEF NarrowRow, Down!Kept, Down!Mark, Up!Kept, Up!Mark
<1>16. Row(before, NarrowRow(w)) = Row(next, Up!Mark(w.last))
  <2>1. Up!Mark(w.last) \in Seq(StreamItems)
    BY LaneTyped
  <2> HIDE DEF before, lane, next
  <2> QED
    BY <1>11, <1>13, <1>14, <1>15, <2>1, RowAssociative
<1>17. UpUnitRow' = Gathered(up_fsm_state', up_lanes', up_index')
  BY ResizerPlacesAfter
<1>18. next \in Seq(StreamItems)
  <2> HIDE DEF before, lane, next
  <2> QED
    BY <1>11, <1>13, <1>14, RowSeq
<1> HIDE DEF w, c, before, lane, next
<1>19. CASE ~c
  <2>1. up_fsm_state' = "UPSIZE" /\ up_index' = up_index + 1
    BY <1>1, <1>2, <1>19
  <2>2. UpUnitRow' = next
    BY <1>17, <2>1 DEF Gathered, next
  <2>3. Up!Mark(w.last) = <<>>
    BY <1>2, <1>19 DEF Up!Mark
  <2>4. Row(next, <<>>) = next
    BY <1>18, RowEmpty
  <2> QED
    BY <1>16, <2>2, <2>3, <2>4 DEF w, before
<1>20. CASE c
  <2>1. up_fsm_state' = IF w.last THEN "UPSIZE_LAST" ELSE "UPSIZE_NEXT"
    BY <1>1, <1>20
  <2>2. up_fsm_state' # "UPSIZE" /\ (up_fsm_state' = "UPSIZE_LAST" <=> w.last)
    BY <1>14, <2>1
  <2>3. UpUnitRow' = WideRow(up_lanes', up_fsm_state' = "UPSIZE_LAST")
    BY <1>17, <2>2 DEF Gathered
  <2>4. Up!Mark(up_fsm_state' = "UPSIZE_LAST") = Up!Mark(w.last)
    BY <1>14, <2>2 DEF Up!Mark
  <2>5. UpUnitRow' = Row(all, Up!Mark(w.last))
    BY <2>3, <2>4 DEF WideRow
  <2> HIDE DEF all
  <2> QED
    BY <1>12, <1>16, <2>5 DEF w, before
<1> QED
  BY <1>19, <1>20

\* The unit of the upsizer: a word that is complete leaves as a whole.
LEMMA UpUnitConveys ==
    ASSUME ResizerInv, ResizerInv', ResizerEdge
    PROVE  Conveys(StreamItems, UpUnitRow, UpTaken, WordPassed, UpUnitRow')
<1> DEFINE t == Up!Taken
           w == Up!buffered_tdata
           gathered == Up!UpTo(up_lanes, up_index)
<1>1. ~t => /\ up_fsm_state' = IF resize_tx_tready THEN "UPSIZE" ELSE up_fsm_state
            /\ up_index' = up_index
            /\ up_lanes' = up_lanes
  BY UpRegisters DEF ResizerEdge
<1>2. t => up_fsm_state = "UPSIZE" \/ resize_tx_tready
  BY ResizersOffered DEF Up!Taken
<1>3. t => UpUnitRow' = Row(gathered, NarrowRow(w))
  BY LaneGathered
<1>4. UpTaken = Shown(t, NarrowRow(w))
  BY DEF UpTaken
<1>5. /\ UpUnitRow \in Seq(StreamItems) /\ UpUnitRow' \in Seq(StreamItems)
      /\ UpTaken \in Seq(StreamItems) /\ WordPassed \in Seq(StreamItems)
  BY ResizerPlaces, ResizerPlacesNext, UpPassesTyped
<1>6. UpUnitRow' = Gathered(up_fsm_state', up_lanes', up_index')
  BY ResizerPlacesAfter
<1>7. /\ up_index \in 0 .. WIDE - 1
      /\ up_fsm_state # "UPSIZE" => up_index = 0
      /\ resize_tx_tready \in BOOLEAN
  BY DEF ResizerInv
<1>8. up_index = 0 => gathered = <<>>
  BY UpToNext, ResizerWide
<1> HIDE DEF t, w, gathered
<1>9. Row(UpUnitRow, UpTaken) = Row(WordPassed, UpUnitRow')
  <2>1. CASE up_fsm_state = "UPSIZE"
    <3>1. WordPassed = <<>> /\ UpUnitRow = gathered
      BY <2>1 DEF WordPassed, UpUnitRow, Gathered, Shown, gathered
    <3>2. Row(WordPassed, UpUnitRow') = UpUnitRow'
      BY <1>5, <3>1, RowEmpty
    <3>3. CASE t
      <4>1. UpTaken = NarrowRow(w)
        BY <1>4, <3>3 DEF Shown
      <4> QED
        BY <1>3, <3>1, <3>2, <3>3, <4>1
    <3>4. CASE ~t
      <4>1. UpTaken = <<>> /\ UpUnitRow' = UpUnitRow
        <5>1. up_fsm_state' = "UPSIZE" /\ up_index' = up_index /\ up_lanes' = up_lanes
          BY <1>1, <2>1, <3>4
        <5> QED
          BY <1>4, <1>6, <2>1, <3>4, <5>1 DEF UpUnitRow, Shown
      <4>2. Row(UpUnitRow, UpTaken) = UpUnitRow
        BY <1>5, <4>1, RowEmpty
      <4> QED
        BY <3>2, <4>1, <4>2
    <3> QED
      BY <3>3, <3>4
  <2>2. CASE up_fsm_state # "UPSIZE"
    <3>1. gathered = <<>>
      BY <1>7, <1>8, <2>2
    <3>2. UpUnitRow = WideRow(up_lanes, up_fsm_state = "UPSIZE_LAST")
      BY <2>2 DEF UpUnitRow, Gathered
    <3>3. resize_tx_tready => WordPassed = UpUnitRow
      BY <2>2, <3>2 DEF WordPassed, Shown
    <3>4. CASE t
      <4>1. resize_tx_tready
        BY <1>2, <2>2, <3>4
      <4>2. UpTaken = NarrowRow(w)
        BY <1>4, <3>4 DEF Shown
      <4>3. UpUnitRow' = Row(<<>>, UpTaken)
        BY <1>3, <3>1, <3>4, <4>2
      <4>4. UpUnitRow' = UpTaken
        BY <1>5, <4>3, RowEmpty
      <4> QED
        BY <3>3, <4>1, <4>4
    <3>5. CASE ~t /\ resize_tx_tready
      <4>1. up_fsm_state' = "UPSIZE" /\ up_index' = up_index /\ up_lanes' = up_lanes
        BY <1>1, <3>5
      <4>2. UpTaken = <<>> /\ UpUnitRow' = <<>>
        BY <1>4, <1>6, <3>1, <3>5, <4>1 DEF Gathered, Shown, gathered
      <4> QED
        BY <3>3, <3>5, <4>2
    <3>6. CASE ~t /\ ~resize_tx_tready
      <4>1. up_fsm_state' = up_fsm_state /\ up_index' = up_index /\ up_lanes' = up_lanes
        BY <1>1, <3>6
      <4>2. UpTaken = <<>> /\ WordPassed = <<>> /\ UpUnitRow' = UpUnitRow
        BY <1>4, <1>6, <3>6, <4>1 DEF UpUnitRow, WordPassed, Shown
      <4> QED
        BY <1>5, <4>2, RowEmpty
    <3> QED
      BY <3>4, <3>5, <3>6
  <2> QED
    BY <2>1, <2>2
<1> QED
  BY <1>5, <1>9 DEF Conveys

\* The port of the upsizer.
LEMMA WideConveys ==
    ASSUME ResizerInv, ResizerInv', ResizerEdge
    PROVE  Conveys(StreamItems, WidePort, WordPassed, BytesOut, WidePort')
<1> DEFINE loads == up_fsm_state # "UPSIZE"
           row == WideRow(resize_tx_tdata.lanes, resize_tx_tdata.last)
           new == WideRow(up_lanes, up_fsm_state = "UPSIZE_LAST")
           valid2 == resize_tx_tvalid'
           row2 == WideRow(resize_tx_tdata'.lanes, resize_tx_tdata'.last)
<1>1. /\ resize_tx_tvalid' = IF resize_tx_tready THEN loads ELSE resize_tx_tvalid
      /\ resize_tx_tdata' =
            IF resize_tx_tready
            THEN [lanes |-> up_lanes, last |-> up_fsm_state = "UPSIZE_LAST"]
            ELSE resize_tx_tdata
  BY UpRegisters DEF ResizerEdge
<1>2. resize_tx_tvalid \in BOOLEAN /\ resize_tx_tready \in BOOLEAN /\ loads \in BOOLEAN
  BY DEF ResizerInv
<1>3. WidePort \in Seq(StreamItems) /\ WordPassed \in Seq(StreamItems)
  BY ResizerPlaces, UpPassesTyped
<1>4. /\ WordPassed = Shown(loads /\ resize_tx_tready, new)
      /\ WidePort = Shown(resize_tx_tvalid, row)
      /\ BytesOut = Shown(resize_tx_tvalid /\ resize_tx_tready, row)
  BY DEF WordPassed, WidePort, BytesOut
<1>5. WidePort' = Shown(valid2, row2)
  BY ResizerPlacesAfter
<1>6. row2 = IF resize_tx_tready THEN new ELSE row
  BY <1>1
<1> HIDE DEF loads, row, new, row2, valid2
<1>7. PlaceMoves(WidePort, WordPassed, BytesOut, WidePort', resize_tx_tvalid,
                 resize_tx_tready, loads, row, new, valid2, row2)
  BY <1>1, <1>2, <1>3, <1>4, <1>5, <1>6 DEF PlaceMoves, valid2
<1> QED
  BY <1>7, PlaceConveys

-----------------------------------------------------------------------------
\* The whole way of a byte.

\* The bytes inside, place after place.
BytesAlong ==
    Row(Row(Row(WidePort, UpUnitRow), UpSkidRow), Row(NarrowPort, DownSkidRow))

\* They are the contents of the stream.
LEMMA BytesAre == BytesInside = BytesAlong
<1>1. Down!Contents = Row(NarrowPort, DownSkidRow)
  BY DEF Down!Contents, NarrowPort, DownSkidRow, NarrowRow, DownWaits, Shown, Row
<1>2. Up!Contents = Row(Row(WidePort, UpUnitRow), UpSkidRow)
  <2>1. UpSkidRow = IF up_buffer_state = "BUFFERED"
                    THEN Up!Kept(up_buffered.lane) \o Up!Mark(up_buffered.last) ELSE <<>>
    BY DEF UpSkidRow, NarrowRow, UpWaits, Shown, Row, Down!Kept, Down!Mark, Up!Kept, Up!Mark
  <2> QED
    BY <2>1 DEF Up!Contents, WidePort, UpUnitRow, Gathered, WideRow, Shown, Row
<1> QED
  BY <1>1, <1>2 DEF BytesInside, BytesAlong, Row

\* The same after a step.
LEMMA BytesAreNext == (BytesInside = BytesAlong)'
BY BytesAre, PTL

\* In a clock they take the bytes that come in, and give those that leave.
LEMMA BytesConveyed ==
    ASSUME ResizerInv, ResizerInv', ResizerEdge
    PROVE  Conveys(StreamItems, BytesAlong, BytesIn, BytesOut, BytesAlong')
<1>1. Conveys(StreamItems, Row(NarrowPort, DownSkidRow), BytesIn, NarrowTaken,
              Row(NarrowPort', DownSkidRow'))
  BY DownSkidConveys, NarrowConveys, ConveysOn
<1>2. Conveys(StreamItems, Row(WidePort, UpUnitRow), UpTaken, BytesOut,
              Row(WidePort', UpUnitRow'))
  BY UpUnitConveys, WideConveys, ConveysOn
<1>3. Conveys(StreamItems, Row(Row(WidePort, UpUnitRow), UpSkidRow), NarrowTaken, BytesOut,
              Row(Row(WidePort', UpUnitRow'), UpSkidRow'))
  BY <1>2, UpSkidConveys, ConveysOn
<1>4. Conveys(StreamItems,
              Row(Row(Row(WidePort, UpUnitRow), UpSkidRow), Row(NarrowPort, DownSkidRow)),
              BytesIn, BytesOut,
              Row(Row(Row(WidePort', UpUnitRow'), UpSkidRow'),
                  Row(NarrowPort', DownSkidRow')))
  BY <1>1, <1>3, ConveysOn
<1> QED
  BY <1>4 DEF BytesAlong

\* A clock is a transfer of the stream.
LEMMA BytesTransfer ==
    ASSUME ResizerInv, ResizerInv', ResizerEdge
    PROVE  Stream!Transfer
<1>1. Row(BytesAlong, BytesIn) = Row(BytesOut, BytesAlong')
  BY BytesConveyed DEF Conveys
<1>2. BytesInside = BytesAlong /\ BytesInside' = BytesAlong'
  BY BytesAre, BytesAreNext
<1>3. Stream!Given = BytesIn
  BY DEF Stream!Given, BytesIn, Shown
<1>4. Stream!Delivered = BytesOut
  BY DEF Stream!Delivered, BytesOut, WideRow, Shown, Row
<1>5. Stream!Delivered \o BytesInside' = BytesInside \o Stream!Given
  BY <1>1, <1>2, <1>3, <1>4 DEF Row
<1>6. resize_areset_n /\ resize_areset_n'
  BY DEF ResizerEdge
<1>7. resize_tx_tvalid /\ ~resize_tx_tready
         => resize_tx_tvalid' /\ resize_tx_tdata' = resize_tx_tdata
  BY UpRegisters DEF ResizerEdge
<1> QED
  BY <1>5, <1>6, <1>7 DEF Stream!Transfer

\* In reset nothing is inside.
LEMMA ResizerQuiet == ResizerEmpty => Stream!Quiet
<1> SUFFICES ASSUME ResizerEmpty PROVE Stream!Quiet
  OBVIOUS
<1>1. /\ DownSkidRow = <<>> /\ NarrowPort = <<>> /\ UpSkidRow = <<>> /\ WidePort = <<>>
  BY DEF ResizerEmpty, DownSkidRow, NarrowPort, UpSkidRow, WidePort, Shown
<1>2. UpUnitRow = <<>>
  <2>1. Up!UpTo(up_lanes, 0) = <<>>
    BY UpToNext, ResizerWide
  <2> QED
    BY <2>1 DEF ResizerEmpty, UpUnitRow, Gathered
<1>3. Row(<<>>, <<>>) = <<>>
  BY NothingTyped, RowEmpty
<1>4. BytesAlong = <<>>
  BY <1>1, <1>2, <1>3 DEF BytesAlong
<1> QED
  BY <1>4, BytesAre DEF Stream!Quiet, ResizerEmpty

\* So it is after a step that resets.
LEMMA ResizerQuietNext == (ResizerEmpty => Stream!Quiet)'
BY ResizerQuiet, PTL

\* At first the stream is empty.
LEMMA ResizerStreamInit == ResizerInit => Stream!Init
<1>1. ResizerInit => ResizerEmpty
  BY DEF ResizerInit, ResizerEmpty, Down!Init, Up!Init, DownWaits, UpWaits
<1> QED
  BY <1>1, ResizerQuiet DEF Stream!Init

\* The bytes inside stay while the registers do.
LEMMA BytesStill == UNCHANGED <<down, up>> => BytesInside' = BytesInside
BY DEF down, up, BytesInside, Down!Contents, Up!Contents

\* The release of the reset moves nothing.
LEMMA ResizerStreamRelease == ResizerRelease => Stream!Release
<1> SUFFICES ASSUME ResizerRelease PROVE Stream!Release
  OBVIOUS
<1>1. BytesInside' = BytesInside
  BY BytesStill DEF ResizerRelease
<1> QED
  BY <1>1 DEF ResizerRelease, Stream!Release, down, up

\* Nothing moves when the resizers do not.
LEMMA ResizerStreamStill == UNCHANGED resizerVars => UNCHANGED Stream!vars
<1> SUFFICES ASSUME UNCHANGED resizerVars PROVE UNCHANGED Stream!vars
  OBVIOUS
<1>1. BytesInside' = BytesInside
  BY BytesStill DEF resizerVars
<1>2. UNCHANGED <<resize_areset_n, resize_rx_tvalid, resize_rx_tdata, resize_rx_tready,
                  resize_tx_tvalid, resize_tx_tdata, resize_tx_tready>>
  BY DEF resizerVars, down, up
<1> QED
  BY <1>1, <1>2 DEF Stream!vars

(***************************************************************************)
(* The same with an Rx driver that sends any words whatever.               *)
(***************************************************************************)
AnyWordsSpec ==
    ResizerInit /\ [][ResizerEdge \/ ResizerReset \/ ResizerRelease]_resizerVars

\* Its steps preserve the invariant, and are steps of the stream.
LEMMA AnyWordsStep ==
    ResizerInv /\ [ResizerEdge \/ ResizerReset \/ ResizerRelease]_resizerVars
        => ResizerInv' /\ [Stream!Next]_Stream!vars
<1> SUFFICES ASSUME ResizerInv,
                    [ResizerEdge \/ ResizerReset \/ ResizerRelease]_resizerVars
             PROVE  ResizerInv' /\ [Stream!Next]_Stream!vars
  OBVIOUS
<1>1. CASE ResizerEdge
  <2>1. ResizerInv'
    BY <1>1, ResizerInvEdge
  <2> QED
    BY <1>1, <2>1, BytesTransfer DEF Stream!Next
<1>2. CASE ResizerReset
  <2>1. ResizerInv' /\ ResizerEmpty'
    BY <1>2, ResizerInvReset
  <2>2. Stream!Quiet'
    BY <2>1, ResizerQuietNext
  <2> QED
    BY <2>1, <2>2 DEF Stream!Next, Stream!Reset, Stream!Quiet
<1>3. CASE ResizerRelease
  <2>1. ResizerInv'
    BY <1>3, ResizerInvStill DEF ResizerRelease
  <2> QED
    BY <1>3, <2>1, ResizerStreamRelease DEF Stream!Next
<1>4. CASE UNCHANGED resizerVars
  <2>1. ResizerInv'
    <3>1. resize_areset_n' \in BOOLEAN
      BY <1>4 DEF resizerVars, ResizerInv
    <3> QED
      BY <1>4, <3>1, ResizerInvStill DEF resizerVars
  <2> QED
    BY <1>4, <2>1, ResizerStreamStill
<1> QED
  BY <1>1, <1>2, <1>3, <1>4

(***************************************************************************)
(* Whatever the shape of the words on Rx, and however Tx stalls, a         *)
(* downsizer and an upsizer behind it, of any width, pass the bytes on     *)
(* once and in order, with the ends of the packets between the same bytes. *)
(***************************************************************************)
THEOREM RefinesByteStreamAnyWords == AnyWordsSpec => RefinesByteStream
<1>1. ResizerInit => ResizerInv /\ Stream!Init
  BY ResizerBegins, ResizerStreamInit
<1> QED
  BY <1>1, AnyWordsStep, PTL DEF AnyWordsSpec, RefinesByteStream, Stream!Spec

(***************************************************************************)
(* The composition that the runs check is such a one: its driver sends     *)
(* some of these words.                                                    *)
(***************************************************************************)
THEOREM RefinesBytes == ResizerSpec => RefinesByteStream
<1> DEFINE Numbers == next_byte \in Nat
<1>1. ResizerInit => ResizerInv /\ Stream!Init /\ Numbers
  BY ResizerBegins, ResizerStreamInit DEF ResizerInit
<1>2. ResizerInv /\ Numbers /\ [ResizerNext]_resizerVars
         => /\ [ResizerEdge \/ ResizerReset \/ ResizerRelease]_resizerVars
            /\ Numbers'
  BY ResizerClocked DEF ResizerNext, ResizerReset, ResizerRelease, resizerVars
<1>3. ResizerInv /\ Numbers /\ [ResizerNext]_resizerVars
         => ResizerInv' /\ Numbers' /\ [Stream!Next]_Stream!vars
  BY <1>2, AnyWordsStep
<1> HIDE DEF Numbers
<1> QED
  BY <1>1, <1>3, PTL DEF ResizerSpec, RefinesByteStream, Stream!Spec

=============================================================================
