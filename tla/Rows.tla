-------------------------------- MODULE Rows --------------------------------
(***************************************************************************)
(* Lemmas on the words inside a stage: a row of places, each of which has  *)
(* a word, none, or several.  The proofs of the stages cite them to show   *)
(* that a clock edge is a transfer of StreamFifo.  Then lemmas on numbers  *)
(* (induction, division, powers) and on rows of any length, whose words    *)
(* move one place in every clock.                                          *)
(***************************************************************************)
EXTENDS Integers, SequenceTheorems, FiniteSetTheorems, FunctionTheorems,
        WellFoundedInduction, TLAPS

One(valid, word) == IF valid THEN <<word>> ELSE <<>>

\* (Named, so that the provers do not look into it.)
Row(s, t) == s \o t

\* A place is a sequence of at most one word.
LEMMA OneSeq ==
    ASSUME NEW S, NEW word \in S, NEW valid \in BOOLEAN
    PROVE  One(valid, word) \in Seq(S) /\ Len(One(valid, word)) <= 1
BY DEF One

\* Places in a row.
LEMMA RowSeq ==
    ASSUME NEW S, NEW s \in Seq(S), NEW t \in Seq(S)
    PROVE  Row(s, t) \in Seq(S) /\ Len(Row(s, t)) = Len(s) + Len(t)
BY ConcatProperties DEF Row

\* How places in a row are grouped does not matter.
LEMMA RowAssociative ==
    ASSUME NEW S, NEW s \in Seq(S), NEW t \in Seq(S), NEW u \in Seq(S)
    PROVE  Row(Row(s, t), u) = Row(s, Row(t, u))
BY ConcatAssociative DEF Row

\* An empty place can be left out.
LEMMA RowEmpty ==
    ASSUME NEW S, NEW s \in Seq(S)
    PROVE  Row(<<>>, s) = s /\ Row(s, <<>>) = s
BY ConcatEmptySeq DEF Row

\* A word in front of a sequence is its head.
LEMMA Pushed ==
    ASSUME NEW S, NEW word \in S, NEW s \in Seq(S)
    PROVE  /\ <<word>> \o s \in Seq(S)
           /\ <<word>> \o s # <<>>
           /\ Head(<<word>> \o s) = word
           /\ Tail(<<word>> \o s) = s
<1>1. <<word>> \in Seq(S) /\ Len(<<word>>) = 1
  OBVIOUS
<1>2. /\ <<word>> \o s \in Seq(S)
      /\ Len(<<word>> \o s) = 1 + Len(s)
      /\ \A i \in 1 .. 1 + Len(s) : (<<word>> \o s)[i] =
             IF i <= 1 THEN <<word>>[i] ELSE s[i - 1]
  BY <1>1, ConcatProperties
<1>3. Len(s) \in Nat
  BY LenProperties
<1>4. <<word>> \o s # <<>>
  BY <1>2, <1>3, EmptySeq
<1>5. Head(<<word>> \o s) = word
  BY <1>2, <1>3, <1>4
<1>6. Tail(<<word>> \o s) \in Seq(S)
      /\ Len(Tail(<<word>> \o s)) = Len(s)
      /\ \A i \in 1 .. Len(s) : Tail(<<word>> \o s)[i] = (<<word>> \o s)[i + 1]
  BY <1>2, <1>3, <1>4, HeadTailProperties
<1>7. \A i \in 1 .. Len(s) : Tail(<<word>> \o s)[i] = s[i]
  BY <1>2, <1>3, <1>6
<1>8. Tail(<<word>> \o s) = s
  BY <1>6, <1>7, SeqEqual
<1> QED
  BY <1>2, <1>4, <1>5, <1>8

\* The same for rows.
LEMMA RowWord ==
    ASSUME NEW S, NEW word \in S, NEW s \in Seq(S)
    PROVE  /\ Row(<<word>>, s) # <<>>
           /\ Head(Row(<<word>>, s)) = word
           /\ Tail(Row(<<word>>, s)) = s
BY Pushed DEF Row

\* A sequence is its head in front of its tail.
LEMMA RowHeadTail ==
    ASSUME NEW S, NEW s \in Seq(S), s # <<>>
    PROVE  Row(<<Head(s)>>, Tail(s)) = s
<1> DEFINE t == <<Head(s)>> \o Tail(s)
<1>1. /\ Tail(s) \in Seq(S)
      /\ Len(Tail(s)) = Len(s) - 1
      /\ \A i \in 1 .. Len(Tail(s)) : Tail(s)[i] = s[i + 1]
  BY HeadTailProperties
<1>2. Head(s) \in S /\ Head(s) = s[1]
  BY HeadTailProperties
<1>3. Len(s) \in Nat /\ Len(s) >= 1
  BY LenProperties, EmptySeq
<1>4. <<Head(s)>> \in Seq(S) /\ Len(<<Head(s)>>) = 1 /\ <<Head(s)>>[1] = Head(s)
  BY <1>2
<1>5. /\ t \in Seq(S)
      /\ Len(t) = Len(s)
      /\ \A i \in 1 .. Len(s) : t[i] = IF i <= 1 THEN <<Head(s)>>[i]
                                               ELSE Tail(s)[i - 1]
  <2>1. /\ t \in Seq(S)
        /\ Len(t) = 1 + Len(Tail(s))
        /\ \A i \in 1 .. 1 + Len(Tail(s)) : t[i] =
               IF i <= 1 THEN <<Head(s)>>[i] ELSE Tail(s)[i - 1]
    BY <1>1, <1>4, ConcatProperties
  <2> QED
    BY <1>1, <1>3, <2>1
<1> HIDE DEF t
<1>6. \A i \in 1 .. Len(s) : t[i] = s[i]
  <2> SUFFICES ASSUME NEW i \in 1 .. Len(s) PROVE t[i] = s[i]
    OBVIOUS
  <2>1. CASE i = 1
    BY <1>2, <1>3, <1>4, <1>5, <2>1
  <2>2. CASE i # 1
    <3>1. i - 1 \in 1 .. Len(Tail(s)) /\ ~(i <= 1) /\ i - 1 + 1 = i
      BY <1>1, <1>3, <2>2
    <3>2. Tail(s)[i - 1] = s[i]
      BY <1>1, <3>1
    <3> QED
      BY <1>5, <3>1, <3>2
  <2> QED
    BY <2>1, <2>2
<1>7. t = s
  BY <1>5, <1>6, SeqEqual
<1> QED
  BY <1>7 DEF t, Row

(***************************************************************************)
(* What the output port shows, two places before it, and what comes in:    *)
(* the port comes before the rest.                                         *)
(***************************************************************************)
LEMMA Grouped ==
    ASSUME NEW S, NEW port \in Seq(S), NEW held \in Seq(S),
           NEW before \in Seq(S), NEW coming \in Seq(S)
    PROVE  Row(Row(Row(port, held), before), coming)
               = Row(port, Row(Row(held, before), coming))
BY RowSeq, RowAssociative

(***************************************************************************)
(* The output port is the head of the row: if it shows a word, that is the *)
(* oldest one, and without it the rest remains; if it shows none, the rest *)
(* is all there is.                                                        *)
(***************************************************************************)
LEMMA PortFirst ==
    ASSUME NEW S, NEW word \in S, NEW valid \in BOOLEAN, NEW rest \in Seq(S)
    PROVE  /\ valid => /\ Row(One(valid, word), rest) # <<>>
                       /\ Head(Row(One(valid, word), rest)) = word
                       /\ Tail(Row(One(valid, word), rest)) = rest
           /\ ~valid => Row(One(valid, word), rest) = rest
<1>1. CASE valid
  <2>1. One(valid, word) = <<word>>
    BY <1>1 DEF One
  <2>2. /\ Row(<<word>>, rest) # <<>>
        /\ Head(Row(<<word>>, rest)) = word
        /\ Tail(Row(<<word>>, rest)) = rest
    BY RowWord
  <2> QED
    BY <1>1, <2>1, <2>2, Zenon
<1>2. CASE ~valid
  <2>1. One(valid, word) = <<>>
    BY <1>2 DEF One
  <2> QED
    BY <1>2, <2>1, RowEmpty
<1> QED
  BY <1>1, <1>2

-----------------------------------------------------------------------------
(***************************************************************************)
(* An output port that shows `word' if it is valid, a register behind it   *)
(* that holds at most a word, and a memory from which a word may be        *)
(* fetched.  In a clock edge the port takes over what is held if it is     *)
(* taken or free; then, or when nothing is held, what is fetched is held.  *)
(***************************************************************************)
Takes(S, valid, ready, word, held, stored, fetched, remaining, port, next) ==
    /\ valid \in BOOLEAN /\ ready \in BOOLEAN /\ word \in S
    /\ held \in Seq(S) /\ fetched \in Seq(S) /\ remaining \in Seq(S)
    /\ stored = Row(fetched, remaining)
    /\ port = IF ready THEN held ELSE One(valid, word)
    /\ \/ (ready \/ held = <<>>) /\ next = fetched
       \/ ~ready /\ next = held /\ fetched = <<>>

\* Such an edge hands over the oldest word or none.
LEMMA Taken ==
    ASSUME NEW S, NEW valid, NEW ready, NEW word, NEW held, NEW stored,
           NEW fetched, NEW remaining, NEW port, NEW next,
           Takes(S, valid, ready, word, held, stored, fetched, remaining,
                 port, next),
           NEW coming \in Seq(S)
    PROVE  LET all == Row(Row(Row(One(valid, word), held), stored), coming)
           IN  /\ valid => all # <<>> /\ Head(all) = word
               /\ Row(Row(port, next), Row(remaining, coming))
                      = IF valid /\ ready THEN Tail(all) ELSE all
<1> DEFINE shown == One(valid, word)
           all == Row(Row(Row(shown, held), stored), coming)
           rest == Row(held, Row(stored, coming))
           after == Row(Row(port, next), Row(remaining, coming))
<1>1. /\ valid \in BOOLEAN /\ ready \in BOOLEAN /\ word \in S
      /\ held \in Seq(S) /\ fetched \in Seq(S) /\ remaining \in Seq(S)
      /\ stored = Row(fetched, remaining)
      /\ port = IF ready THEN held ELSE shown
      /\ \/ (ready \/ held = <<>>) /\ next = fetched
         \/ ~ready /\ next = held /\ fetched = <<>>
  BY DEF Takes
<1>2. stored \in Seq(S)
  BY <1>1, RowSeq
<1>3. shown \in Seq(S)
  BY <1>1, OneSeq
<1>4. rest \in Seq(S) /\ Row(stored, coming) \in Seq(S)
      /\ Row(remaining, coming) \in Seq(S)
  BY <1>1, <1>2, RowSeq
<1>5. all = Row(shown, rest)
  <2>1. all = Row(shown, Row(Row(held, stored), coming))
    BY <1>1, <1>2, <1>3, Grouped
  <2>2. Row(Row(held, stored), coming) = rest
    BY <1>1, <1>2, RowAssociative
  <2> QED
    BY <2>1, <2>2, Zenon
<1>6. /\ valid => all # <<>> /\ Head(all) = word /\ Tail(all) = rest
      /\ ~valid => all = rest
  <2>1. /\ valid => /\ Row(shown, rest) # <<>>
                    /\ Head(Row(shown, rest)) = word
                    /\ Tail(Row(shown, rest)) = rest
        /\ ~valid => Row(shown, rest) = rest
    <3> HIDE DEF rest
    <3> QED
      BY <1>1, <1>4, PortFirst
  <2> HIDE DEF all, rest, shown
  <2> QED
    BY <1>5, <2>1, Zenon
<1>7. Row(fetched, Row(remaining, coming)) = Row(stored, coming)
  BY <1>1, RowAssociative
<1> HIDE DEF shown
<1>8. CASE ready /\ next = fetched
  <2>1. after = Row(Row(held, fetched), Row(remaining, coming))
    BY <1>1, <1>8
  <2>2. after = Row(held, Row(fetched, Row(remaining, coming)))
    BY <1>1, <1>4, <2>1, RowAssociative
  <2>3. after = rest
    BY <1>7, <2>2
  <2> HIDE DEF all, rest, after
  <2> QED
    BY <1>6, <1>8, <2>3 DEF all, rest, after, shown
<1>9. CASE ~ready /\ held = <<>> /\ next = fetched
  <2>1. after = Row(Row(shown, fetched), Row(remaining, coming))
    BY <1>1, <1>9
  <2>2. after = Row(shown, Row(stored, coming))
    BY <1>1, <1>3, <1>4, <1>7, <2>1, RowAssociative
  <2>3. rest = Row(stored, coming)
    BY <1>4, <1>9, RowEmpty
  <2>4. after = all
    BY <1>5, <2>2, <2>3
  <2>5. /\ valid => all # <<>> /\ Head(all) = word
        /\ after = IF valid /\ ready THEN Tail(all) ELSE all
    <3> HIDE DEF all, rest, after
    <3> QED
      BY <1>6, <1>9, <2>4
  <2> QED
    BY <2>5 DEF shown
<1>10. CASE ~ready /\ next = held /\ fetched = <<>>
  <2>1. stored = remaining
    BY <1>1, <1>10, RowEmpty
  <2>2. after = Row(Row(shown, held), Row(stored, coming))
    BY <1>1, <1>10, <2>1
  <2>3. Row(shown, held) \in Seq(S)
    BY <1>1, <1>3, RowSeq
  <2>4. after = all
    BY <1>2, <2>2, <2>3, RowAssociative
  <2>5. /\ valid => all # <<>> /\ Head(all) = word
        /\ after = IF valid /\ ready THEN Tail(all) ELSE all
    <3> HIDE DEF all, rest, after
    <3> QED
      BY <1>6, <1>10, <2>4
  <2> QED
    BY <2>5 DEF shown
<1> QED
  BY <1>1, <1>8, <1>9, <1>10

-----------------------------------------------------------------------------
\* Words in a ring of memory: addresses count from 0 to depth - 1 and start again.

Ring(depth) == 0 .. depth - 1

After(p, depth) == IF p = depth - 1 THEN 0 ELSE p + 1

\* The address c places on from p.
Onward(p, c, depth) == IF p + c < depth THEN p + c ELSE p + c - depth

\* The next address is one of the ring.
LEMMA AfterType ==
    ASSUME NEW depth \in Nat \ {0}, NEW p \in Ring(depth)
    PROVE  After(p, depth) \in Ring(depth)
BY DEF After, Ring

\* The words of c places of the memory from p on, which may wrap around.
Stretch(mem, depth, p, c) == [i \in 1 .. c |-> mem[(p + i - 1) % depth]]

\* An index that has left the memory by less than its depth comes back.
LEMMA Wrapped ==
    ASSUME NEW depth \in Nat \ {0}, NEW a \in 0 .. 2 * depth - 1
    PROVE  /\ a % depth = IF a < depth THEN a ELSE a - depth
           /\ a % depth \in Ring(depth)
<1>1. CASE a < depth
  <2>1. a % depth = a
    BY <1>1
  <2> QED
    BY <1>1, <2>1 DEF Ring
<1>2. CASE ~(a < depth)
  <2>1. a % depth = a - depth
    BY <1>2
  <2> QED
    BY <1>2, <2>1 DEF Ring
<1> QED
  BY <1>1, <1>2

\* A ring of words from S, and a stretch that is not longer than the ring.
IsStretch(S, mem, depth, p, c) ==
    /\ depth \in Nat \ {0}
    /\ mem \in [Ring(depth) -> S]
    /\ p \in Ring(depth)
    /\ c \in 0 .. depth

\* A stretch is a sequence of words.
LEMMA StretchSeq ==
    ASSUME NEW S, NEW mem, NEW depth, NEW p, NEW c, IsStretch(S, mem, depth, p, c)
    PROVE  Stretch(mem, depth, p, c) \in Seq(S) /\ Len(Stretch(mem, depth, p, c)) = c
<1> USE DEF IsStretch
<1>1. c \in Nat /\ depth \in Nat
  OBVIOUS
<1>2. ASSUME NEW i \in 1 .. c
      PROVE  mem[(p + i - 1) % depth] \in S
  <2>1. p + i - 1 \in 0 .. 2 * depth - 1
    BY <1>1, <1>2 DEF Ring
  <2> QED
    BY <2>1, Wrapped
<1>3. Stretch(mem, depth, p, c) \in [1 .. c -> S]
  BY <1>2 DEF Stretch
<1> QED
  BY <1>1, <1>3

\* The first word of a stretch is the one that is read, the others follow it.
LEMMA StretchRead ==
    ASSUME NEW depth \in Nat \ {0}, NEW S,
           NEW mem \in [Ring(depth) -> S], NEW p \in Ring(depth),
           NEW c \in 1 .. depth
    PROVE  Stretch(mem, depth, p, c)
               = Row(<<mem[p]>>, Stretch(mem, depth, After(p, depth), c - 1))
<1> DEFINE rest == Stretch(mem, depth, After(p, depth), c - 1)
           whole == Stretch(mem, depth, p, c)
<1>1. c \in 0 .. depth /\ c - 1 \in 0 .. depth /\ depth \in Nat
  OBVIOUS
<1>2. After(p, depth) \in Ring(depth)
  BY AfterType
<1>3. whole \in Seq(S) /\ Len(whole) = c
  <2>1. IsStretch(S, mem, depth, p, c)
    BY <1>1 DEF IsStretch
  <2> QED
    BY <2>1, StretchSeq
<1>4. rest \in Seq(S) /\ Len(rest) = c - 1
  <2>1. IsStretch(S, mem, depth, After(p, depth), c - 1)
    BY <1>1, <1>2 DEF IsStretch
  <2> QED
    BY <2>1, StretchSeq
<1>5. <<mem[p]>> \in Seq(S) /\ Len(<<mem[p]>>) = 1
  OBVIOUS
<1>6. /\ <<mem[p]>> \o rest \in Seq(S)
      /\ Len(<<mem[p]>> \o rest) = c
      /\ \A i \in 1 .. c : (<<mem[p]>> \o rest)[i] =
             IF i <= 1 THEN <<mem[p]>>[i] ELSE rest[i - 1]
  <2> HIDE DEF rest
  <2> QED
    BY <1>1, <1>4, <1>5, ConcatProperties
<1>7. ASSUME NEW i \in 1 .. c
      PROVE  whole[i] = (<<mem[p]>> \o rest)[i]
  <2>1. whole[i] = mem[(p + i - 1) % depth]
    BY DEF Stretch
  <2>2. CASE i = 1
    <3>1. p + i - 1 \in 0 .. 2 * depth - 1 /\ p + i - 1 = p /\ p < depth
      BY <1>1, <2>2 DEF Ring
    <3>2. (p + i - 1) % depth = p
      BY <3>1, Wrapped
    <3> QED
      BY <1>6, <2>1, <2>2, <3>2
  <2>3. CASE i # 1
    <3>1. i \in Int /\ i > 1 /\ i - 1 \in 1 .. c - 1
      BY <1>1, <2>3
    <3>2. rest[i - 1] = mem[(After(p, depth) + (i - 1) - 1) % depth]
      BY <3>1 DEF Stretch
    <3>3. (After(p, depth) + (i - 1) - 1) % depth = (p + i - 1) % depth
      <4>1. p + i - 1 \in 0 .. 2 * depth - 1
        BY <1>1, <3>1 DEF Ring
      <4>2. After(p, depth) + (i - 1) - 1 \in 0 .. 2 * depth - 1
        BY <1>1, <1>2, <3>1 DEF Ring
      <4> DEFINE a == p + i - 1
                 b == After(p, depth) + (i - 1) - 1
      <4>3. b = a \/ (b = a - depth /\ a >= depth)
        BY <1>1, <3>1 DEF After, Ring
      <4> HIDE DEF a, b
      <4>4. /\ a % depth = IF a < depth THEN a ELSE a - depth
            /\ b % depth = IF b < depth THEN b ELSE b - depth
        BY <4>1, <4>2, Wrapped DEF a, b
      <4>5. a % depth = b % depth
        BY <1>1, <4>1, <4>2, <4>3, <4>4 DEF a, b
      <4> QED
        BY <4>5 DEF a, b
    <3> QED
      BY <1>6, <2>1, <3>1, <3>2, <3>3
  <2> QED
    BY <2>2, <2>3
<1>8. whole = <<mem[p]>> \o rest
  <2> HIDE DEF whole, rest
  <2> QED
    BY <1>3, <1>6, <1>7, SeqEqual
<1> QED
  BY <1>8 DEF Row

\* A word written behind a stretch that leaves room for it makes it longer.
LEMMA StretchWritten ==
    ASSUME NEW depth \in Nat \ {0}, NEW S,
           NEW mem \in [Ring(depth) -> S], NEW p \in Ring(depth),
           NEW c \in 0 .. depth - 1, NEW word \in S,
           NEW new \in [Ring(depth) -> S],
           \A a \in Ring(depth) :
               new[a] = IF a = Onward(p, c, depth) THEN word ELSE mem[a]
    PROVE  Stretch(new, depth, p, c + 1)
               = Row(Stretch(mem, depth, p, c), <<word>>)
<1> DEFINE q == Onward(p, c, depth)
           old == Stretch(mem, depth, p, c)
           whole == Stretch(new, depth, p, c + 1)
<1>1. /\ c \in 0 .. depth /\ c + 1 \in 0 .. depth
      /\ c \in Nat /\ depth \in Nat
  OBVIOUS
<1>2. /\ q = IF p + c < depth THEN p + c ELSE p + c - depth
      /\ q \in Ring(depth)
      /\ \A a \in Ring(depth) : new[a] = IF a = q THEN word ELSE mem[a]
  <2>1. q = IF p + c < depth THEN p + c ELSE p + c - depth
    BY DEF Onward
  <2>2. q \in Ring(depth)
    BY <1>1, <2>1 DEF Ring
  <2> QED
    BY <2>1, <2>2
<1> HIDE DEF q
<1>3. old \in Seq(S) /\ Len(old) = c
  <2>1. IsStretch(S, mem, depth, p, c)
    BY <1>1 DEF IsStretch
  <2> QED
    BY <2>1, StretchSeq
<1>4. whole \in Seq(S) /\ Len(whole) = c + 1
  <2>1. IsStretch(S, new, depth, p, c + 1)
    BY <1>1 DEF IsStretch
  <2> QED
    BY <2>1, StretchSeq
<1>5. <<word>> \in Seq(S) /\ Len(<<word>>) = 1
  OBVIOUS
<1>6. /\ old \o <<word>> \in Seq(S)
      /\ Len(old \o <<word>>) = c + 1
      /\ \A i \in 1 .. c + 1 : (old \o <<word>>)[i] =
             IF i <= c THEN old[i] ELSE <<word>>[i - c]
  <2> HIDE DEF old
  <2> QED
    BY <1>1, <1>3, <1>5, ConcatProperties
<1>7. ASSUME NEW i \in 1 .. c + 1
      PROVE  whole[i] = (old \o <<word>>)[i]
  <2> DEFINE b == p + i - 1
             a == b % depth
  <2>1. whole[i] = new[a]
    BY DEF Stretch
  <2>2. b \in 0 .. 2 * depth - 1
    BY <1>1 DEF Ring
  <2>3. /\ a = IF b < depth THEN b ELSE b - depth
        /\ a \in Ring(depth)
    <3> HIDE DEF b
    <3> QED
      BY <2>2, Wrapped
  <2> HIDE DEF a
  <2>4. CASE i = c + 1
    <3>1. a = q
      BY <1>1, <1>2, <2>3, <2>4 DEF Ring
    <3>2. new[a] = word
      BY <1>2, <2>3, <3>1
    <3> QED
      BY <1>1, <1>6, <2>1, <2>4, <3>2
  <2>5. CASE i # c + 1
    <3>1. i \in 1 .. c
      BY <1>1, <2>5
    <3>2. a # q
      BY <1>1, <1>2, <2>3, <3>1 DEF Ring
    <3>3. new[a] = mem[a]
      BY <1>2, <2>3, <3>2
    <3>4. old[i] = mem[a]
      BY <3>1 DEF Stretch, a
    <3> QED
      BY <1>6, <2>1, <3>1, <3>3, <3>4
  <2> QED
    BY <2>4, <2>5
<1>8. whole = old \o <<word>>
  <2> HIDE DEF whole, old
  <2> QED
    BY <1>3, <1>4, <1>6, <1>7, SeqEqual
<1> QED
  BY <1>8 DEF Row

\* One word as a sequence.
LEMMA Single ==
    ASSUME NEW S, NEW word \in S
    PROVE  <<word>> \in Seq(S)
OBVIOUS

\* What is taken from the first place is taken from the row.
LEMMA RowTail ==
    ASSUME NEW S, NEW row \in Seq(S), row # <<>>, NEW waiting \in Seq(S)
    PROVE  /\ Row(row, waiting) # <<>>
           /\ Head(Row(row, waiting)) = Head(row)
           /\ Tail(Row(row, waiting)) = Row(Tail(row), waiting)
<1> DEFINE first == Head(row)
           others == Tail(row)
<1>1. first \in S /\ others \in Seq(S)
  BY HeadTailProperties
<1>2. Row(<<first>>, others) = row
  BY RowHeadTail
<1>3. Tail(row) = others /\ Head(row) = first
  OBVIOUS
<1> HIDE DEF first, others
<1>4. <<first>> \in Seq(S) /\ Row(others, waiting) \in Seq(S)
  BY <1>1, Single, RowSeq
<1>5. Row(row, waiting) = Row(<<first>>, Row(others, waiting))
  <2> DEFINE one == <<first>>
  <2>1. one \in Seq(S)
    BY <1>4
  <2> HIDE DEF one
  <2>2. Row(Row(one, others), waiting) = Row(one, Row(others, waiting))
    BY <1>1, <2>1, RowAssociative
  <2> QED
    BY <1>2, <2>2 DEF one
<1>6. /\ Row(row, waiting) # <<>>
      /\ Head(Row(row, waiting)) = first
      /\ Tail(Row(row, waiting)) = Row(others, waiting)
  BY <1>1, <1>4, <1>5, RowWord
<1> QED
  BY <1>3, <1>6

\* A place of at most one word.
LEMMA ShortSeq ==
    ASSUME NEW S, NEW s \in Seq(S), Len(s) <= 1
    PROVE  /\ Len(s) \in {0, 1}
           /\ s = <<>> <=> Len(s) = 0
           /\ Len(s) = 1 => s = <<s[1]>>
<1>1. Len(s) \in Nat
  BY LenProperties
<1>2. s = <<>> <=> Len(s) = 0
  BY EmptySeq
<1>3. Len(s) = 1 => s = <<s[1]>>
  OBVIOUS
<1>4. Len(s) \in {0, 1}
  <2> DEFINE n == Len(s)
  <2>1. n \in Nat /\ n <= 1
    BY <1>1
  <2> HIDE DEF n
  <2>2. n \in {0, 1}
    BY <2>1
  <2> QED
    BY <2>2 DEF n
<1> QED
  BY <1>2, <1>3, <1>4

-----------------------------------------------------------------------------
\* Numbers.  An induction is written with the set of the numbers that have the
\* property, and its least counterexample.

\* A set of numbers has a least one.
LEMMA Smallest ==
    ASSUME NEW S \in SUBSET Nat, S # {}
    PROVE  \E n \in S : \A m \in S : n <= m
<1> DEFINE R == {ss \in Nat \X Nat : ss[1] < ss[2]}
<1>1. IsWellFoundedOn(R, Nat)
  BY NatLessThanWellFounded DEF OpToRel
<1>2. \A x, y \in Nat : <<x, y>> \in R <=> x < y
  OBVIOUS
<1> HIDE DEF R
<1>3. PICK n \in S : \A m \in S : <<m, n>> \notin R
  BY <1>1, WFMin
<1>4. ASSUME NEW m \in S PROVE n <= m
  <2>1. n \in Nat /\ m \in Nat
    OBVIOUS
  <2>2. ~(m < n)
    BY <1>2, <1>3, <2>1
  <2> QED
    BY <2>1, <2>2
<1> QED
  BY <1>4

\* What holds for zero and is passed on holds for all.
LEMMA Induction ==
    ASSUME NEW n \in Nat, NEW S, 0 \in S, \A k \in 0 .. n - 1 : k \in S => k + 1 \in S
    PROVE  n \in S
<1> SUFFICES ASSUME n \notin S PROVE FALSE
  OBVIOUS
<1> DEFINE T == {k \in Nat : k <= n /\ k \notin S}
<1>1. T \in SUBSET Nat /\ n \in T
  OBVIOUS
<1>2. PICK k \in T : \A m \in T : k <= m
  BY <1>1, Smallest
<1>3. k # 0 /\ k \in Nat /\ k <= n /\ k \notin S
  OBVIOUS
<1>4. k - 1 \in 0 .. n - 1 /\ k - 1 + 1 = k
  BY <1>3
<1>5. k - 1 \in S
  <2>1. k - 1 \notin T
    BY <1>2, <1>3
  <2> QED
    BY <1>4, <2>1
<1> QED
  BY <1>3, <1>4, <1>5

\* Less of the same.
LEMMA Below == ASSUME NEW a \in Int, NEW b \in Int, NEW P \in Nat, a * P < b * P
 PROVE a < b
<1> SUFFICES ASSUME b <= a PROVE FALSE
  OBVIOUS
<1>1. b * P <= a * P
  OBVIOUS
<1> QED
  BY <1>1

\* What a quotient is.
LEMMA DivBounds == ASSUME NEW x \in Nat, NEW P \in Nat, P >= 1
 PROVE /\ x \div P \in Nat
       /\ (x \div P) * P <= x
       /\ x < (x \div P) * P + P
OBVIOUS

\* There is no other quotient.
LEMMA DivIs == ASSUME NEW x \in Nat, NEW P \in Nat, P >= 1, NEW y \in Nat,
   y * P <= x, x < y * P + P
 PROVE x \div P = y
<1> DEFINE z == x \div P
<1>1. z \in Nat /\ z * P <= x /\ x < z * P + P
  BY DivBounds
<1> HIDE DEF z
<1>2. y < z + 1
  <2>1. y * P < (z + 1) * P
    BY <1>1
  <2> QED BY <1>1, <2>1, Below
<1>3. z < y + 1
  <2>1. z * P < (y + 1) * P
    BY <1>1
  <2> QED BY <1>1, <2>1, Below
<1>4. z = y
  BY <1>1, <1>2, <1>3
<1> QED BY <1>4 DEF z

\* Powers of two.
LEMMA Power ==
    /\ 2^0 = 1
    /\ \A n \in Nat : 2^n \in Nat /\ 2^n >= 1 /\ 2^(n + 1) = 2 * 2^n
<1> DEFINE Upto(n) == 1 .. n
<1>1. \A n \in Nat : IsFiniteSet(Upto(n)) /\ Cardinality(Upto(n)) = n
  BY FS_Interval
<1>2. \A n \in Nat : IsFiniteSet(SUBSET Upto(n)) /\ Cardinality(SUBSET Upto(n)) = 2^n
  BY <1>1, FS_SUBSET
<1>3. 2^0 = 1
  <2>1. SUBSET Upto(0) = {{}}
    OBVIOUS
  <2>2. Cardinality({{}}) = 1
    BY FS_Singleton
  <2> QED
    BY <1>2, <2>1, <2>2
<1>4. ASSUME NEW n \in Nat PROVE 2^n \in Nat /\ 2^n >= 1 /\ 2^(n + 1) = 2 * 2^n
  <2> DEFINE A == SUBSET Upto(n)
             with == [s \in A |-> s \cup {n + 1}]
             B == {s \cup {n + 1} : s \in A}
  <2>1. SUBSET Upto(n + 1) = A \cup B
    <3>1. Upto(n + 1) = Upto(n) \cup {n + 1} /\ n + 1 \notin Upto(n)
      OBVIOUS
    <3> HIDE DEF Upto
    <3>2. ASSUME NEW s \in SUBSET Upto(n + 1) PROVE s \in A \cup B
      <4>1. CASE n + 1 \in s
        <5>1. s = (s \ {n + 1}) \cup {n + 1} /\ s \ {n + 1} \in A
          BY <3>1, <4>1
        <5> QED
          BY <5>1
      <4>2. CASE n + 1 \notin s
        BY <3>1, <4>2
      <4> QED
        BY <4>1, <4>2
    <3>3. A \subseteq SUBSET Upto(n + 1) /\ B \subseteq SUBSET Upto(n + 1)
      BY <3>1
    <3> QED
      BY <3>2, <3>3
  <2>2. A \cap B = {}
    OBVIOUS
  <2>3. IsFiniteSet(A) /\ Cardinality(A) = 2^n
    BY <1>2
  <2>4. with \in Bijection(A, B)
    <3>1. with \in [A -> B]
      OBVIOUS
    <3>2. \A s, t \in A : with[s] = with[t] => s = t
      <4> SUFFICES ASSUME NEW s \in A, NEW t \in A, s \cup {n + 1} = t \cup {n + 1}
                   PROVE  s = t
        OBVIOUS
      <4>1. n + 1 \notin s /\ n + 1 \notin t
        OBVIOUS
      <4> QED
        BY <4>1
    <3>3. \A u \in B : \E s \in A : with[s] = u
      OBVIOUS
    <3> QED
      BY <3>1, <3>2, <3>3, Fun_IsBij
  <2> HIDE DEF with, A, B
  <2>5. IsFiniteSet(B) /\ Cardinality(B) = 2^n
    <3>1. ExistsBijection(A, B)
      BY <2>4 DEF ExistsBijection
    <3> QED
      BY <2>3, <3>1, FS_Bijection
  <2>6. Cardinality(A \cup B) = Cardinality(A) + Cardinality(B) - Cardinality(A \cap B)
    BY <2>3, <2>5, FS_Union
  <2>7. Cardinality({}) = 0
    BY FS_EmptySet
  <2>8. n + 1 \in Nat
    OBVIOUS
  <2>9. 2^(n + 1) = 2^n + 2^n
    <3>1. 2^(n + 1) = Cardinality(A \cup B)
      BY <1>2, <2>1, <2>8
    <3>2. 2^n \in Nat
      BY <2>3, FS_CardinalityType
    <3>3. Cardinality(A \cap B) = 0
      BY <2>2, <2>7
    <3>4. 2^(n + 1) = 2^n + 2^n - 0
      BY <2>3, <2>5, <2>6, <3>1, <3>3
    <3> QED
      BY <3>2, <3>4
  <2>10. 2^n \in Nat
    BY <2>3, FS_CardinalityType
  <2>11. 2^n # 0
    <3>1. {} \in A
      BY DEF A
    <3>2. Cardinality(A) # 0
      BY <2>3, <3>1, FS_EmptySet
    <3> QED
      BY <2>3, <3>2
  <2> QED
    BY <2>9, <2>10, <2>11
<1> QED
  BY <1>3, <1>4

\* Dividing by twice a number.
LEMMA DivDouble == ASSUME NEW x \in Nat, NEW P \in Nat, P >= 1
 PROVE x \div (2 * P) = (x \div P) \div 2
<1> DEFINE z == x \div P
           y == z \div 2
<1>1. z \in Nat /\ z * P <= x /\ x < z * P + P
  BY DivBounds
<1> HIDE DEF z
<1>2. y \in Nat /\ 2 * y <= z /\ z + 1 <= 2 * y + 2
  BY <1>1
<1> HIDE DEF y
<1>3. (2 * y) * P <= z * P
  BY <1>1, <1>2
<1>4. (z + 1) * P <= (2 * y + 2) * P
  BY <1>1, <1>2
<1> DEFINE T == 2 * P
<1>5. T \in Nat /\ T >= 1 /\ y * T = (2 * y) * P /\ y * T + T = (2 * y + 2) * P
  BY <1>2
<1> HIDE DEF T
<1>6. y * T <= x /\ x < y * T + T
  BY <1>1, <1>2, <1>3, <1>4, <1>5
<1>7. x \div T = y
  BY <1>2, <1>5, <1>6, DivIs
<1> QED BY <1>7 DEF T, y, z

\* Dividing the next number.
LEMMA DivSucc == ASSUME NEW x \in Nat, NEW P \in Nat, P >= 1
 PROVE (x + 1) \div P \in {x \div P, (x \div P) + 1}
<1> DEFINE z == x \div P
           y == (x + 1) \div P
<1>1. z \in Nat /\ z * P <= x /\ x < z * P + P
  BY DivBounds
<1>2. y \in Nat /\ y * P <= x + 1 /\ x + 1 < y * P + P
  BY DivBounds
<1> HIDE DEF z, y
<1>3. z * P < (y + 1) * P /\ y * P < (z + 2) * P
  BY <1>1, <1>2
<1>4. z < y + 1 /\ y < z + 2
  BY <1>1, <1>2, <1>3, Below
<1>5. y \in {z, z + 1}
  BY <1>1, <1>2, <1>4
<1> QED BY <1>5 DEF y, z

-----------------------------------------------------------------------------
\* Cells in a row, each of which passes words on to the next one.

\* A place for a word that may be there.
LEMMA OneTyped ==
    ASSUME NEW S, NEW word, NEW valid \in BOOLEAN, valid => word \in S
    PROVE  One(valid, word) \in Seq(S) /\ Len(One(valid, word)) <= 1
<1>1. CASE valid
  BY <1>1, OneSeq
<1>2. CASE ~valid
  <2>1. One(valid, word) = <<>>
    BY <1>2 DEF One
  <2> QED
    BY <2>1
<1> QED
  BY <1>1, <1>2

(***************************************************************************)
(* A row of N + 1 cells, cell 0 the last one: the words of the cells up to *)
(* each cell, in the order in which they leave.                            *)
(***************************************************************************)
Joined(N, cells) ==
    LET held[d \in 0 .. N] ==
            IF d = 0 THEN cells[0] ELSE Row(cells[d], held[d - 1])
    IN  held

\* The recursive definition has a solution, and this is it.
LEMMA Joins ==
    ASSUME NEW N \in Nat, NEW cells
    PROVE  /\ Joined(N, cells) = [d \in 0 .. N |->
                  IF d = 0 THEN cells[0]
                  ELSE Row(cells[d], Joined(N, cells)[d - 1])]
           /\ Joined(N, cells)[0] = cells[0]
           /\ \A d \in 1 .. N :
                 Joined(N, cells)[d] = Row(cells[d], Joined(N, cells)[d - 1])
<1> DEFINE F(f, m) == [d \in 0 .. m |->
                          IF d = 0 THEN cells[0] ELSE Row(cells[d], f[d - 1])]
           S == {m \in Nat : \E f : f = F(f, m)}
<1>1. 0 \in S
  <2> DEFINE f == [d \in 0 .. 0 |-> cells[0]]
  <2>1. f = F(f, 0)
    OBVIOUS
  <2> HIDE DEF f, F
  <2> QED
    BY <2>1
<1>2. ASSUME NEW m \in 0 .. N - 1, m \in S PROVE m + 1 \in S
  <2>1. PICK f : f = F(f, m)
    BY <1>2
  <2> DEFINE new == Row(cells[m + 1], f[m])
             g == [d \in 0 .. m + 1 |-> IF d = m + 1 THEN new ELSE f[d]]
  <2>2. m \in Nat /\ m + 1 \in Nat
    OBVIOUS
  <2>3. ASSUME NEW d \in 0 .. m + 1 PROVE g[d] = F(g, m + 1)[d]
    <3>1. CASE d = m + 1
      <4>1. d # 0 /\ d - 1 = m /\ m \in 0 .. m + 1 /\ m # m + 1
        BY <2>2, <3>1
      <4>2. g[m] = f[m]
        BY <4>1
      <4>3. F(g, m + 1)[d] = new
        BY <3>1, <4>1, <4>2
      <4> QED
        BY <3>1, <4>3
    <3>2. CASE d # m + 1
      <4>1. d \in 0 .. m /\ (d # 0 => d - 1 \in 0 .. m /\ d - 1 # m + 1)
        BY <2>2, <3>2
      <4>2. g[d] = f[d] /\ (d # 0 => g[d - 1] = f[d - 1])
        BY <2>2, <3>2, <4>1
      <4>3. f[d] = F(f, m)[d]
        BY <2>1
      <4>4. F(f, m)[d] = F(g, m + 1)[d]
        <5> HIDE DEF g
        <5> QED
          BY <4>1, <4>2
      <4> QED
        BY <4>2, <4>3, <4>4
    <3> QED
      BY <3>1, <3>2
  <2>4. g = F(g, m + 1)
    <3>1. DOMAIN g = 0 .. m + 1 /\ DOMAIN F(g, m + 1) = 0 .. m + 1
      OBVIOUS
    <3> QED
      BY <2>3, <3>1
  <2> HIDE DEF g, F
  <2> QED
    BY <2>2, <2>4
<1> HIDE DEF S
<1>3. N \in S
  BY <1>1, <1>2, Induction
<1> USE DEF S
<1>4. \E f : f = F(f, N)
  BY <1>3
<1>5. Joined(N, cells) = CHOOSE f : f = F(f, N)
  BY DEF Joined
<1> DEFINE held == Joined(N, cells)
<1>6. held = F(held, N)
  <2> HIDE DEF F
  <2> QED
    BY <1>4, <1>5
<1> HIDE DEF held
<1>7. \A d \in 0 .. N : held[d] = IF d = 0 THEN cells[0]
                                  ELSE Row(cells[d], held[d - 1])
  BY <1>6
<1>8. 0 \in 0 .. N /\ \A d \in 1 .. N : d \in 0 .. N /\ d # 0
  OBVIOUS
<1>9. /\ held[0] = cells[0]
      /\ \A d \in 1 .. N : held[d] = Row(cells[d], held[d - 1])
  BY <1>7, <1>8
<1> QED
  BY <1>6, <1>9 DEF held

\* It is the only solution.
LEMMA JoinsOnly ==
    ASSUME NEW N \in Nat, NEW cells, NEW f, f[0] = cells[0],
           \A d \in 1 .. N : f[d] = Row(cells[d], f[d - 1])
    PROVE  \A m \in 0 .. N : f[m] = Joined(N, cells)[m]
<1> DEFINE held == Joined(N, cells)
           At(m) == m <= N => f[m] = held[m]
           T == {m \in Nat : At(m)}
<1>1. held[0] = cells[0] /\ \A d \in 1 .. N : held[d] = Row(cells[d], held[d - 1])
  BY Joins
<1> HIDE DEF held
<1>2. 0 \in T
  BY <1>1
<1>3. ASSUME NEW m \in 0 .. N - 1, m \in T PROVE m + 1 \in T
  <2>1. m + 1 \in 1 .. N /\ m + 1 - 1 = m /\ m + 1 \in Nat /\ m <= N
    OBVIOUS
  <2>2. f[m] = held[m]
    BY <1>3, <2>1
  <2>3. f[m + 1] = held[m + 1]
    BY <1>1, <2>1, <2>2
  <2> QED
    BY <2>1, <2>3
<1> HIDE DEF T
<1>4. ASSUME NEW m \in 0 .. N PROVE m \in T
  <2>1. m \in Nat /\ \A d \in 0 .. m - 1 : d \in 0 .. N - 1
    OBVIOUS
  <2>2. \A d \in 0 .. m - 1 : d \in T => d + 1 \in T
    BY <1>3, <2>1
  <2> QED
    BY <1>2, <2>1, <2>2, Induction
<1>5. ASSUME NEW m \in 0 .. N PROVE f[m] = held[m]
  <2>1. m \in T /\ m <= N
    BY <1>4
  <2> QED
    BY <2>1 DEF T
<1> QED
  BY <1>5 DEF held

\* The words of a row of cells.
LEMMA JoinedSeq ==
    ASSUME NEW S, NEW N \in Nat, NEW cells \in [0 .. N -> Seq(S)]
    PROVE  \A m \in 0 .. N : Joined(N, cells)[m] \in Seq(S)
<1> DEFINE held == Joined(N, cells)
           At(m) == m <= N => held[m] \in Seq(S)
           T == {m \in Nat : At(m)}
<1>1. held[0] = cells[0] /\ \A d \in 1 .. N : held[d] = Row(cells[d], held[d - 1])
  BY Joins
<1> HIDE DEF held
<1>2. 0 \in T
  BY <1>1
<1>3. ASSUME NEW m \in 0 .. N - 1, m \in T PROVE m + 1 \in T
  <2>1. m + 1 \in 1 .. N /\ m + 1 \in 0 .. N /\ m + 1 - 1 = m /\ m + 1 \in Nat /\ m <= N
    OBVIOUS
  <2>2. held[m] \in Seq(S) /\ cells[m + 1] \in Seq(S)
    BY <1>3, <2>1
  <2>3. held[m + 1] = Row(cells[m + 1], held[m])
    BY <1>1, <2>1
  <2>4. held[m + 1] \in Seq(S)
    BY <2>2, <2>3, RowSeq
  <2> QED
    BY <2>1, <2>4
<1> HIDE DEF T
<1>4. ASSUME NEW m \in 0 .. N PROVE m \in T
  <2>1. m \in Nat /\ \A d \in 0 .. m - 1 : d \in 0 .. N - 1
    OBVIOUS
  <2>2. \A d \in 0 .. m - 1 : d \in T => d + 1 \in T
    BY <1>3, <2>1
  <2> QED
    BY <1>2, <2>1, <2>2, Induction
<1>5. ASSUME NEW m \in 0 .. N PROVE held[m] \in Seq(S)
  <2>1. m \in T /\ m <= N
    BY <1>4
  <2> QED
    BY <2>1 DEF T
<1> QED
  BY <1>5 DEF held

(***************************************************************************)
(* One step of the whole row: each cell gives what it passes on to the     *)
(* next one and takes what the cell before it passes on.                   *)
(***************************************************************************)
Steps(S, N, cells, after, passed, coming) ==
    /\ N \in Nat
    /\ cells \in [0 .. N -> Seq(S)] /\ after \in [0 .. N -> Seq(S)]
    /\ passed \in [0 .. N -> Seq(S)] /\ coming \in Seq(S)
    /\ Row(cells[0], coming) = Row(passed[0], after[0])
    /\ \A d \in 1 .. N : Row(cells[d], passed[d - 1]) = Row(passed[d], after[d])

\* What comes in and what goes out of a row of cells.
LEMMA Conveyed ==
    ASSUME NEW S, NEW N, NEW cells, NEW after, NEW passed, NEW coming,
           Steps(S, N, cells, after, passed, coming)
    PROVE  \A m \in 0 .. N : Row(Joined(N, cells)[m], coming)
                                = Row(passed[m], Joined(N, after)[m])
<1> DEFINE held == Joined(N, cells)
           left == Joined(N, after)
           At(m) == m <= N => Row(held[m], coming) = Row(passed[m], left[m])
           T == {m \in Nat : At(m)}
<1>1. N \in Nat
  BY DEF Steps
<1>2. /\ held[0] = cells[0] /\ \A d \in 1 .. N : held[d] = Row(cells[d], held[d - 1])
      /\ left[0] = after[0] /\ \A d \in 1 .. N : left[d] = Row(after[d], left[d - 1])
  BY <1>1, Joins
<1>3. \A m \in 0 .. N : held[m] \in Seq(S) /\ left[m] \in Seq(S)
  BY JoinedSeq DEF Steps
<1>4. \A m \in 0 .. N : cells[m] \in Seq(S) /\ after[m] \in Seq(S) /\ passed[m] \in Seq(S)
  BY DEF Steps
<1> HIDE DEF held, left
<1>5. 0 \in T
  BY <1>2 DEF Steps
<1>6. ASSUME NEW m \in 0 .. N - 1, m \in T PROVE m + 1 \in T
  <2> DEFINE d == m + 1
  <2>1. d \in 1 .. N /\ d \in 0 .. N /\ d - 1 = m /\ d \in Nat /\ m <= N /\ m \in 0 .. N
    BY <1>1
  <2>2. Row(held[m], coming) = Row(passed[m], left[m])
    BY <1>6, <2>1
  <2> HIDE DEF d
  <2>3. coming \in Seq(S)
    BY DEF Steps
  <2>4. Row(held[d], coming) = Row(cells[d], Row(held[m], coming))
    BY <1>2, <1>3, <1>4, <2>1, <2>3, RowAssociative
  <2>5. Row(cells[d], Row(passed[m], left[m])) = Row(Row(cells[d], passed[m]), left[m])
    BY <1>3, <1>4, <2>1, RowAssociative
  <2>6. Row(cells[d], passed[m]) = Row(passed[d], after[d])
    BY <2>1 DEF Steps
  <2>7. Row(Row(passed[d], after[d]), left[m]) = Row(passed[d], left[d])
    <3>1. left[d] = Row(after[d], left[m])
      BY <1>2, <2>1
    <3> QED
      BY <1>3, <1>4, <2>1, <3>1, RowAssociative
  <2>8. Row(held[d], coming) = Row(passed[d], left[d])
    BY <2>2, <2>4, <2>5, <2>6, <2>7
  <2> QED
    BY <2>1, <2>8 DEF d
<1> HIDE DEF T
<1>7. ASSUME NEW m \in 0 .. N PROVE m \in T
  <2>1. m \in Nat /\ \A d \in 0 .. m - 1 : d \in 0 .. N - 1
    BY <1>1
  <2>2. \A d \in 0 .. m - 1 : d \in T => d + 1 \in T
    BY <1>6, <2>1
  <2> QED
    BY <1>5, <2>1, <2>2, Induction
<1>8. ASSUME NEW m \in 0 .. N PROVE Row(held[m], coming) = Row(passed[m], left[m])
  <2>1. m \in T /\ m <= N
    BY <1>1, <1>7
  <2> QED
    BY <2>1 DEF T
<1> QED
  BY <1>8 DEF held, left

\* The room of a row of cells.
LEMMA JoinedRoom ==
    ASSUME NEW S, NEW N \in Nat, NEW cells \in [0 .. N -> Seq(S)],
           NEW room \in [0 .. N -> Nat], Len(cells[0]) <= room[0],
           \A d \in 1 .. N : Len(cells[d]) + room[d - 1] <= room[d]
    PROVE  \A m \in 0 .. N : Len(Joined(N, cells)[m]) <= room[m]
<1> DEFINE held == Joined(N, cells)
           At(m) == m <= N => Len(held[m]) <= room[m]
           T == {m \in Nat : At(m)}
<1>1. held[0] = cells[0] /\ \A d \in 1 .. N : held[d] = Row(cells[d], held[d - 1])
  BY Joins
<1>2. \A m \in 0 .. N : held[m] \in Seq(S)
  BY JoinedSeq
<1> HIDE DEF held
<1>3. 0 \in T
  BY <1>1
<1>4. ASSUME NEW m \in 0 .. N - 1, m \in T PROVE m + 1 \in T
  <2> DEFINE d == m + 1
  <2>1. d \in 1 .. N /\ d \in 0 .. N /\ d - 1 = m /\ d \in Nat /\ m <= N /\ m \in 0 .. N
    OBVIOUS
  <2>2. Len(held[m]) <= room[m]
    BY <1>4, <2>1
  <2> HIDE DEF d
  <2>3. held[d] = Row(cells[d], held[m]) /\ cells[d] \in Seq(S) /\ held[m] \in Seq(S)
    BY <1>1, <1>2, <2>1
  <2>4. Len(held[d]) = Len(cells[d]) + Len(held[m])
    BY <2>3, RowSeq
  <2>5. Len(cells[d]) \in Nat /\ Len(held[m]) \in Nat /\ room[m] \in Nat /\ room[d] \in Nat
    BY <2>1, <2>3, LenProperties
  <2>6. Len(cells[d]) + room[m] <= room[d]
    BY <2>1
  <2>7. Len(held[d]) <= room[d]
    <3> DEFINE a == Len(cells[d])
               b == Len(held[m])
               x == room[m]
               y == room[d]
    <3>1. a \in Nat /\ b \in Nat /\ x \in Nat /\ y \in Nat /\ b <= x /\ a + x <= y
      BY <2>2, <2>5, <2>6
    <3>2. Len(held[d]) = a + b
      BY <2>4
    <3> HIDE DEF a, b, x, y
    <3>3. a + b <= y
      BY <3>1
    <3> QED
      BY <3>2, <3>3 DEF y
  <2> QED
    BY <2>1, <2>7 DEF d
<1> HIDE DEF T
<1>5. ASSUME NEW m \in 0 .. N PROVE m \in T
  <2>1. m \in Nat /\ \A d \in 0 .. m - 1 : d \in 0 .. N - 1
    OBVIOUS
  <2>2. \A d \in 0 .. m - 1 : d \in T => d + 1 \in T
    BY <1>4, <2>1
  <2> QED
    BY <1>3, <2>1, <2>2, Induction
<1>6. ASSUME NEW m \in 0 .. N PROVE Len(held[m]) <= room[m]
  <2>1. m \in T /\ m <= N
    BY <1>5
  <2> QED
    BY <2>1 DEF T
<1> QED
  BY <1>6 DEF held

\* A row of empty cells.
LEMMA JoinedEmpty ==
    ASSUME NEW N \in Nat, NEW cells, \A d \in 0 .. N : cells[d] = <<>>
    PROVE  \A m \in 0 .. N : Joined(N, cells)[m] = <<>>
<1> DEFINE f == [d \in 0 .. N |-> <<>>]
<1>1. Row(<<>>, <<>>) = <<>>
  <2>1. <<>> \in Seq({0})
    OBVIOUS
  <2> QED
    BY <2>1, RowEmpty
<1>2. \A d \in 0 .. N : f[d] = <<>>
  OBVIOUS
<1> HIDE DEF f
<1>3. f[0] = cells[0]
  BY <1>2
<1>4. ASSUME NEW d \in 1 .. N PROVE f[d] = Row(cells[d], f[d - 1])
  <2>1. d \in 0 .. N /\ d - 1 \in 0 .. N
    OBVIOUS
  <2>2. f[d] = <<>> /\ cells[d] = <<>> /\ f[d - 1] = <<>>
    BY <1>2, <2>1
  <2> QED
    BY <1>1, <2>2
<1>5. \A m \in 0 .. N : f[m] = Joined(N, cells)[m]
  BY <1>3, <1>4, JoinsOnly
<1> QED
  BY <1>2, <1>5

(***************************************************************************)
(* A skid buffer in front of something that may take its word: it keeps    *)
(* the word that it accepted and that was not taken.  Of the word kept and *)
(* the word offered, m tells which are looked at.                          *)
(***************************************************************************)
SkidMoves(kept, tready, valid, taken, kept2, b, mb, w, mw, b2, mb2, t, mt) ==
    /\ {kept, tready, valid, taken, kept2, mb, mw, mb2, mt} \subseteq BOOLEAN
    /\ kept => ~tready
    /\ taken => kept \/ (valid /\ tready)
    /\ kept2 <=> (kept \/ (valid /\ tready)) /\ ~taken
    /\ b2 = (IF tready THEN w ELSE b) /\ mb2 = (IF tready THEN mw ELSE mb)
    /\ t = (IF kept THEN b ELSE w) /\ mt = (IF kept THEN mb ELSE mw)

\* The word is kept, or it passes.
LEMMA SkidConveys ==
    ASSUME NEW kept, NEW tready, NEW valid, NEW taken, NEW kept2, NEW b, NEW mb,
           NEW w, NEW mw, NEW b2, NEW mb2, NEW t, NEW mt,
           SkidMoves(kept, tready, valid, taken, kept2, b, mb, w, mw, b2, mb2, t, mt)
    PROVE  Row(One(kept /\ mb, b), One(valid /\ tready /\ mw, w))
               = Row(One(taken /\ mt, t), One(kept2 /\ mb2, b2))
<1> USE DEF SkidMoves
<1>1. \A x : <<x>> \in Seq({x}) /\ <<>> \in Seq({x})
  OBVIOUS
<1>2. \A x : Row(<<>>, <<x>>) = <<x>> /\ Row(<<x>>, <<>>) = <<x>>
  BY <1>1, RowEmpty
<1>3. Row(<<>>, <<>>) = <<>>
  BY <1>1, RowEmpty
<1>4. CASE kept
  <2>1. ~(valid /\ tready /\ mw) /\ t = b /\ mt = mb /\ b2 = b /\ mb2 = mb
        /\ (kept2 <=> ~taken)
    BY <1>4
  <2> QED
    BY <1>2, <1>3, <1>4, <2>1 DEF One
<1>5. CASE ~kept
  <2>1. CASE valid /\ tready
    <3>1. t = w /\ mt = mw /\ b2 = w /\ mb2 = mw /\ (kept2 <=> ~taken)
      BY <1>5, <2>1
    <3> QED
      BY <1>2, <1>3, <1>5, <2>1, <3>1 DEF One
  <2>2. CASE ~(valid /\ tready)
    <3>1. ~taken /\ ~kept2
      BY <1>5, <2>2
    <3> QED
      BY <1>3, <1>5, <2>2, <3>1 DEF One
  <2> QED
    BY <2>1, <2>2
<1> QED
  BY <1>4, <1>5

(***************************************************************************)
(* A register that is loaded when it is ready.                             *)
(***************************************************************************)
LEMMA RegisterConveys ==
    ASSUME NEW valid \in BOOLEAN, NEW ready \in BOOLEAN, NEW loads \in BOOLEAN,
           NEW valid2 \in BOOLEAN, NEW w, NEW i, NEW w2,
           valid2 = (IF ready THEN loads ELSE valid),
           loads => ready,
           valid2 => w2 = (IF ready THEN i ELSE w)
    PROVE  Row(One(valid, w), One(loads, i)) = Row(One(valid /\ ready, w), One(valid2, w2))
<1>1. \A x : <<x>> \in Seq({x}) /\ <<>> \in Seq({x})
  OBVIOUS
<1>2. \A x : Row(<<>>, <<x>>) = <<x>> /\ Row(<<x>>, <<>>) = <<x>>
  BY <1>1, RowEmpty
<1>3. Row(<<>>, <<>>) = <<>>
  BY <1>1, RowEmpty
<1>4. CASE ready
  <2>1. valid2 = loads /\ (loads => w2 = i)
    BY <1>4
  <2>2. One(valid /\ ready, w) = One(valid, w) /\ One(valid2, w2) = One(loads, i)
    BY <1>4, <2>1 DEF One
  <2> QED
    BY <2>2
<1>5. CASE ~ready
  <2>1. ~loads /\ valid2 = valid /\ (valid => w2 = w)
    BY <1>5
  <2> QED
    BY <1>2, <1>3, <1>5, <2>1 DEF One
<1> QED
  BY <1>4, <1>5

(***************************************************************************)
(* The port in front of a row of words.                                    *)
(***************************************************************************)
FrontMoves(S, word, valid, ready, rest, after, offered) ==
    /\ word \in S /\ {valid, ready} \subseteq BOOLEAN
    /\ rest \in Seq(S) /\ after \in Seq(S)
    /\ offered = Row(One(valid, word), rest)
    /\ offered = Row(One(valid /\ ready, word), after)

(***************************************************************************)
(* It shows the oldest word; after a clock the row has lost that word if   *)
(* it was taken.                                                           *)
(***************************************************************************)
LEMMA FrontDelivers ==
    ASSUME NEW S, NEW word, NEW valid, NEW ready, NEW rest, NEW after, NEW offered,
           FrontMoves(S, word, valid, ready, rest, after, offered)
    PROVE  /\ valid => offered # <<>> /\ word = Head(offered)
           /\ after = IF valid /\ ready THEN Tail(offered) ELSE offered
<1> USE DEF FrontMoves
<1> DEFINE row == Row(One(valid, word), rest)
<1>1. valid => row # <<>> /\ word = Head(row)
  <2>1. valid => row # <<>> /\ Head(row) = word
    BY PortFirst
  <2> HIDE DEF row
  <2> QED
    BY <2>1
<1>2. /\ valid /\ ready => Tail(offered) = after
      /\ ~(valid /\ ready) => offered = after
  <2> DEFINE given == valid /\ ready
  <2>1. given \in BOOLEAN /\ offered = Row(One(given, word), after)
    OBVIOUS
  <2> HIDE DEF given
  <2>2. (given => Tail(offered) = after) /\ (~given => offered = after)
    BY <2>1, PortFirst
  <2> QED
    BY <2>2 DEF given
<1>3. offered = row
  OBVIOUS
<1> HIDE DEF row
<1>4. valid => offered # <<>> /\ word = Head(offered)
  BY <1>1, <1>3
<1> QED
  BY <1>2, <1>4

(***************************************************************************)
(* A part of a row takes what comes and passes on what it gives.           *)
(***************************************************************************)
Conveys(S, part, coming, given, after) ==
    /\ {part, coming, given, after} \subseteq Seq(S)
    /\ Row(part, coming) = Row(given, after)

\* Two parts, the second of which takes what the first one gives.
LEMMA ConveysOn ==
    ASSUME NEW S, NEW first, NEW coming, NEW passed, NEW first2,
           NEW second, NEW given, NEW second2,
           Conveys(S, first, coming, passed, first2),
           Conveys(S, second, passed, given, second2)
    PROVE  Conveys(S, Row(second, first), coming, given, Row(second2, first2))
<1>1. /\ first \in Seq(S) /\ coming \in Seq(S) /\ passed \in Seq(S) /\ first2 \in Seq(S)
      /\ second \in Seq(S) /\ given \in Seq(S) /\ second2 \in Seq(S)
      /\ Row(first, coming) = Row(passed, first2)
      /\ Row(second, passed) = Row(given, second2)
  BY DEF Conveys
<1>2. Row(Row(second, first), coming) = Row(second, Row(passed, first2))
  BY <1>1, RowAssociative
<1>3. Row(second, Row(passed, first2)) = Row(Row(given, second2), first2)
  BY <1>1, RowAssociative
<1>4. Row(Row(given, second2), first2) = Row(given, Row(second2, first2))
  BY <1>1, RowAssociative
<1>5. Row(second, first) \in Seq(S) /\ Row(second2, first2) \in Seq(S)
  BY <1>1, RowSeq
<1> QED
  BY <1>1, <1>2, <1>3, <1>4, <1>5 DEF Conveys

\* A part that ends with a port, of which the word is taken when the port is ready.
PortGives(S, word, valid, ready, behind, coming, part, after, offered) ==
    /\ valid \in BOOLEAN /\ ready \in BOOLEAN /\ behind \in Seq(S)
    /\ valid => word \in S
    /\ part = Row(One(valid, word), behind)
    /\ offered = Row(part, coming)
    /\ Conveys(S, part, coming, One(valid /\ ready, word), after)

(***************************************************************************)
(* The port shows the oldest word; after a clock the part has lost that    *)
(* word if it was taken.                                                   *)
(***************************************************************************)
LEMMA ConveysToPort ==
    ASSUME NEW S, NEW word, NEW valid, NEW ready, NEW behind, NEW coming, NEW part,
           NEW after, NEW offered,
           PortGives(S, word, valid, ready, behind, coming, part, after, offered)
    PROVE  /\ valid => offered # <<>> /\ word = Head(offered)
           /\ after = IF valid /\ ready THEN Tail(offered) ELSE offered
<1>0. /\ valid \in BOOLEAN /\ ready \in BOOLEAN /\ behind \in Seq(S)
      /\ valid => word \in S
      /\ part = Row(One(valid, word), behind) /\ offered = Row(part, coming)
      /\ Conveys(S, part, coming, One(valid /\ ready, word), after)
  BY DEF PortGives
<1>1. /\ coming \in Seq(S) /\ after \in Seq(S)
      /\ offered = Row(One(valid /\ ready, word), after)
  BY <1>0 DEF Conveys
<1> DEFINE rest == Row(behind, coming)
           front == One(valid, word)
<1>2. front \in Seq(S)
  BY <1>0, OneTyped
<1>3. rest \in Seq(S) /\ offered = Row(front, rest)
  <2>1. offered = Row(Row(front, behind), coming)
    BY <1>0
  <2> HIDE DEF front
  <2>2. Row(behind, coming) \in Seq(S)
    BY <1>0, <1>1, RowSeq
  <2>3. Row(Row(front, behind), coming) = Row(front, Row(behind, coming))
    BY <1>0, <1>1, <1>2, RowAssociative
  <2> QED
    BY <2>1, <2>2, <2>3
<1> HIDE DEF rest
<1>4. CASE valid
  <2>1. FrontMoves(S, word, valid, ready, rest, after, offered)
    BY <1>0, <1>1, <1>3, <1>4 DEF FrontMoves, front
  <2> QED
    BY <2>1, FrontDelivers
<1>5. CASE ~valid
  <2>1. One(valid /\ ready, word) = <<>>
    BY <1>5 DEF One
  <2>2. offered = after
    BY <1>1, <2>1, RowEmpty
  <2> QED
    BY <1>5, <2>2
<1> QED
  BY <1>0, <1>4, <1>5

=============================================================================
