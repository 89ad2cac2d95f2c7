------------------------------ MODULE BitVector ------------------------------
(***************************************************************************)
(* What logic::bitstream promises to its clients, without buffers: vectors *)
(* of bits that are values.  Two weak points of the code are visible here: *)
(*                                                                         *)
(*   - a vector that was cut inside a byte is not `tidy': the bits that    *)
(*     were cut off may come back when it grows again inside that byte,    *)
(*     and they take part in comparisons;                                  *)
(*   - copying n bits from or to memory handles an incomplete last byte    *)
(*     only when n is less than a byte (Reached).                          *)
(***************************************************************************)
EXTENDS Naturals, Sequences

CONSTANTS Objects, BITS, WORD, MaxSize

VARIABLES vec,   \* of each living vector: its bits, and whether it is tidy
          result

vars == <<vec, result>>

Live == DOMAIN vec

Size(o) == Len(vec[o].bits)

Smaller(m, n) == IF m < n THEN m ELSE n

Vector(bits) == [bits |-> bits, tidy |-> TRUE]

Nothing == Vector(<<>>)

With(o, v) == [p \in Live \cup {o} |-> IF p = o THEN v ELSE vec[p]]

Patterns(n) == {[i \in 1 .. n |-> (i + k) % 2 = 1] : k \in 0 .. 1}

Init == vec = [o \in {} |-> Nothing] /\ result = <<>>

Create(o) ==
    \E n \in 0 .. MaxSize :
        vec' = With(o, Vector([i \in 1 .. n |-> FALSE]))

Drop(o) == vec' = [p \in Live \ {o} |-> vec[p]]

Assign(o, other) == vec' = With(o, vec[other])

\* A move empties its source, unless it is its destination.
Take(o, other) ==
    vec' = [p \in Live \cup {o} |-> CASE p = o -> vec[other]
                                      [] p = other /\ p # o -> Nothing
                                      [] OTHER -> vec[p]]

\* New bits are zero, but for cut off bits of the last byte.
Grow(o, n) ==
    LET last == ((Size(o) + BITS - 1) \div BITS) * BITS IN
    /\ n > Size(o)
    /\ DOMAIN vec' = Live
    /\ Len(vec'[o].bits) = n
    /\ \A i \in 1 .. n :
          \/ i <= Size(o) /\ vec'[o].bits[i] = vec[o].bits[i]
          \/ i > Size(o) /\ ~vec'[o].bits[i]
          \/ i > Size(o) /\ i <= last /\ ~vec[o].tidy
    /\ vec[o].tidy \/ n >= last => vec'[o].tidy
    /\ \A p \in Live \ {o} : vec'[p] = vec[p]

Shrink(o, n) ==
    /\ n < Size(o)
    /\ \E tidy \in BOOLEAN :
          /\ n % BITS = 0 => tidy
          /\ vec' = With(o, [bits |-> SubSeq(vec[o].bits, 1, n), tidy |-> tidy])

\* The bits in which becomes differs from bits were asked for.
Update(o, changed, to) ==
    vec' = [vec EXCEPT ![o].bits =
               [i \in 1 .. Size(o) |-> IF i \in changed THEN to[i] ELSE @[i]]]

\* The bits that a transfer of n bits from or to memory reaches.
Reached(n) == IF n < BITS THEN 1 .. n ELSE 1 .. (n \div BITS) * BITS

Modify(o) ==
    \/ vec' = With(o, Vector([i \in 1 .. Size(o) |-> FALSE]))
    \/ \E i \in 1 .. Size(o), b \in BOOLEAN : Update(o, {i}, [j \in {i} |-> b])
    \/ \E n \in 0 .. Size(o), number \in Patterns(WORD) :
          Update(o, 1 .. n, [i \in 1 .. n |-> i <= WORD /\ number[i]])
    \/ \E n \in 0 .. Size(o), memory \in Patterns(MaxSize) :
          Update(o, Reached(n), memory)

Returns(read, bits) == result' = <<read, bits>>

Read(o) ==
    /\ vec' = vec
    /\ \/ \E n \in 0 .. Smaller(Size(o), WORD) :
             Returns("value", [i \in 1 .. WORD |-> i <= n /\ vec[o].bits[i]])
       \/ \E n \in 0 .. Size(o), memory \in Patterns(MaxSize) :
             Returns("copy", [i \in 1 .. MaxSize |->
                         IF i \in Reached(n) THEN vec[o].bits[i] ELSE memory[i]])
       \/ Returns("bool", <<Size(o) > 0 /\ vec[o].bits[1]>>)
       \/ Returns("forward", vec[o].bits)
       \* Backwards the last bit is left out and the first one comes twice.
       \/ Returns("backward", [i \in 1 .. Size(o) |->
                         vec[o].bits[IF i = Size(o) THEN 1 ELSE Size(o) - i]])

\* Comparing tidy vectors as numbers is exact; nothing is less than another.
Compare(o, other) ==
    /\ vec' = vec
    /\ \/ \E same \in BOOLEAN :
             /\ Returns("equal", <<same>>)
             /\ vec[o].tidy /\ vec[other].tidy =>
                   same = \A i \in 1 .. MaxSize :
                             (i <= Size(o) /\ vec[o].bits[i])
                                 = (i <= Size(other) /\ vec[other].bits[i])
       \/ Returns("less", <<FALSE>>)

Silent(o) ==
    \/ o \notin Live /\ Create(o)
    \/ \E other \in Live : Assign(o, other) \/ Take(o, other)
    \/ o \in Live /\ \E n \in 0 .. MaxSize : Grow(o, n) \/ Shrink(o, n)
    \/ o \in Live /\ (Drop(o) \/ Modify(o))

Next ==
    \E o \in Objects :
        \/ result' = <<>> /\ Silent(o)
        \/ o \in Live /\ Read(o)
        \/ o \in Live /\ \E other \in Live : Compare(o, other)

Spec == Init /\ [][Next]_vars

=============================================================================
