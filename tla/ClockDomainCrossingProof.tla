---------------------- MODULE ClockDomainCrossingProof ----------------------
(***************************************************************************)
(* Theorems about logic_clock_domain_crossing_generic, for every width of  *)
(* the pointers: whatever the two clocks do relative to each other, and    *)
(* whatever mixture of old and new bits a synchronizer samples, neither    *)
(* side overtakes the other.  The first half of the module is what the     *)
(* gray code promises (logic_basic_binary2gray, logic_basic_gray2binary);  *)
(* the second half is the invariant of the pointers on their way.          *)
(***************************************************************************)
EXTENDS ClockDomainCrossing, FiniteSetTheorems, FunctionTheorems, Rows

-----------------------------------------------------------------------------
\* The gray code.

\* The number without its k low bits.
Shift(p, k) == p \div 2^k

\* Shifting by one more bit halves the number.
LEMMA Shifts ==
    ASSUME NEW p \in Nat, NEW k \in Nat
    PROVE  /\ Shift(p, k) \in Nat
           /\ Shift(p, 0) = p
           /\ Shift(p, k + 1) = Shift(p, k) \div 2
           /\ Shift(p + 1, k) \in {Shift(p, k), Shift(p, k) + 1}
<1> DEFINE P == 2^k
<1>1. P \in Nat /\ P >= 1 /\ 2^(k + 1) = 2 * P /\ 2^0 = 1
  BY Power
<1> HIDE DEF P
<1>2. p \div P \in Nat
  BY <1>1, DivBounds
<1>3. p \div 1 = p
  OBVIOUS
<1>4. p \div (2 * P) = (p \div P) \div 2
  BY <1>1, DivDouble
<1>5. (p + 1) \div P \in {p \div P, (p \div P) + 1}
  BY <1>1, DivSucc
<1>6. Shift(p, 0) = p
  BY <1>1, <1>3 DEF Shift
<1>7. Shift(p, k + 1) = Shift(p, k) \div 2
  BY <1>1, <1>4 DEF Shift, P
<1> QED
  BY <1>2, <1>5, <1>6, <1>7 DEF Shift, P

\* A pointer has no bits from WIDTH on; one past the last has.
LEMMA Top ==
    /\ DEPTH \in Nat /\ DEPTH >= 2
    /\ \A p \in Addresses : Shift(p, WIDTH) = 0
    /\ Shift(DEPTH, WIDTH) = 1
<1>1. DEPTH \in Nat /\ DEPTH >= 2
  <2>1. WIDTH - 1 \in Nat /\ WIDTH - 1 + 1 = WIDTH
    BY WidthAssumption
  <2>2. 2^WIDTH = 2 * 2^(WIDTH - 1) /\ 2^(WIDTH - 1) \in Nat /\ 2^(WIDTH - 1) >= 1
    <3> DEFINE w == WIDTH - 1
    <3>1. 2^(w + 1) = 2 * 2^w /\ 2^w \in Nat /\ 2^w >= 1
      BY <2>1, Power
    <3> QED
      BY <2>1, <3>1
  <2> QED
    BY <2>2 DEF DEPTH
<1>2. ASSUME NEW p \in Addresses PROVE p \div DEPTH = 0
  <2>1. p \in Nat /\ p < DEPTH
    BY <1>1 DEF Addresses
  <2> QED
    BY <1>1, <2>1, DivIs
<1>3. DEPTH \div DEPTH = 1
  BY <1>1, DivIs
<1> QED
  BY <1>1, <1>2, <1>3 DEF Shift, DEPTH

\* The bits of a pointer, with the one above the top.
LEMMA BitOf ==
    ASSUME NEW p \in Addresses, NEW k \in 0 .. WIDTH
    PROVE  k \in Bits(p) <=> Shift(p, k) % 2 = 1
<1>1. CASE k = WIDTH
  BY <1>1, Top, WidthAssumption DEF Bits, Positions
<1>2. CASE k # WIDTH
  BY <1>2, WidthAssumption DEF Bits, Positions, Shift
<1> QED
  BY <1>1, <1>2

\* Pointers with the same bits are the same.
LEMMA BitsInjective ==
    ASSUME NEW p \in Addresses, NEW q \in Addresses, Bits(p) = Bits(q)
    PROVE  p = q
<1> DEFINE S == {j \in 0 .. WIDTH : Shift(p, WIDTH - j) = Shift(q, WIDTH - j)}
<1>1. WIDTH \in Nat /\ p \in Nat /\ q \in Nat
  BY Top, WidthAssumption DEF Addresses
<1>2. 0 \in S
  BY <1>1, Top
<1>3. ASSUME NEW j \in 0 .. WIDTH - 1, j \in S PROVE j + 1 \in S
  <2> DEFINE k == WIDTH - (j + 1)
             a == Shift(p, k)
             b == Shift(q, k)
  <2>1. k \in Nat /\ k \in 0 .. WIDTH /\ k + 1 = WIDTH - j
    BY <1>1
  <2>2. Shift(p, WIDTH - j) = Shift(q, WIDTH - j)
    BY <1>3
  <2> HIDE DEF k
  <2>3. /\ a \in Nat /\ b \in Nat
        /\ Shift(p, k + 1) = a \div 2 /\ Shift(q, k + 1) = b \div 2
    BY <1>1, <2>1, Shifts
  <2>4. a % 2 = 1 <=> b % 2 = 1
    BY <2>1, BitOf
  <2> HIDE DEF a, b
  <2>5. a \div 2 = b \div 2
    BY <2>1, <2>2, <2>3
  <2>6. a = b
    BY <2>3, <2>4, <2>5
  <2>7. j + 1 \in 0 .. WIDTH
    BY <1>1
  <2> QED
    BY <2>6, <2>7 DEF a, b, k
<1> HIDE DEF S
<1>4. WIDTH \in S
  BY <1>1, <1>2, <1>3, Induction
<1>5. Shift(p, 0) = Shift(q, 0)
  BY <1>1, <1>4 DEF S
<1> QED
  BY <1>1, <1>5, Shifts

\* Counting up by one changes the bits up to some position: what is unchanged
\* after shifting stays unchanged.
LEMMA Settled ==
    ASSUME NEW p \in Nat, NEW a \in Nat, NEW b \in Nat, a <= b,
           Shift(p + 1, a) = Shift(p, a)
    PROVE  Shift(p + 1, b) = Shift(p, b)
<1> DEFINE S == {i \in Nat : Shift(p + 1, a + i) = Shift(p, a + i)}
<1>1. 0 \in S
  OBVIOUS
<1>2. ASSUME NEW i \in 0 .. (b - a) - 1, i \in S PROVE i + 1 \in S
  <2>1. i \in Nat /\ a + i \in Nat /\ a + (i + 1) = a + i + 1
    OBVIOUS
  <2>2. Shift(p + 1, a + i + 1) = Shift(p + 1, a + i) \div 2
    BY <2>1, Shifts
  <2>3. Shift(p, a + i + 1) = Shift(p, a + i) \div 2
    BY <2>1, Shifts
  <2> QED
    BY <1>2, <2>1, <2>2, <2>3
<1> HIDE DEF S
<1>3. b - a \in Nat /\ a + (b - a) = b
  OBVIOUS
<1>4. b - a \in S
  BY <1>1, <1>2, <1>3, Induction
<1> QED
  BY <1>3, <1>4 DEF S

\* What one step does to the bits: those that carry change, and the carry goes on
\* exactly over ones.
LEMMA Carry ==
    ASSUME NEW p \in Nat, NEW k \in Nat
    PROVE  LET C(i) == Shift(p + 1, i) # Shift(p, i)
           IN  /\ C(k) <=> ~(Shift(p + 1, k) % 2 = 1 <=> Shift(p, k) % 2 = 1)
               /\ C(k + 1) <=> C(k) /\ Shift(p, k) % 2 = 1
<1> DEFINE a == Shift(p, k)
           b == Shift(p + 1, k)
<1> DEFINE n == p + 1
<1>1. n \in Nat
  OBVIOUS
<1>2. /\ a \in Nat /\ Shift(n, k) \in {a, a + 1}
      /\ Shift(p, k + 1) = a \div 2
  BY Shifts
<1> HIDE DEF n
<1>3. Shift(n, k + 1) = Shift(n, k) \div 2
  BY <1>1, Shifts
<1> HIDE DEF a
<1> USE DEF n
<1>4. b \in {a, a + 1} /\ Shift(p + 1, k + 1) = b \div 2
  BY <1>2, <1>3
<1> HIDE DEF b
<1>5. b # a <=> ~(b % 2 = 1 <=> a % 2 = 1)
  BY <1>2, <1>4
<1>6. b \div 2 # a \div 2 <=> b # a /\ a % 2 = 1
  BY <1>2, <1>4
<1> QED
  BY <1>2, <1>4, <1>5, <1>6 DEF a, b

\* A bit of the gray code differs from the binary one by the bit above.
LEMMA GrayBit ==
    ASSUME NEW b \in SUBSET Positions, NEW k \in Positions
    PROVE  k \in BinaryToGray(b) <=> ~(k \in b <=> k + 1 \in b)
<1>1. k \in BinaryToGray(b) <=> (k \in b) # (k + 1 \in b)
  BY DEF BinaryToGray
<1>2. (k \in b) # (k + 1 \in b) <=> ~(k \in b <=> k + 1 \in b)
  <2>1. CASE k \in b /\ k + 1 \in b
    BY <2>1
  <2>2. CASE k \in b /\ k + 1 \notin b
    BY <2>2
  <2>3. CASE k \notin b /\ k + 1 \in b
    BY <2>3
  <2>4. CASE k \notin b /\ k + 1 \notin b
    BY <2>4
  <2> QED
    BY <2>1, <2>2, <2>3, <2>4
<1> QED
  BY <1>1, <1>2

\* Neighbours, going round, differ in at most one bit of their gray code.
LEMMA OneBit ==
    ASSUME NEW p \in Addresses
    PROVE  \A j, k \in Positions :
               /\ ~(j \in BinaryToGray(Bits(p)) <=> j \in BinaryToGray(Bits(NextPointer(p))))
               /\ ~(k \in BinaryToGray(Bits(p)) <=> k \in BinaryToGray(Bits(NextPointer(p))))
               => j = k
<1> DEFINE n == NextPointer(p)
           C(i) == Shift(p + 1, i) # Shift(p, i)
           Changed(k) == ~(k \in BinaryToGray(Bits(p)) <=> k \in BinaryToGray(Bits(n)))
<1>1. /\ WIDTH \in Nat /\ DEPTH \in Nat /\ p \in Nat
      /\ n \in Addresses
      /\ Bits(p) \in SUBSET Positions /\ Bits(n) \in SUBSET Positions
  BY Top, WidthAssumption DEF Addresses, NextPointer, Bits
<1>2. \A k \in Nat : /\ C(k) <=> ~(Shift(p + 1, k) % 2 = 1 <=> Shift(p, k) % 2 = 1)
                     /\ C(k + 1) <=> C(k) /\ Shift(p, k) % 2 = 1
  BY <1>1, Carry
<1>3. \A a, b \in Nat : a <= b /\ C(b) => C(a)
  BY <1>1, Settled
<1>4. \A k \in Positions : Changed(k) => C(k) /\ (C(k + 1) => k = WIDTH - 1)
  <2> SUFFICES ASSUME NEW k \in Positions, Changed(k)
               PROVE  C(k) /\ (C(k + 1) => k = WIDTH - 1)
    OBVIOUS
  <2>1. k \in Nat /\ k \in 0 .. WIDTH /\ k + 1 \in 0 .. WIDTH /\ k + 1 \in Nat
    BY <1>1 DEF Positions
  <2>2. ~((k \in Bits(p) <=> k + 1 \in Bits(p)) <=> (k \in Bits(n) <=> k + 1 \in Bits(n)))
    BY <1>1, GrayBit
  <2>3. CASE p # DEPTH - 1
    <3>1. n = p + 1
      BY <2>3 DEF NextPointer
    <3>2. /\ k \in Bits(p) <=> Shift(p, k) % 2 = 1
          /\ k \in Bits(n) <=> Shift(p + 1, k) % 2 = 1
          /\ k + 1 \in Bits(p) <=> Shift(p, k + 1) % 2 = 1
          /\ k + 1 \in Bits(n) <=> Shift(p + 1, k + 1) % 2 = 1
      BY <1>1, <2>1, <3>1, BitOf
    <3> HIDE DEF C, n
    <3>3. /\ C(k) <=> ~(Shift(p + 1, k) % 2 = 1 <=> Shift(p, k) % 2 = 1)
          /\ C(k + 1) <=> ~(Shift(p + 1, k + 1) % 2 = 1 <=> Shift(p, k + 1) % 2 = 1)
          /\ C(k + 1) => C(k)
      BY <1>2, <2>1
    <3>4. C(k) /\ ~C(k + 1)
      BY <2>2, <3>2, <3>3
    <3> QED
      BY <3>4
  <2>4. CASE p = DEPTH - 1
    <3>1. n = 0 /\ p + 1 = DEPTH
      BY <1>1, <2>4 DEF NextPointer
    <3>2. C(WIDTH)
      BY <3>1, Top
    <3>3. C(k) /\ C(k + 1)
      BY <1>1, <1>3, <2>1, <3>2
    <3>4. \A i \in Positions : i \in Bits(p)
      <4> SUFFICES ASSUME NEW i \in Positions PROVE i \in Bits(p)
        OBVIOUS
      <4>1. i \in Nat /\ i + 1 \in Nat /\ i + 1 <= WIDTH /\ i \in 0 .. WIDTH
        BY <1>1 DEF Positions
      <4>2. C(i + 1)
        BY <1>1, <1>3, <3>2, <4>1
      <4>3. Shift(p, i) % 2 = 1
        BY <1>2, <4>1, <4>2
      <4> QED
        BY <4>1, <4>3, BitOf
    <3>5. \A i \in 0 .. WIDTH : i \notin Bits(n)
      <4> SUFFICES ASSUME NEW i \in 0 .. WIDTH, i \in Bits(0) PROVE FALSE
        BY <3>1
      <4>1. 2^i \in Nat /\ 2^i >= 1
        BY <1>1, Power
      <4>2. 0 \div 2^i = 0
        BY <4>1, DivIs
      <4>3. (0 \div 2^i) % 2 = 1
        BY DEF Bits
      <4>4. 0 % 2 # 1
        OBVIOUS
      <4> QED
        BY <4>2, <4>3, <4>4, Zenon
    <3>6. k + 1 \notin Bits(p)
      BY <2>1, <2>2, <3>4, <3>5
    <3>7. k = WIDTH - 1
      BY <1>1, <3>4, <3>6 DEF Positions
    <3> QED
      BY <3>3, <3>7
  <2> QED
    BY <2>3, <2>4
<1> HIDE DEF Changed, C
<1>5. ASSUME NEW j \in Positions, NEW k \in Positions, Changed(j), Changed(k), j < k
      PROVE  FALSE
  <2>1. j \in Nat /\ k \in Nat /\ j + 1 \in Nat /\ j + 1 <= k /\ j # WIDTH - 1
    BY <1>1, <1>5 DEF Positions
  <2>2. C(k) /\ ~C(j + 1)
    BY <1>4, <1>5, <2>1
  <2> QED
    BY <1>3, <2>1, <2>2
<1>6. \A j, k \in Positions : Changed(j) /\ Changed(k) => j = k
  BY <1>1, <1>5 DEF Positions
<1> QED
  BY <1>6 DEF Changed

\* The conversions undo each other.
LEMMA RoundTrip ==
    ASSUME NEW b \in SUBSET Positions
    PROVE  GrayToBinary(BinaryToGray(b)) = b
<1> DEFINE g == BinaryToGray(b)
           From(k) == {i \in g : i >= k}
           S == {j \in 0 .. WIDTH : Cardinality(From(WIDTH - j)) % 2 = 1
                                        <=> WIDTH - j \in b}
<1>1. WIDTH \in Nat /\ g \in SUBSET Positions
  BY WidthAssumption DEF BinaryToGray
<1>2. \A k \in Nat : IsFiniteSet(From(k)) /\ Cardinality(From(k)) \in Nat
  <2>1. IsFiniteSet(Positions)
    BY <1>1, FS_Interval DEF Positions
  <2>2. \A k \in Nat : From(k) \subseteq Positions
    BY <1>1
  <2> HIDE DEF From
  <2> QED
    BY <2>1, <2>2, FS_Subset, FS_CardinalityType
<1>3. 0 \in S
  <2>1. From(WIDTH) = {} /\ WIDTH \notin b
    BY <1>1 DEF Positions
  <2>2. Cardinality(From(WIDTH)) = 0
    BY <2>1, FS_EmptySet
  <2>3. ~(Cardinality(From(WIDTH)) % 2 = 1)
    BY <2>2
  <2>4. WIDTH - 0 = WIDTH /\ 0 \in 0 .. WIDTH
    BY <1>1
  <2> HIDE DEF From
  <2> QED
    BY <2>1, <2>3, <2>4
<1>4. ASSUME NEW j \in 0 .. WIDTH - 1, j \in S PROVE j + 1 \in S
  <2> DEFINE k == WIDTH - (j + 1)
             c == Cardinality(From(k))
             e == Cardinality(From(k + 1))
  <2>1. k \in Positions /\ k \in Nat /\ k + 1 \in Nat /\ k + 1 = WIDTH - j
    BY <1>1 DEF Positions
  <2> HIDE DEF k
  <2>2. e % 2 = 1 <=> k + 1 \in b
    BY <1>4, <2>1
  <2>3. k \in g <=> ~(k \in b <=> k + 1 \in b)
    BY <2>1, GrayBit
  <2>4. c \in Nat /\ e \in Nat
    BY <1>2, <2>1
  <2>5. CASE k \in g
    <3>1. From(k) = From(k + 1) \cup {k} /\ k \notin From(k + 1)
      BY <1>1, <2>1, <2>5 DEF Positions
    <3> HIDE DEF From
    <3>2. Cardinality(From(k + 1) \cup {k}) = Cardinality(From(k + 1)) + 1
      BY <1>2, <2>1, <3>1, FS_AddElement
    <3>3. c = e + 1
      BY <3>1, <3>2
    <3> HIDE DEF c, e
    <3> QED
      BY <2>2, <2>3, <2>4, <2>5, <3>3, <1>1 DEF k, c
  <2>6. CASE k \notin g
    <3>1. From(k) = From(k + 1)
      BY <1>1, <2>1, <2>6 DEF Positions
    <3>2. c = e
      BY <3>1
    <3> HIDE DEF c, e
    <3> QED
      BY <2>2, <2>3, <2>4, <2>6, <3>2, <1>1 DEF k, c
  <2> QED
    BY <2>5, <2>6
<1> HIDE DEF S
<1>5. \A n \in 0 .. WIDTH : n \in S
  <2> SUFFICES ASSUME NEW n \in 0 .. WIDTH PROVE n \in S
    OBVIOUS
  <2>1. n \in Nat /\ \A k \in 0 .. n - 1 : k \in S => k + 1 \in S
    BY <1>1, <1>4
  <2> QED
    BY <1>3, <2>1, Induction
<1>6. \A k \in Positions : Cardinality(From(k)) % 2 = 1 <=> k \in b
  <2> SUFFICES ASSUME NEW k \in Positions
               PROVE  Cardinality(From(k)) % 2 = 1 <=> k \in b
    OBVIOUS
  <2> DEFINE j == WIDTH - k
  <2>1. j \in 0 .. WIDTH /\ WIDTH - j = k
    BY <1>1 DEF Positions
  <2> HIDE DEF j, From
  <2>2. j \in S
    BY <1>5, <2>1
  <2> QED
    BY <2>1, <2>2 DEF S
<1> QED
  BY <1>6 DEF GrayToBinary

-----------------------------------------------------------------------------
\* Pointers in gray code, and what a synchronizer may sample.

Codes == {GrayOf[p] : p \in Addresses}

\* A pointer survives the way through the gray code.
LEMMA Decode ==
    ASSUME NEW p \in Addresses
    PROVE  /\ GrayOf[p] \in Codes
           /\ GrayOf[p] \in SUBSET Positions
           /\ PointerOf[GrayOf[p]] = p
<1>1. Bits(p) \in SUBSET Positions
  BY DEF Bits
<1>2. GrayOf[p] = BinaryToGray(Bits(p)) /\ GrayOf[p] \in SUBSET Positions
  BY DEF GrayOf, BinaryToGray
<1>3. GrayToBinary(GrayOf[p]) = Bits(p)
  BY <1>1, <1>2, RoundTrip
<1>4. PointerOf[GrayOf[p]] = CHOOSE q \in Addresses : Bits(q) = Bits(p)
  BY <1>2, <1>3 DEF PointerOf
<1>5. \A q \in Addresses : Bits(q) = Bits(p) => q = p
  BY BitsInjective
<1> QED
  BY <1>2, <1>4, <1>5 DEF Codes

\* A code is a set of bits, and the code of an address.
LEMMA CodeType ==
    ASSUME NEW g \in Codes
    PROVE  g \in SUBSET Positions /\ PointerOf[g] \in Addresses
<1>1. PICK p \in Addresses : g = GrayOf[p]
  BY DEF Codes
<1> QED
  BY <1>1, Decode

\* The pointer that is zero has no ones.
LEMMA ZeroCode == 0 \in Addresses /\ {} \in Codes /\ PointerOf[{}] = 0
<1>1. 0 \in Addresses
  BY Top DEF Addresses
<1>2. Bits(0) = {}
  <2> SUFFICES ASSUME NEW k \in Positions, (0 \div 2^k) % 2 = 1 PROVE FALSE
    BY DEF Bits
  <2>1. k \in Nat
    BY WidthAssumption DEF Positions
  <2>2. 2^k \in Nat /\ 2^k >= 1
    BY <2>1, Power
  <2>3. 0 \div 2^k = 0
    BY <2>2, DivIs
  <2>4. 0 % 2 # 1
    OBVIOUS
  <2> QED
    BY <2>3, <2>4, Zenon
<1>3. GrayOf[0] = {}
  BY <1>1, <1>2 DEF GrayOf, BinaryToGray
<1> QED
  BY <1>1, <1>3, Decode

\* A register that is sampled while it changes to the next pointer gives the old
\* or the new one: no mixture is a third.
LEMMA Sampled ==
    ASSUME NEW p \in Addresses, NEW q \in {p, NextPointer(p)}, q \in Addresses,
           NEW s \in Mixtures(GrayOf[p], GrayOf[q])
    PROVE  s \in {GrayOf[p], GrayOf[q]}
<1> DEFINE old == GrayOf[p]
           new == GrayOf[q]
           moved == (old \ new) \cup (new \ old)
<1>1. PICK changed \in SUBSET moved : s = (old \ changed) \cup (new \cap changed)
  BY DEF Mixtures
<1>2. old \in SUBSET Positions /\ new \in SUBSET Positions
  BY Decode
<1>3. \A j, k \in moved : j = k
  <2>1. CASE q = p
    BY <2>1
  <2>2. CASE q = NextPointer(p)
    <3>1. old = BinaryToGray(Bits(p)) /\ new = BinaryToGray(Bits(NextPointer(p)))
      BY <2>2 DEF GrayOf
    <3> HIDE DEF old, new
    <3> QED
      BY <1>2, <3>1, OneBit
  <2> QED
    BY <2>1, <2>2
<1>4. CASE changed = {}
  BY <1>1, <1>4
<1>5. CASE changed # {}
  <2>1. changed = moved
    BY <1>1, <1>3, <1>5
  <2>2. s = new
    <3> HIDE DEF old, new
    <3> QED
      BY <1>1, <2>1
  <2> QED
    BY <2>2
<1> QED
  BY <1>4, <1>5

-----------------------------------------------------------------------------
\* Going round the pointers.

\* The difference of two addresses is an address, 0 only if they are the same.
LEMMA DifferenceType ==
    ASSUME NEW p \in Addresses, NEW q \in Addresses
    PROVE  /\ Difference(p, q) \in Addresses
           /\ Difference(p, q) \in Nat /\ Difference(p, q) <= DEPTH - 1
           /\ Difference(p, p) = 0
           /\ Difference(p, q) = 0 => p = q
<1> DEFINE d == DEPTH
<1>1. d \in Nat /\ p \in 0 .. d - 1 /\ q \in 0 .. d - 1
  BY Top DEF Addresses
<1> HIDE DEF d
<1> QED
  BY <1>1 DEF Difference, Addresses, d

\* Seen from a pointer further on, every pointer beyond it is nearer by as much.
LEMMA Rebase ==
    ASSUME NEW a \in Addresses, NEW b \in Addresses, NEW x \in Addresses,
           Difference(b, a) <= Difference(x, a)
    PROVE  Difference(x, b) = Difference(x, a) - Difference(b, a)
<1> DEFINE d == DEPTH
<1>1. d \in Nat /\ a \in 0 .. d - 1 /\ b \in 0 .. d - 1 /\ x \in 0 .. d - 1
  BY Top DEF Addresses
<1>2. /\ Difference(b, a) = IF b >= a THEN b - a ELSE b - a + d
      /\ Difference(x, a) = IF x >= a THEN x - a ELSE x - a + d
      /\ Difference(x, b) = IF x >= b THEN x - b ELSE x - b + d
  BY DEF Difference
<1> HIDE DEF d
<1> QED
  BY <1>1, <1>2

\* A pointer that does not catch up with another from behind moves one away.
LEMMA Advance ==
    ASSUME NEW x \in Addresses, NEW a \in Addresses
    PROVE  /\ NextPointer(x) \in Addresses
           /\ Difference(x, a) < DEPTH - 1 =>
                  Difference(NextPointer(x), a) = Difference(x, a) + 1
<1> DEFINE d == DEPTH
           n == NextPointer(x)
<1>1. d \in Nat /\ a \in 0 .. d - 1 /\ x \in 0 .. d - 1
  BY Top DEF Addresses
<1>2. n = IF x = d - 1 THEN 0 ELSE x + 1
  BY DEF NextPointer
<1>3. n \in 0 .. d - 1
  <2> HIDE DEF d, n
  <2> QED
    BY <1>1, <1>2
<1>4. /\ Difference(n, a) = IF n >= a THEN n - a ELSE n - a + d
      /\ Difference(x, a) = IF x >= a THEN x - a ELSE x - a + d
  BY DEF Difference
<1>5. Difference(x, a) < d - 1 => Difference(n, a) = Difference(x, a) + 1
  <2> HIDE DEF d, n
  <2> QED
    BY <1>1, <1>2, <1>3, <1>4
<1> QED
  BY <1>3, <1>5 DEF Addresses

-----------------------------------------------------------------------------
(***************************************************************************)
(* The invariant.  Read from read_pointer_synced on, going round, come the *)
(* read pointers on their way to Rx, the oldest first, the read pointer,   *)
(* the write pointers on their way to Tx and the write pointer.            *)
(***************************************************************************)
WriteSent == PointerOf[write_pointer_gray_q]

WriteArriving(k) == PointerOf[write_pointer_sync[k]]

ReadSent == PointerOf[read_pointer_gray_q]

ReadArriving(k) == PointerOf[read_pointer_sync[k]]

Ahead(p) == Difference(p, read_pointer_synced)

Encoded ==
    /\ write_pointer_gray_q \in Codes
    /\ read_pointer_gray_q \in Codes
    /\ \A k \in 0 .. 1 : write_pointer_sync[k] \in Codes
    /\ \A k \in 0 .. 1 : read_pointer_sync[k] \in Codes

Ordered ==
    /\ Ahead(ReadArriving(1)) <= Ahead(ReadArriving(0))
    /\ Ahead(ReadArriving(0)) <= Ahead(ReadSent)
    /\ Ahead(ReadSent) <= Ahead(read_pointer)
    /\ Ahead(read_pointer) <= Ahead(write_pointer_synced)
    /\ Ahead(write_pointer_synced) <= Ahead(WriteArriving(1))
    /\ Ahead(WriteArriving(1)) <= Ahead(WriteArriving(0))
    /\ Ahead(WriteArriving(0)) <= Ahead(WriteSent)
    /\ Ahead(WriteSent) <= Ahead(write_pointer)

\* What is sent is one step old at most: the change is of one bit.
Recent ==
    /\ write_pointer \in {WriteSent, NextPointer(WriteSent)}
    /\ read_pointer \in {ReadSent, NextPointer(ReadSent)}

\* What the flags, computed from older differences, still say of the pointers.
RxFlags ==
    /\ Ahead(write_pointer) <= write_difference + 1
    /\ rx_tready => Ahead(write_pointer) <= DEPTH - 2

TxFlags ==
    /\ read_difference <= Difference(write_pointer_synced, read_pointer) + 1
    /\ ~almost_empty => Difference(write_pointer_synced, read_pointer) >= 1

Inv == TypeOK /\ Encoded /\ Ordered /\ Recent /\ RxFlags /\ TxFlags

\* The pointers are pointers, and seen from read_pointer_synced they are apart by
\* less than the depth.
LEMMA Pointers ==
    ASSUME TypeOK, Encoded
    PROVE  /\ read_pointer_synced \in Addresses
           /\ ReadArriving(1) \in Addresses /\ ReadArriving(0) \in Addresses
           /\ ReadSent \in Addresses /\ read_pointer \in Addresses
           /\ write_pointer_synced \in Addresses
           /\ WriteArriving(1) \in Addresses /\ WriteArriving(0) \in Addresses
           /\ WriteSent \in Addresses /\ write_pointer \in Addresses
BY CodeType DEF TypeOK, Encoded, ReadArriving, ReadSent, WriteArriving,
   WriteSent

\* A read is enabled only when Tx knows of a word.
LEMMA ReadKnown ==
    ASSUME TypeOK, TxFlags, read_enable
    PROVE  Difference(write_pointer_synced, read_pointer) >= 1
<1>1. write_pointer_synced \in Addresses /\ read_pointer \in Addresses
  BY DEF TypeOK
<1>2. CASE almost_empty
  <2>1. write_pointer_synced # read_pointer
    BY <1>2 DEF read_enable, empty
  <2> QED
    BY <1>1, <2>1, DifferenceType
<1>3. CASE ~almost_empty
  BY <1>3 DEF TxFlags
<1> QED
  BY <1>2, <1>3

-----------------------------------------------------------------------------
\* What a rising edge does to the pointers of its side, and what the edge of the
\* other clock leaves alone.

RxMoves ==
    /\ read_pointer_synced' = ReadArriving(1)
    /\ ReadArriving(1)' = ReadArriving(0)
    /\ ReadArriving(0)' \in {ReadSent, ReadSent'}
    /\ WriteSent' = write_pointer
    /\ \/ write_pointer' = write_pointer
       \/ write_pointer' = NextPointer(write_pointer) /\ rx_tready
    /\ write_difference' = Difference(write_pointer, read_pointer_synced)
    /\ rx_tready' => write_difference < ALMOST_FULL

RxStays ==
    /\ UNCHANGED rxRegisters
    /\ UNCHANGED read_pointer_sync

TxMoves ==
    /\ write_pointer_synced' = WriteArriving(1)
    /\ WriteArriving(1)' = WriteArriving(0)
    /\ WriteArriving(0)' \in {WriteSent, WriteSent'}
    /\ ReadSent' = read_pointer
    /\ \/ read_pointer' = read_pointer
       \/ /\ read_pointer' = NextPointer(read_pointer)
          /\ Difference(write_pointer_synced, read_pointer) >= 1
    /\ read_difference' = Difference(write_pointer_synced, read_pointer)
    /\ ~almost_empty' => read_difference > ALMOST_EMPTY

TxStays ==
    /\ UNCHANGED txRegisters
    /\ UNCHANGED write_pointer_sync

(***************************************************************************)
(* Whichever of the two clocks has an edge, the order and the flags        *)
(* survive it.  The differences are first taken from where                 *)
(* read_pointer_synced was, then from where it is.                         *)
(***************************************************************************)
LEMMA ClockOrder ==
    ASSUME Inv, TypeOK', Encoded', RxMoves \/ RxStays, TxMoves \/ TxStays
    PROVE  Ordered' /\ Recent' /\ RxFlags' /\ TxFlags'
<1> DEFINE From(p) == Difference(p, read_pointer_synced)
           r4 == From(read_pointer_synced')
           r3 == From(ReadArriving(1)')
           r2 == From(ReadArriving(0)')
           r1 == From(ReadSent')
           r0 == From(read_pointer')
           w4 == From(write_pointer_synced')
           w3 == From(WriteArriving(1)')
           w2 == From(WriteArriving(0)')
           w1 == From(WriteSent')
           w0 == From(write_pointer')
           d == DEPTH
<1>1. /\ read_pointer_synced \in Addresses
      /\ ReadArriving(1) \in Addresses /\ ReadArriving(0) \in Addresses
      /\ ReadSent \in Addresses /\ read_pointer \in Addresses
      /\ write_pointer_synced \in Addresses
      /\ WriteArriving(1) \in Addresses /\ WriteArriving(0) \in Addresses
      /\ WriteSent \in Addresses /\ write_pointer \in Addresses
  BY Pointers DEF Inv
<1>2. /\ read_pointer_synced' \in Addresses
      /\ ReadArriving(1)' \in Addresses /\ ReadArriving(0)' \in Addresses
      /\ ReadSent' \in Addresses /\ read_pointer' \in Addresses
      /\ write_pointer_synced' \in Addresses
      /\ WriteArriving(1)' \in Addresses /\ WriteArriving(0)' \in Addresses
      /\ WriteSent' \in Addresses /\ write_pointer' \in Addresses
  BY CodeType
  DEF TypeOK, Encoded, ReadArriving, ReadSent, WriteArriving, WriteSent
<1>3. \A p \in Addresses : From(p) \in Nat /\ From(p) <= d - 1
  BY <1>1, DifferenceType
<1>4. From(read_pointer_synced) = 0
  BY <1>1, DifferenceType
<1>5. d \in Nat
  BY Top
<1>6. /\ From(ReadArriving(1)) <= From(ReadArriving(0))
      /\ From(ReadArriving(0)) <= From(ReadSent)
      /\ From(ReadSent) <= From(read_pointer)
      /\ From(read_pointer) <= From(write_pointer_synced)
      /\ From(write_pointer_synced) <= From(WriteArriving(1))
      /\ From(WriteArriving(1)) <= From(WriteArriving(0))
      /\ From(WriteArriving(0)) <= From(WriteSent)
      /\ From(WriteSent) <= From(write_pointer)
  BY DEF Inv, Ordered, Ahead
<1>7. /\ From(write_pointer) <= write_difference + 1
      /\ rx_tready => From(write_pointer) <= d - 2
      /\ write_difference \in Nat
  BY <1>5 DEF Inv, RxFlags, Ahead, TypeOK, Addresses
<1>8. /\ Difference(write_pointer_synced, read_pointer)
             = From(write_pointer_synced) - From(read_pointer)
      /\ read_difference \in Nat
  <2>1. From(read_pointer) <= From(write_pointer_synced)
    BY <1>6
  <2>2. read_difference \in Nat
    BY <1>5 DEF Inv, TypeOK, Addresses
  <2> QED
    BY <1>1, <2>1, <2>2, Rebase
<1>9. /\ From(write_pointer) < d - 1 =>
             From(NextPointer(write_pointer)) = From(write_pointer) + 1
      /\ From(read_pointer) < d - 1 =>
             From(NextPointer(read_pointer)) = From(read_pointer) + 1
  BY <1>1, Advance
<1>10. /\ r4 \in Nat /\ r3 \in Nat /\ r2 \in Nat /\ r1 \in Nat /\ r0 \in Nat
       /\ w4 \in Nat /\ w3 \in Nat /\ w2 \in Nat /\ w1 \in Nat /\ w0 \in Nat
  BY <1>2, <1>3
<1>11. /\ UNCHANGED read_pointer_sync =>
              /\ ReadArriving(1)' = ReadArriving(1)
              /\ ReadArriving(0)' = ReadArriving(0)
       /\ UNCHANGED write_pointer_sync =>
              /\ WriteArriving(1)' = WriteArriving(1)
              /\ WriteArriving(0)' = WriteArriving(0)
       /\ UNCHANGED write_pointer_gray_q => WriteSent' = WriteSent
       /\ UNCHANGED read_pointer_gray_q => ReadSent' = ReadSent
  BY DEF ReadArriving, WriteArriving, ReadSent, WriteSent
<1> HIDE DEF From, d
\* Where the pointers of the two sides go.
<1>12. /\ r1 \in {From(ReadSent), From(read_pointer)}
       /\ From(ReadSent) <= r1 /\ r1 <= r0
       /\ r0 <= From(write_pointer_synced)
       /\ From(read_pointer) <= r0
  <2>1. CASE TxMoves
    <3>1. r1 = From(read_pointer)
      BY <2>1 DEF TxMoves
    <3>2. \/ r0 = From(read_pointer)
          \/ r0 = From(read_pointer) + 1 /\ r0 <= From(write_pointer_synced)
      BY <1>1, <1>3, <1>5, <1>8, <1>9, <2>1 DEF TxMoves
    <3> QED
      BY <1>1, <1>3, <1>6, <3>1, <3>2
  <2>2. CASE TxStays
    <3>1. r1 = From(ReadSent) /\ r0 = From(read_pointer)
      BY <1>11, <2>2 DEF TxStays, txRegisters
    <3> QED
      BY <1>1, <1>3, <1>6, <3>1
  <2> QED
    BY <2>1, <2>2
<1>13. /\ w1 \in {From(WriteSent), From(write_pointer)}
       /\ From(WriteSent) <= w1 /\ w1 <= w0
       /\ From(write_pointer) <= w0
  <2>1. CASE RxMoves
    <3>1. w1 = From(write_pointer)
      BY <2>1 DEF RxMoves
    <3>2. w0 = From(write_pointer) \/ w0 = From(write_pointer) + 1
      BY <1>1, <1>3, <1>5, <1>7, <1>9, <2>1 DEF RxMoves
    <3> QED
      BY <1>1, <1>3, <1>6, <3>1, <3>2
  <2>2. CASE RxStays
    <3>1. w1 = From(WriteSent) /\ w0 = From(write_pointer)
      BY <1>11, <2>2 DEF RxStays, rxRegisters
    <3> QED
      BY <1>1, <1>3, <1>6, <3>1
  <2> QED
    BY <2>1, <2>2
<1>14. r4 <= r3 /\ r3 <= r2 /\ r2 <= r1
  <2>1. CASE RxMoves
    <3>1. /\ r4 = From(ReadArriving(1)) /\ r3 = From(ReadArriving(0))
          /\ r2 \in {From(ReadSent), r1}
      BY <2>1 DEF RxMoves
    <3> HIDE DEF r4, r3, r2, r1
    <3> QED
      BY <1>1, <1>3, <1>6, <1>12, <3>1
  <2>2. CASE RxStays
    <3>1. /\ r4 = 0
          /\ r3 = From(ReadArriving(1)) /\ r2 = From(ReadArriving(0))
      BY <1>4, <1>11, <2>2 DEF RxStays, rxRegisters
    <3> HIDE DEF r4, r3, r2, r1
    <3> QED
      BY <1>1, <1>3, <1>6, <1>12, <3>1
  <2> QED
    BY <2>1, <2>2
<1>15. /\ From(write_pointer_synced) <= w4
       /\ w4 <= w3 /\ w3 <= w2 /\ w2 <= w1
  <2>1. CASE TxMoves
    <3>1. /\ w4 = From(WriteArriving(1)) /\ w3 = From(WriteArriving(0))
          /\ w2 \in {From(WriteSent), w1}
      BY <2>1 DEF TxMoves
    <3> HIDE DEF w4, w3, w2, w1
    <3> QED
      BY <1>1, <1>3, <1>6, <1>13, <3>1
  <2>2. CASE TxStays
    <3>1. /\ w4 = From(write_pointer_synced)
          /\ w3 = From(WriteArriving(1)) /\ w2 = From(WriteArriving(0))
      BY <1>11, <2>2 DEF TxStays, txRegisters
    <3> HIDE DEF w4, w3, w2, w1
    <3> QED
      BY <1>1, <1>3, <1>6, <1>13, <3>1
  <2> QED
    BY <2>1, <2>2
\* The same seen from the new read_pointer_synced.
<1>16. r4 <= r3 /\ r4 <= r2 /\ r4 <= r1 /\ r4 <= r0 /\ r4 <= w4 /\ r4 <= w3
       /\ r4 <= w2 /\ r4 <= w1 /\ r4 <= w0 /\ r0 <= w4
  <2> HIDE DEF r4, r3, r2, r1, r0, w4, w3, w2, w1, w0
  <2> QED
    BY <1>1, <1>3, <1>10, <1>12, <1>13, <1>14, <1>15
<1>17. /\ Ahead(ReadArriving(1))' = r3 - r4
       /\ Ahead(ReadArriving(0))' = r2 - r4
       /\ Ahead(ReadSent)' = r1 - r4
       /\ Ahead(read_pointer)' = r0 - r4
       /\ Ahead(write_pointer_synced)' = w4 - r4
       /\ Ahead(WriteArriving(1))' = w3 - r4
       /\ Ahead(WriteArriving(0))' = w2 - r4
       /\ Ahead(WriteSent)' = w1 - r4
       /\ Ahead(write_pointer)' = w0 - r4
       /\ Difference(write_pointer_synced, read_pointer)' = w4 - r0
  BY <1>1, <1>2, <1>16, Rebase DEF Ahead, From
<1>18. Ordered'
  <2> HIDE DEF r4, r3, r2, r1, r0, w4, w3, w2, w1, w0
  <2> QED
    BY <1>10, <1>12, <1>13, <1>14, <1>15, <1>16, <1>17 DEF Ordered
<1>19. Recent'
  <2>1. write_pointer' \in {WriteSent', NextPointer(WriteSent')}
    BY <1>11 DEF RxMoves, RxStays, rxRegisters, Inv, Recent
  <2>2. read_pointer' \in {ReadSent', NextPointer(ReadSent')}
    BY <1>11 DEF TxMoves, TxStays, txRegisters, Inv, Recent
  <2> QED
    BY <2>1, <2>2 DEF Recent, NextPointer
<1>20. RxFlags'
  <2>1. CASE RxMoves
    <3>1. write_difference' = From(write_pointer)
      BY <2>1 DEF RxMoves, From
    <3>2. w0 <= From(write_pointer) + 1
      BY <1>1, <1>3, <1>5, <1>7, <1>9, <2>1 DEF RxMoves
    <3>3. rx_tready' => write_difference < d - 3
      BY <2>1 DEF RxMoves, ALMOST_FULL, d
    <3>4. /\ w0 - r4 <= write_difference' + 1
          /\ rx_tready' => w0 - r4 <= d - 2
      <4> HIDE DEF w0, r4
      <4> QED
        BY <1>1, <1>3, <1>5, <1>7, <1>10, <3>1, <3>2, <3>3
    <3> QED
      BY <1>17, <3>4 DEF RxFlags, d
  <2>2. CASE RxStays
    <3>1. w0 = From(write_pointer) /\ r4 = 0
      BY <1>4, <2>2 DEF RxStays, rxRegisters
    <3>2. write_difference' = write_difference /\ rx_tready' = rx_tready
      BY <2>2 DEF RxStays, rxRegisters
    <3>3. /\ w0 - r4 <= write_difference' + 1
          /\ rx_tready' => w0 - r4 <= d - 2
      <4> HIDE DEF w0, r4
      <4> QED
        BY <1>1, <1>3, <1>5, <1>7, <1>10, <3>1, <3>2
    <3> QED
      BY <1>17, <3>3 DEF RxFlags, d
  <2> QED
    BY <2>1, <2>2
<1>21. TxFlags'
  <2>1. CASE TxMoves
    <3>1. read_difference' = From(write_pointer_synced) - From(read_pointer)
      BY <1>8, <2>1 DEF TxMoves
    <3>2. r0 <= From(read_pointer) + 1
      BY <1>1, <1>3, <1>5, <1>8, <1>9, <2>1 DEF TxMoves
    <3>3. ~almost_empty' => read_difference > 2
      BY <2>1 DEF TxMoves, ALMOST_EMPTY
    <3>4. read_difference <= From(write_pointer_synced) - From(read_pointer) + 1
      BY <1>8 DEF Inv, TxFlags
    <3>5. /\ read_difference' <= w4 - r0 + 1
          /\ ~almost_empty' => w4 - r0 >= 1
      <4> HIDE DEF w4, r0
      <4> QED
        BY <1>1, <1>3, <1>8, <1>10, <1>15, <3>1, <3>2, <3>3, <3>4
    <3> QED
      BY <1>17, <3>5 DEF TxFlags
  <2>2. CASE TxStays
    <3>1. UNCHANGED <<read_difference, almost_empty, write_pointer_synced, read_pointer>>
      BY <2>2 DEF TxStays, txRegisters
    <3> QED
      BY <3>1 DEF Inv, TxFlags
  <2> QED
    BY <2>1, <2>2
<1> QED
  BY <1>18, <1>19, <1>20, <1>21

-----------------------------------------------------------------------------
\* The two halves of the state, and the edges of the clocks.

RxTyped ==
    /\ rx_chain \in Chains
    /\ rx_tvalid \in BOOLEAN
    /\ rx_tdata \in DATA
    /\ rx_tready \in BOOLEAN
    /\ write_pointer \in Addresses
    /\ write_difference \in Addresses
    /\ write_pointer_gray_q \in Codes
    /\ read_pointer_sync \in [0 .. 1 -> Codes]
    /\ read_pointer_synced \in Addresses
    /\ memory \in [Addresses -> Words]

TxTyped ==
    /\ tx_chain \in Chains
    /\ tx_tready \in BOOLEAN
    /\ tx_tvalid \in BOOLEAN
    /\ tx_tdata \in Words
    /\ fsm_state \in {"IDLE", "DATA"}
    /\ almost_empty \in BOOLEAN
    /\ read_pointer \in Addresses
    /\ read_difference \in Addresses
    /\ read_data \in Words
    /\ read_pointer_gray_q \in Codes
    /\ write_pointer_sync \in [0 .. 1 -> Codes]
    /\ write_pointer_synced \in Addresses

\* The types are those of the registers of the two clocks.
LEMMA Halves ==
    TypeOK /\ Encoded <=> areset_n \in BOOLEAN /\ RxTyped /\ TxTyped
<1>1. \A g \in Codes : g \in SUBSET Positions
  BY CodeType
<1>2. \A f : f \in [0 .. 1 -> Codes] <=>
                 /\ f \in [0 .. 1 -> SUBSET Positions]
                 /\ \A k \in 0 .. 1 : f[k] \in Codes
  BY <1>1
<1> QED
  BY <1>1, <1>2 DEF TypeOK, Encoded, RxTyped, TxTyped

\* The reset synchronizers keep their length.
LEMMA ChainType ==
    ASSUME NEW q \in Chains
    PROVE  Shifted(q) \in Chains /\ Cleared \in Chains
<1>1. Cleared \in Chains
  BY DEF Cleared, Chains
<1>2. \A k \in 0 .. STAGES - 1 : (k = STAGES - 1 \/ q[k + 1]) \in BOOLEAN
  OBVIOUS
<1> QED
  BY <1>1, <1>2 DEF Shifted, Chains

\* A rising edge of rx_aclk that samples the old or the new pointer.
LEMMA RxStep ==
    ASSUME Inv, WriteEdge, read_pointer_gray_q' \in Codes,
           SampleReadPointer({read_pointer_gray_q, read_pointer_gray_q'})
    PROVE  RxTyped' /\ (RxMoves \/ RxStays)
<1>1. RxTyped /\ TxTyped
  BY Halves DEF Inv
<1>2. rx_chain' \in Chains
  BY <1>1, ChainType DEF WriteEdge, RxTyped
<1>3. rx_tvalid' \in BOOLEAN /\ rx_tdata' \in DATA
  BY <1>1 DEF WriteEdge, RxDrive, rxInputs, RxTyped
<1>4. memory' \in [Addresses -> Words]
  <2>1. rx_tdata \in Words
    BY <1>1 DEF RxTyped, Words
  <2> QED
    BY <1>1, <2>1 DEF WriteEdge, MemoryWrite, RxTyped
<1>5. CASE rx_areset_n
  <2>1. PICK sample \in {read_pointer_gray_q, read_pointer_gray_q'} :
            read_pointer_sync' =
                [k \in 0 .. 1 |-> IF k = 0 THEN sample ELSE read_pointer_sync[0]]
    BY <1>5 DEF SampleReadPointer
  <2>2. /\ sample \in Codes
        /\ read_pointer_sync' \in [0 .. 1 -> Codes]
        /\ read_pointer_sync'[0] = sample
        /\ read_pointer_sync'[1] = read_pointer_sync[0]
    BY <1>1, <2>1 DEF RxTyped, TxTyped
  <2>3. WriteService /\ WriteSync
    BY <1>5 DEF WriteEdge
  <2>4. NextPointer(write_pointer) \in Addresses
    BY <1>1, Advance DEF RxTyped
  <2>5. write_pointer' \in Addresses
    BY <1>1, <2>3, <2>4 DEF WriteService, RxTyped
  <2>6. write_pointer_gray_q' \in Codes /\ PointerOf[write_pointer_gray_q'] = write_pointer
    BY <1>1, <2>3, Decode DEF WriteSync, RxTyped
  <2>7. read_pointer_synced' \in Addresses
    BY <1>1, <2>3, CodeType DEF WriteSync, RxTyped
  <2>8. write_difference' \in Addresses
    BY <1>1, <2>3, DifferenceType DEF WriteService, RxTyped
  <2>9. rx_tready' \in BOOLEAN /\ (rx_tready' => write_difference < ALMOST_FULL)
    <3>1. rx_tready' = ~(write_difference >= ALMOST_FULL)
      BY <2>3 DEF WriteService, almost_full
    <3>2. write_difference \in Int /\ ALMOST_FULL \in Int
      BY <1>1, Top DEF RxTyped, Addresses, ALMOST_FULL
    <3>3. CASE write_difference >= ALMOST_FULL
      BY <3>1, <3>3
    <3>4. CASE ~(write_difference >= ALMOST_FULL)
      BY <3>1, <3>2, <3>4
    <3> QED
      BY <3>3, <3>4
  <2>10. RxTyped'
    BY <1>2, <1>3, <1>4, <2>2, <2>5, <2>6, <2>7, <2>8, <2>9 DEF RxTyped
  <2>11. ReadArriving(0)' \in {ReadSent, ReadSent'} /\ ReadArriving(1)' = ReadArriving(0)
    BY <2>1, <2>2 DEF ReadArriving, ReadSent
  <2>12. \/ write_pointer' = write_pointer
         \/ write_pointer' = NextPointer(write_pointer) /\ rx_tready
    BY <2>3 DEF WriteService, write_enable
  <2>13. RxMoves
    BY <2>3, <2>6, <2>9, <2>11, <2>12
    DEF RxMoves, WriteService, WriteSync, ReadArriving, WriteSent
  <2> QED
    BY <2>10, <2>13
<1>6. CASE ~rx_areset_n
  <2>1. RxStays
    BY <1>6 DEF WriteEdge, SampleReadPointer, RxStays
  <2>2. RxTyped'
    BY <1>1, <1>2, <1>3, <1>4, <2>1 DEF RxTyped, RxStays, rxRegisters
  <2> QED
    BY <2>1, <2>2
<1> QED
  BY <1>5, <1>6

\* A rising edge of tx_aclk that samples the old or the new pointer.
LEMMA TxStep ==
    ASSUME Inv, ReadEdge, write_pointer_gray_q' \in Codes,
           SampleWritePointer({write_pointer_gray_q, write_pointer_gray_q'})
    PROVE  TxTyped' /\ (TxMoves \/ TxStays)
<1>1. RxTyped /\ TxTyped
  BY Halves DEF Inv
<1>2. tx_chain' \in Chains
  BY <1>1, ChainType DEF ReadEdge, TxTyped
<1>3. tx_tready' \in BOOLEAN
  BY DEF ReadEdge
<1>4. read_data' \in Words /\ tx_tdata' \in Words
  BY <1>1 DEF ReadEdge, MemoryRead, TxData, RxTyped, TxTyped
<1>5. CASE tx_areset_n
  <2>1. PICK sample \in {write_pointer_gray_q, write_pointer_gray_q'} :
            write_pointer_sync' =
                [k \in 0 .. 1 |-> IF k = 0 THEN sample ELSE write_pointer_sync[0]]
    BY <1>5 DEF SampleWritePointer
  <2>2. /\ sample \in Codes
        /\ write_pointer_sync' \in [0 .. 1 -> Codes]
        /\ write_pointer_sync'[0] = sample
        /\ write_pointer_sync'[1] = write_pointer_sync[0]
    BY <1>1, <2>1 DEF RxTyped, TxTyped
  <2>3. ReadService /\ ReadSync
    BY <1>5 DEF ReadEdge
  <2>4. NextPointer(read_pointer) \in Addresses
    BY <1>1, Advance DEF TxTyped
  <2>5. read_pointer' \in Addresses
    BY <1>1, <2>3, <2>4 DEF ReadService, TxTyped
  <2>6. read_pointer_gray_q' \in Codes /\ PointerOf[read_pointer_gray_q'] = read_pointer
    BY <1>1, <2>3, Decode DEF ReadSync, TxTyped
  <2>7. write_pointer_synced' \in Addresses
    BY <1>1, <2>3, CodeType DEF ReadSync, TxTyped
  <2>8. read_difference' \in Addresses
    BY <1>1, <2>3, DifferenceType DEF ReadService, TxTyped
  <2>9. almost_empty' \in BOOLEAN /\ (~almost_empty' => read_difference > ALMOST_EMPTY)
    <3>1. almost_empty' = (read_difference <= ALMOST_EMPTY)
      BY <2>3 DEF ReadService
    <3>2. read_difference \in Int /\ ALMOST_EMPTY \in Int
      BY <1>1, Top DEF TxTyped, Addresses, ALMOST_EMPTY
    <3>3. CASE read_difference <= ALMOST_EMPTY
      BY <3>1, <3>3
    <3>4. CASE ~(read_difference <= ALMOST_EMPTY)
      BY <3>1, <3>2, <3>4
    <3> QED
      BY <3>3, <3>4
  <2>10. tx_tvalid' \in BOOLEAN /\ fsm_state' \in {"IDLE", "DATA"}
    BY <1>1, <2>3 DEF ReadService, FsmState, TxTyped
  <2>11. TxTyped'
    BY <1>2, <1>3, <1>4, <2>2, <2>5, <2>6, <2>7, <2>8, <2>9, <2>10 DEF TxTyped
  <2>12. WriteArriving(0)' \in {WriteSent, WriteSent'} /\ WriteArriving(1)' = WriteArriving(0)
    BY <2>1, <2>2 DEF WriteArriving, WriteSent
  <2>13. \/ read_pointer' = read_pointer
         \/ /\ read_pointer' = NextPointer(read_pointer)
            /\ Difference(write_pointer_synced, read_pointer) >= 1
    BY <2>3, ReadKnown DEF ReadService, Inv
  <2>14. TxMoves
    BY <2>3, <2>6, <2>9, <2>12, <2>13
    DEF TxMoves, ReadService, ReadSync, WriteArriving, ReadSent
  <2> QED
    BY <2>11, <2>14
<1>6. CASE ~tx_areset_n
  <2>1. TxStays
    BY <1>6 DEF ReadEdge, SampleWritePointer, TxStays
  <2>2. TxTyped'
    BY <1>1, <1>2, <1>3, <1>4, <2>1 DEF TxTyped, TxStays, txRegisters
  <2> QED
    BY <2>1, <2>2
<1> QED
  BY <1>5, <1>6

-----------------------------------------------------------------------------
\* Every step keeps the invariant.

\* An edge of the write clock keeps the invariant.
LEMMA WriteClockInv == Inv /\ WriteClock => Inv'
<1> SUFFICES ASSUME Inv, WriteClock PROVE Inv'
  OBVIOUS
<1>1. areset_n \in BOOLEAN /\ RxTyped /\ TxTyped
  BY Halves DEF Inv
<1>2. TxStays /\ TxTyped' /\ areset_n' \in BOOLEAN
  BY <1>1 DEF WriteClock, TxStays, TxTyped, txRegisters
<1>3. SampleReadPointer({read_pointer_gray_q, read_pointer_gray_q'})
  BY DEF WriteClock, SampleReadPointer
<1>4. RxTyped' /\ (RxMoves \/ RxStays)
  BY <1>2, <1>3, RxStep DEF WriteClock, TxTyped
<1>5. (TypeOK /\ Encoded)'
  <2>1. (areset_n \in BOOLEAN /\ RxTyped /\ TxTyped)'
    BY <1>2, <1>4
  <2>2. (TypeOK /\ Encoded <=> areset_n \in BOOLEAN /\ RxTyped /\ TxTyped)'
    BY Halves, PTL
  <2> QED
    BY <2>1, <2>2
<1> QED
  BY <1>2, <1>4, <1>5, ClockOrder DEF Inv

\* So does an edge of the read clock.
LEMMA ReadClockInv == Inv /\ ReadClock => Inv'
<1> SUFFICES ASSUME Inv, ReadClock PROVE Inv'
  OBVIOUS
<1>1. areset_n \in BOOLEAN /\ RxTyped /\ TxTyped
  BY Halves DEF Inv
<1>2. RxStays /\ RxTyped' /\ areset_n' \in BOOLEAN
  BY <1>1 DEF ReadClock, RxStays, RxTyped, rxRegisters, rxInputs
<1>3. SampleWritePointer({write_pointer_gray_q, write_pointer_gray_q'})
  BY DEF ReadClock, SampleWritePointer
<1>4. TxTyped' /\ (TxMoves \/ TxStays)
  BY <1>2, <1>3, TxStep DEF ReadClock, RxTyped
<1>5. (TypeOK /\ Encoded)'
  <2>1. (areset_n \in BOOLEAN /\ RxTyped /\ TxTyped)'
    BY <1>2, <1>4
  <2>2. (TypeOK /\ Encoded <=> areset_n \in BOOLEAN /\ RxTyped /\ TxTyped)'
    BY Halves, PTL
  <2> QED
    BY <2>1, <2>2
<1> QED
  BY <1>2, <1>4, <1>5, ClockOrder DEF Inv

\* Edges of both clocks at once: what is sampled changes to the next pointer at
\* most, so that no mixture is worse than either.
LEMMA BothClocksInv == Inv /\ BothClocks => Inv'
<1> SUFFICES ASSUME Inv, BothClocks PROVE Inv'
  OBVIOUS
<1>1. areset_n \in BOOLEAN /\ RxTyped /\ TxTyped
  BY Halves DEF Inv
<1>2. /\ write_pointer_gray_q' \in Codes
      /\ Mixtures(write_pointer_gray_q, write_pointer_gray_q')
             \subseteq {write_pointer_gray_q, write_pointer_gray_q'}
  <2>1. PICK p \in Addresses : write_pointer_gray_q = GrayOf[p]
    BY <1>1 DEF RxTyped, Codes
  <2>2. WriteSent = p
    BY <2>1, Decode DEF WriteSent
  <2>3. CASE rx_areset_n
    <3>1. write_pointer_gray_q' = GrayOf[write_pointer]
      BY <2>3 DEF BothClocks, WriteEdge, WriteSync
    <3>2. write_pointer \in Addresses /\ write_pointer \in {p, NextPointer(p)}
      BY <1>1, <2>2 DEF RxTyped, Inv, Recent
    <3> QED
      BY <2>1, <3>1, <3>2, Decode, Sampled
  <2>4. CASE ~rx_areset_n
    <3>1. write_pointer_gray_q' = write_pointer_gray_q
      BY <2>4 DEF BothClocks, WriteEdge, rxRegisters
    <3> QED
      BY <1>1, <2>1, <3>1, Sampled DEF RxTyped
  <2> QED
    BY <2>3, <2>4
<1>3. /\ read_pointer_gray_q' \in Codes
      /\ Mixtures(read_pointer_gray_q, read_pointer_gray_q')
             \subseteq {read_pointer_gray_q, read_pointer_gray_q'}
  <2>1. PICK p \in Addresses : read_pointer_gray_q = GrayOf[p]
    BY <1>1 DEF TxTyped, Codes
  <2>2. ReadSent = p
    BY <2>1, Decode DEF ReadSent
  <2>3. CASE tx_areset_n
    <3>1. read_pointer_gray_q' = GrayOf[read_pointer]
      BY <2>3 DEF BothClocks, ReadEdge, ReadSync
    <3>2. read_pointer \in Addresses /\ read_pointer \in {p, NextPointer(p)}
      BY <1>1, <2>2 DEF TxTyped, Inv, Recent
    <3> QED
      BY <2>1, <3>1, <3>2, Decode, Sampled
  <2>4. CASE ~tx_areset_n
    <3>1. read_pointer_gray_q' = read_pointer_gray_q
      BY <2>4 DEF BothClocks, ReadEdge, txRegisters
    <3> QED
      BY <1>1, <2>1, <3>1, Sampled DEF TxTyped
  <2> QED
    BY <2>3, <2>4
<1>4. SampleReadPointer({read_pointer_gray_q, read_pointer_gray_q'})
  BY <1>3 DEF BothClocks, SampleReadPointer
<1>5. SampleWritePointer({write_pointer_gray_q, write_pointer_gray_q'})
  BY <1>2 DEF BothClocks, SampleWritePointer
<1>6. RxTyped' /\ (RxMoves \/ RxStays)
  BY <1>3, <1>4, RxStep DEF BothClocks
<1>7. TxTyped' /\ (TxMoves \/ TxStays)
  BY <1>2, <1>5, TxStep DEF BothClocks
<1>8. (TypeOK /\ Encoded)'
  <2>1. (areset_n \in BOOLEAN /\ RxTyped /\ TxTyped)'
    BY <1>1, <1>6, <1>7 DEF BothClocks
  <2>2. (TypeOK /\ Encoded <=> areset_n \in BOOLEAN /\ RxTyped /\ TxTyped)'
    BY Halves, PTL
  <2> QED
    BY <2>1, <2>2
<1> QED
  BY <1>6, <1>7, <1>8, ClockOrder DEF Inv

\* With every pointer at zero nothing is ahead of anything.
Zeroed ==
    /\ rx_tready = FALSE
    /\ write_pointer = 0 /\ write_difference = 0
    /\ write_pointer_gray_q = {}
    /\ read_pointer_sync = [k \in 0 .. 1 |-> {}]
    /\ read_pointer_synced = 0
    /\ almost_empty = TRUE
    /\ read_pointer = 0 /\ read_difference = 0
    /\ read_pointer_gray_q = {}
    /\ write_pointer_sync = [k \in 0 .. 1 |-> {}]
    /\ write_pointer_synced = 0

\* Cleared registers satisfy the parts of the invariant.
LEMMA ZeroedInv ==
    Zeroed => Encoded /\ Ordered /\ Recent /\ RxFlags /\ TxFlags
<1> SUFFICES ASSUME Zeroed PROVE Encoded /\ Ordered /\ Recent /\ RxFlags /\ TxFlags
  OBVIOUS
<1>1. /\ ReadArriving(0) = 0 /\ ReadArriving(1) = 0 /\ ReadSent = 0
      /\ WriteArriving(0) = 0 /\ WriteArriving(1) = 0 /\ WriteSent = 0
  BY ZeroCode DEF Zeroed, ReadArriving, ReadSent, WriteArriving, WriteSent
<1>2. Difference(0, 0) = 0 /\ Ahead(0) = 0
  BY ZeroCode, DifferenceType DEF Ahead, Zeroed
<1>3. Encoded
  BY ZeroCode DEF Zeroed, Encoded
<1>4. Ordered /\ Recent
  BY <1>1, <1>2 DEF Zeroed, Ordered, Recent
<1>5. RxFlags /\ TxFlags
  BY <1>2 DEF Zeroed, RxFlags, TxFlags
<1> QED
  BY <1>3, <1>4, <1>5

\* The invariant holds after power-up.
LEMMA InitInv == Init => Inv
<1> SUFFICES ASSUME Init PROVE Inv
  OBVIOUS
<1>1. Zeroed
  BY DEF Init, Zeroed
<1>2. TypeOK
  <2>1. Cleared \in Chains /\ 0 \in Addresses
    BY ZeroCode DEF Cleared, Chains
  <2>2. memory \in [Addresses -> Words]
    BY DEF Init, Words
  <2> QED
    BY <2>1, <2>2 DEF Init, TypeOK, Words
<1> QED
  BY <1>1, <1>2, ZeroedInv DEF Inv

\* It holds after the assertion of the reset.
LEMMA ResetInv == Inv /\ Reset => Inv'
<1> SUFFICES ASSUME Inv, Reset PROVE Inv'
  OBVIOUS
<1>1. Zeroed'
  BY DEF Reset, Zeroed
<1>2. TypeOK'
  <2>1. Cleared \in Chains /\ 0 \in Addresses
    BY ZeroCode DEF Cleared, Chains
  <2> QED
    BY <2>1 DEF Reset, TypeOK, Inv
<1>3. (Zeroed => Encoded /\ Ordered /\ Recent /\ RxFlags /\ TxFlags)'
  BY ZeroedInv, PTL
<1> QED
  BY <1>1, <1>2, <1>3 DEF Inv

\* The release, and a step that changes nothing, leave the pointers alone.
LEMMA StillInv ==
    ASSUME Inv, areset_n' \in BOOLEAN,
           UNCHANGED <<rx_chain, tx_chain, rxInputs, tx_tready, rxRegisters,
                       read_pointer_sync, memory, txRegisters,
                       write_pointer_sync, tx_tdata, read_data>>
    PROVE  Inv'
<1> USE DEF rxInputs, rxRegisters, txRegisters
<1>1. TypeOK' /\ Encoded'
  BY DEF Inv, TypeOK, Encoded
<1>2. RxStays /\ TxStays
  BY DEF RxStays, TxStays
<1> QED
  BY <1>1, <1>2, ClockOrder DEF Inv

\* Every step keeps it.
LEMMA NextInv == Inv /\ [Next]_vars => Inv'
<1>1. Inv /\ Release => Inv'
  BY StillInv DEF Release
<1>2. Inv /\ UNCHANGED vars => Inv'
  BY StillInv DEF vars, Inv, TypeOK
<1> QED
  BY <1>1, <1>2, WriteClockInv, ReadClockInv, BothClocksInv, ResetInv DEF Next

(***************************************************************************)
(* The order of the pointers on their way and what the flags say of them   *)
(* hold in every reachable state.                                          *)
(***************************************************************************)
THEOREM Invariance == Spec => []Inv
BY InitInv, NextInv, PTL DEF Spec

-----------------------------------------------------------------------------

\* How many words the memory holds, seen from read_pointer_synced.
LEMMA OccupancyIs ==
    ASSUME Inv
    PROVE  /\ Occupancy = Ahead(write_pointer) - Ahead(read_pointer)
           /\ Difference(write_pointer_synced, read_pointer)
                  = Ahead(write_pointer_synced) - Ahead(read_pointer)
           /\ Ahead(read_pointer) \in Nat /\ Ahead(write_pointer) \in Nat
           /\ Ahead(write_pointer_synced) \in Nat
           /\ Ahead(read_pointer) <= Ahead(write_pointer_synced)
           /\ Ahead(write_pointer_synced) <= Ahead(write_pointer)
<1>1. /\ read_pointer_synced \in Addresses /\ read_pointer \in Addresses
      /\ write_pointer_synced \in Addresses /\ write_pointer \in Addresses
      /\ WriteArriving(1) \in Addresses /\ WriteArriving(0) \in Addresses
      /\ WriteSent \in Addresses
  BY Pointers DEF Inv
<1>2. \A p \in Addresses : Ahead(p) \in Nat
  BY <1>1, DifferenceType DEF Ahead
<1>3. /\ Ahead(read_pointer) <= Ahead(write_pointer_synced)
      /\ Ahead(write_pointer_synced) <= Ahead(write_pointer)
  <2> HIDE DEF Ahead
  <2> QED
    BY <1>1, <1>2 DEF Inv, Ordered
<1>4. Ahead(read_pointer) <= Ahead(write_pointer)
  BY <1>1, <1>2, <1>3
<1>5. Occupancy = Ahead(write_pointer) - Ahead(read_pointer)
  BY <1>1, <1>4, Rebase DEF Ahead, Occupancy
<1>6. Difference(write_pointer_synced, read_pointer)
          = Ahead(write_pointer_synced) - Ahead(read_pointer)
  BY <1>1, <1>3, Rebase DEF Ahead
<1> QED
  BY <1>1, <1>2, <1>3, <1>5, <1>6

(***************************************************************************)
(* What each side believes of the other is on the safe side, in every      *)
(* interleaving of the two clocks: Tx knows of no word that is not there,  *)
(* Rx knows of no place that is not free.                                  *)
(***************************************************************************)
THEOREM BeliefsAreSafe == Spec => []SafeSide
<1>1. Inv => SafeSide
  <2> SUFFICES ASSUME Inv PROVE SafeSide
    OBVIOUS
  <2>1. Difference(write_pointer, read_pointer_synced) = Ahead(write_pointer)
    BY DEF Ahead
  <2> QED
    BY <2>1, OccupancyIs DEF SafeSide
<1> QED
  BY <1>1, Invariance, PTL

(***************************************************************************)
(* Rx never writes into a place that Tx has not read, and Tx never reads a *)
(* place that Rx has not written.                                          *)
(***************************************************************************)
THEOREM NeitherOvertakes == Spec => []NoOvertake
<1>1. Inv => NoOvertake
  <2> SUFFICES ASSUME Inv PROVE NoOvertake
    OBVIOUS
  <2>1. DEPTH \in Nat
    BY Top
  <2>2. ASSUME write_enable PROVE Occupancy < DEPTH - 1
    <3>1. Ahead(write_pointer) <= DEPTH - 2
      BY <2>2 DEF Inv, RxFlags, write_enable
    <3> QED
      BY <2>1, <3>1, OccupancyIs
  <2>3. ASSUME read_enable PROVE Occupancy > 0
    <3>1. Difference(write_pointer_synced, read_pointer) >= 1
      BY <2>3, ReadKnown DEF Inv
    <3> QED
      BY <3>1, OccupancyIs
  <2> QED
    BY <2>2, <2>3 DEF NoOvertake
<1> QED
  BY <1>1, Invariance, PTL

-----------------------------------------------------------------------------
\* The refinement.  What the resets leave alone, and what they leave empty.

Held ==
    /\ rx_areset_n => rx_chain[1]
    /\ tx_areset_n => tx_chain[1]
    /\ ~rx_areset_n => ~rx_tready
    /\ ~tx_areset_n => /\ ~tx_tvalid /\ fsm_state = "IDLE" /\ almost_empty
                       /\ write_pointer_synced = read_pointer
    /\ ~areset_n => /\ ~rx_areset_n /\ ~tx_areset_n
                    /\ write_pointer = read_pointer

\* A reset synchronizer of two registers.
LEMMA ChainStep ==
    ASSUME NEW q \in Chains
    PROVE  /\ ~Synced(Cleared)
           /\ Synced(q) /\ q[1] => Synced(Shifted(q))
           /\ Synced(Shifted(q)) => Shifted(q)[1]
<1>1. STAGES = 2
  BY CrossingAssumption
<1> QED
  BY <1>1 DEF Chains, Cleared, Shifted, Synced

\* What an edge does to the memory, and to the way out of it.
Fills ==
    /\ MemoryWrite
    /\ write_pointer' = IF write_enable THEN NextPointer(write_pointer)
                                        ELSE write_pointer

Keeps == UNCHANGED <<memory, write_pointer>>

Drains ==
    /\ MemoryRead /\ TxData /\ FsmState
    /\ read_pointer' = IF read_enable THEN NextPointer(read_pointer)
                                      ELSE read_pointer
    /\ tx_tvalid' = IF tx_tready THEN fsm_state = "DATA" ELSE tx_tvalid

Waits == UNCHANGED <<tx_tvalid, tx_tdata, fsm_state, read_data, read_pointer>>

\* An edge of the write clock, in or out of its reset, writes one word or none.
LEMMA WriteFills == Held /\ WriteEdge => Fills
BY DEF Held, WriteEdge, Fills, WriteService, rxRegisters, write_enable

\* An edge of the read clock moves the words to the port, or nothing.
LEMMA ReadDrains == Inv /\ Held /\ ReadEdge => Drains
<1> SUFFICES ASSUME Inv, Held, ReadEdge PROVE Drains
  OBVIOUS
<1>1. CASE tx_areset_n
  BY <1>1 DEF ReadEdge, ReadService, Drains
<1>2. CASE ~tx_areset_n
  <2>1. /\ ~tx_tvalid /\ fsm_state = "IDLE" /\ empty
        /\ UNCHANGED <<tx_tvalid, fsm_state, read_pointer>>
    BY <1>2 DEF Held, ReadEdge, txRegisters, empty
  <2>2. ~read_enable /\ FsmState
    BY <2>1 DEF read_enable, FsmState
  <2>3. tx_tvalid' = IF tx_tready THEN fsm_state = "DATA" ELSE tx_tvalid
    BY <2>1 DEF Inv, TypeOK
  <2> QED
    BY <2>1, <2>2, <2>3 DEF ReadEdge, Drains
<1> QED
  BY <1>1, <1>2

\* Every step keeps cleared what a synchronized reset holds.
LEMMA HeldNext == Inv /\ Held /\ [Next]_vars => Held'
<1> SUFFICES ASSUME Inv, Held, [Next]_vars PROVE Held'
  OBVIOUS
<1>1. rx_chain \in Chains /\ tx_chain \in Chains /\ areset_n \in BOOLEAN
  BY DEF Inv, TypeOK
<1>2. ASSUME WriteEdge, areset_n' = areset_n
      PROVE  /\ rx_areset_n' => rx_chain'[1]
             /\ ~rx_areset_n' => ~rx_tready'
             /\ ~areset_n' => ~rx_areset_n' /\ write_pointer' = write_pointer
  <2>1. CASE areset_n
    <3>1. rx_chain' = Shifted(rx_chain)
      BY <1>2, <2>1 DEF WriteEdge
    <3>2. rx_areset_n => rx_areset_n'
      BY <1>1, <3>1, ChainStep DEF Held, rx_areset_n
    <3>3. ~rx_areset_n => ~rx_tready'
      BY <1>2 DEF WriteEdge, Held, rxRegisters
    <3> QED
      BY <1>1, <1>2, <2>1, <3>1, <3>2, <3>3, ChainStep DEF rx_areset_n
  <2>2. CASE ~areset_n
    <3>1. rx_chain' = Cleared /\ ~rx_areset_n
      BY <1>2, <2>2 DEF WriteEdge, Held
    <3>2. ~rx_tready' /\ write_pointer' = write_pointer
      BY <1>2, <3>1 DEF WriteEdge, Held, rxRegisters
    <3> QED
      BY <1>1, <3>1, <3>2, ChainStep DEF rx_areset_n
  <2> QED
    BY <1>1, <2>1, <2>2
<1>3. ASSUME ReadEdge, areset_n' = areset_n
      PROVE  /\ tx_areset_n' => tx_chain'[1]
             /\ ~tx_areset_n' =>
                    /\ ~tx_tvalid' /\ fsm_state' = "IDLE" /\ almost_empty'
                    /\ write_pointer_synced' = read_pointer'
             /\ ~areset_n' => ~tx_areset_n' /\ read_pointer' = read_pointer
  <2>1. ~tx_areset_n =>
            /\ ~tx_tvalid' /\ fsm_state' = "IDLE" /\ almost_empty'
            /\ write_pointer_synced' = read_pointer'
            /\ read_pointer' = read_pointer
    BY <1>3 DEF ReadEdge, Held, txRegisters
  <2>2. CASE areset_n
    <3>1. tx_chain' = Shifted(tx_chain)
      BY <1>3, <2>2 DEF ReadEdge
    <3>2. tx_areset_n => tx_areset_n'
      BY <1>1, <3>1, ChainStep DEF Held, tx_areset_n
    <3> QED
      BY <1>1, <1>3, <2>1, <2>2, <3>1, <3>2, ChainStep DEF tx_areset_n
  <2>3. CASE ~areset_n
    <3>1. tx_chain' = Cleared /\ ~tx_areset_n
      BY <1>3, <2>3 DEF ReadEdge, Held
    <3> QED
      BY <1>1, <2>1, <3>1, ChainStep DEF tx_areset_n
  <2> QED
    BY <1>1, <2>2, <2>3
<1>4. CASE WriteClock
  BY <1>2, <1>4 DEF WriteClock, txRegisters, Held, tx_areset_n
<1>5. CASE ReadClock
  BY <1>3, <1>5 DEF ReadClock, rxRegisters, Held, rx_areset_n
<1>6. CASE BothClocks
  BY <1>2, <1>3, <1>6 DEF BothClocks, Held
<1>7. CASE Reset
  BY <1>1, <1>7, ChainStep DEF Reset, Held, rx_areset_n, tx_areset_n
<1>8. CASE Release
  BY <1>8 DEF Release, rxRegisters, txRegisters, Held, rx_areset_n, tx_areset_n
<1>9. CASE UNCHANGED vars
  BY <1>9 DEF vars, rxRegisters, txRegisters, Held, rx_areset_n, tx_areset_n
<1> QED
  BY <1>4, <1>5, <1>6, <1>7, <1>8, <1>9 DEF Next

\* After power-up all is held.
LEMMA HeldInit == Init => Held
<1> SUFFICES ASSUME Init PROVE Held
  OBVIOUS
<1>1. ~Synced(Cleared)
  BY CrossingAssumption DEF Cleared, Synced
<1> QED
  BY <1>1 DEF Init, Held, rx_areset_n, tx_areset_n

-----------------------------------------------------------------------------
\* The places of the crossing: its output register, the register of the memory,
\* and the stretch of the memory between the pointers.

Port == One(tx_tvalid, tx_tdata)

Read == One(fsm_state = "DATA", read_data)

StoredFrom(p) == Stretch(memory, DEPTH, p, Difference(write_pointer, p))

Stored == StoredFrom(read_pointer)

Fetched == One(read_enable, memory[read_pointer])

Left == IF read_enable THEN NextPointer(read_pointer) ELSE read_pointer

Coming == One(rx_tvalid /\ rx_tready, rx_tdata)

\* The memory is a ring of addresses.
LEMMA MemoryRing ==
    /\ DEPTH \in Nat \ {0}
    /\ Addresses = Ring(DEPTH)
    /\ \A p : NextPointer(p) = After(p, DEPTH)
BY Top DEF Addresses, NextPointer, After, Ring

\* The write pointer is as far on as their difference says.
LEMMA FromTo ==
    ASSUME NEW p \in Addresses, NEW q \in Addresses
    PROVE  /\ Onward(p, Difference(q, p), DEPTH) = q
           /\ Difference(q, p) >= 1 =>
                  Difference(q, NextPointer(p)) = Difference(q, p) - 1
<1> DEFINE d == DEPTH
           n == NextPointer(p)
           c == Difference(q, p)
<1>1. d \in Nat /\ p \in 0 .. d - 1 /\ q \in 0 .. d - 1
  BY Top DEF Addresses
<1>2. /\ n = IF p = d - 1 THEN 0 ELSE p + 1
      /\ c = IF q >= p THEN q - p ELSE q - p + d
      /\ Difference(q, n) = IF q >= n THEN q - n ELSE q - n + d
      /\ Onward(p, c, d) = IF p + c < d THEN p + c ELSE p + c - d
  BY DEF NextPointer, Difference, Onward
<1> HIDE DEF d, n, c
<1>3. Onward(p, c, d) = q
  BY <1>1, <1>2
<1>4. c >= 1 => Difference(q, n) = c - 1
  BY <1>1, <1>2
<1> QED
  BY <1>3, <1>4 DEF d, n, c

\* How many words are there, before a read and after it.
LEMMA Amounts ==
    ASSUME Inv
    PROVE  /\ read_pointer \in Addresses /\ write_pointer \in Addresses
           /\ Left \in Addresses /\ DEPTH \in Nat
           /\ Occupancy \in 0 .. DEPTH - 1
           /\ read_enable => Occupancy >= 1
           /\ write_enable => Occupancy <= DEPTH - 2
           /\ Difference(write_pointer, Left)
                  = IF read_enable THEN Occupancy - 1 ELSE Occupancy
<1>1. read_pointer \in Addresses /\ write_pointer \in Addresses /\ DEPTH \in Nat
  BY Top DEF Inv, TypeOK
<1>2. Left \in Addresses
  BY <1>1, Advance DEF Left
<1>3. Occupancy \in Nat /\ Occupancy <= DEPTH - 1
  BY <1>1, DifferenceType DEF Occupancy
<1>4. ASSUME read_enable PROVE Occupancy >= 1
  <2>1. Difference(write_pointer_synced, read_pointer) >= 1
    BY <1>4, ReadKnown DEF Inv
  <2> QED
    BY <2>1, OccupancyIs
<1>5. ASSUME write_enable PROVE Occupancy <= DEPTH - 2
  <2>1. Ahead(write_pointer) <= DEPTH - 2
    BY <1>5 DEF Inv, RxFlags, write_enable
  <2> QED
    BY <1>1, <2>1, OccupancyIs
<1>6. Difference(write_pointer, Left)
          = IF read_enable THEN Occupancy - 1 ELSE Occupancy
  BY <1>1, <1>4, FromTo DEF Left, Occupancy
<1> QED
  BY <1>1, <1>2, <1>3, <1>4, <1>5, <1>6

\* The words inside, and with the one that is accepted now, as a row.
LEMMA Form ==
    /\ Contents = Row(Row(Port, Read), Stored)
    /\ Fifo!Offered = Row(Contents, Coming)
<1>1. Contents = Row(Row(Port, Read), Stored)
  BY DEF Contents, Port, Read, Stored, StoredFrom, Occupancy, Stretch, One, Row
<1>2. Fifo!Accepted = Coming
  BY DEF Fifo!Accepted, Coming, One
<1>3. Fifo!Offered = Row(Contents, Coming)
  BY <1>2 DEF Fifo!Offered, Row
<1> QED
  BY <1>1, <1>3

\* A stretch up to the write pointer is a sequence of words.
LEMMA StoredSeq ==
    ASSUME Inv, NEW p \in Addresses
    PROVE  /\ StoredFrom(p) \in Seq(Words)
           /\ Len(StoredFrom(p)) = Difference(write_pointer, p)
<1> DEFINE c == Difference(write_pointer, p)
<1>1. write_pointer \in Addresses /\ memory \in [Addresses -> Words]
  BY DEF Inv, TypeOK
<1>2. c \in Nat /\ c <= DEPTH - 1 /\ DEPTH \in Nat
  BY <1>1, Top, DifferenceType
<1> HIDE DEF c
<1>3. IsStretch(Words, memory, DEPTH, p, c)
  BY <1>1, <1>2, MemoryRing DEF IsStretch
<1>4. Stretch(memory, DEPTH, p, c) \in Seq(Words) /\ Len(Stretch(memory, DEPTH, p, c)) = c
  BY <1>3, StretchSeq
<1> QED
  BY <1>4 DEF StoredFrom, c

\* The places are sequences of words.
LEMMA Places ==
    ASSUME Inv
    PROVE  /\ Port \in Seq(Words) /\ Len(Port) <= 1
           /\ Read \in Seq(Words) /\ Len(Read) <= 1
           /\ Stored \in Seq(Words) /\ Len(Stored) = Occupancy
           /\ Fetched \in Seq(Words)
           /\ StoredFrom(Left) \in Seq(Words)
           /\ Coming \in Seq(Words)
<1>1. /\ tx_tdata \in Words /\ read_data \in Words /\ rx_tdata \in Words
      /\ memory \in [Addresses -> Words] /\ read_pointer \in Addresses
      /\ memory[read_pointer] \in Words
      /\ tx_tvalid \in BOOLEAN /\ (fsm_state = "DATA") \in BOOLEAN
      /\ (rx_tvalid /\ rx_tready) \in BOOLEAN /\ read_enable \in BOOLEAN
  BY DEF Inv, TypeOK, Words, read_enable
<1>2. Port \in Seq(Words) /\ Len(Port) <= 1
  BY <1>1, OneSeq DEF Port
<1>3. Read \in Seq(Words) /\ Len(Read) <= 1
  BY <1>1, OneSeq DEF Read
<1>4. Stored \in Seq(Words) /\ Len(Stored) = Occupancy
  BY <1>1, StoredSeq DEF Stored, Occupancy
<1>5. Fetched \in Seq(Words)
  BY <1>1, OneSeq DEF Fetched
<1>6. StoredFrom(Left) \in Seq(Words)
  BY Amounts, StoredSeq
<1>7. Coming \in Seq(Words)
  BY <1>1, OneSeq DEF Coming
<1> QED
  BY <1>2, <1>3, <1>4, <1>5, <1>6, <1>7

\* There are never more than two words outside the memory, which is never full.
LEMMA Bounded == Inv => Len(Contents) <= DEPTH + 1
<1> SUFFICES ASSUME Inv PROVE Len(Contents) <= DEPTH + 1
  OBVIOUS
<1>1. /\ Port \in Seq(Words) /\ Len(Port) <= 1
      /\ Read \in Seq(Words) /\ Len(Read) <= 1
      /\ Stored \in Seq(Words) /\ Len(Stored) = Occupancy
  BY Places
<1>2. /\ Row(Port, Read) \in Seq(Words)
      /\ Len(Row(Port, Read)) = Len(Port) + Len(Read)
  BY <1>1, RowSeq
<1>3. Len(Contents) = Len(Row(Port, Read)) + Len(Stored)
  BY <1>1, <1>2, RowSeq, Form
<1>4. Len(Port) \in Nat /\ Len(Read) \in Nat
  BY <1>1, LenProperties
<1>5. Occupancy \in Nat /\ Occupancy <= DEPTH - 1 /\ DEPTH \in Nat
  BY Amounts
<1> QED
  BY <1>1, <1>2, <1>3, <1>4, <1>5

\* What is fetched is the front of what is stored.
LEMMA FetchedFirst == Inv => Stored = Row(Fetched, StoredFrom(Left))
<1> SUFFICES ASSUME Inv PROVE Stored = Row(Fetched, StoredFrom(Left))
  OBVIOUS
<1>1. CASE read_enable
  <2> DEFINE c == Difference(write_pointer, read_pointer)
  <2>1. c \in 1 .. DEPTH /\ Difference(write_pointer, Left) = c - 1
    BY <1>1, Amounts DEF Occupancy
  <2>2. /\ DEPTH \in Nat \ {0} /\ memory \in [Ring(DEPTH) -> Words]
        /\ read_pointer \in Ring(DEPTH)
    BY MemoryRing DEF Inv, TypeOK
  <2>3. Left = After(read_pointer, DEPTH)
    BY <1>1, MemoryRing DEF Left
  <2> HIDE DEF c
  <2>4. Stretch(memory, DEPTH, read_pointer, c)
            = Row(<<memory[read_pointer]>>,
                  Stretch(memory, DEPTH, After(read_pointer, DEPTH), c - 1))
    BY <2>1, <2>2, StretchRead
  <2>5. Fetched = <<memory[read_pointer]>>
    BY <1>1 DEF Fetched, One
  <2>6. Stored = Stretch(memory, DEPTH, read_pointer, c)
    BY DEF Stored, StoredFrom, c
  <2>7. StoredFrom(Left) = Stretch(memory, DEPTH, After(read_pointer, DEPTH), c - 1)
    BY <2>1, <2>3 DEF StoredFrom
  <2> QED
    BY <2>4, <2>5, <2>6, <2>7, Zenon
<1>2. CASE ~read_enable
  <2>1. Fetched = <<>> /\ StoredFrom(Left) = Stored
    BY <1>2 DEF Fetched, Left, Stored, One
  <2>2. Stored \in Seq(Words)
    BY Places
  <2> QED
    BY <2>1, <2>2, RowEmpty
<1> QED
  BY <1>1, <1>2

\* A word that comes in is written behind what is there, whatever is read.
LEMMA ComingLast ==
    ASSUME Inv, Fills, NEW p, p \in {read_pointer, Left}
    PROVE  Stretch(memory', DEPTH, p, Difference(write_pointer', p))
               = Row(StoredFrom(p), Coming)
<1> DEFINE c == Difference(write_pointer, p)
<1>1. /\ p \in Addresses /\ write_pointer \in Addresses /\ rx_tdata \in Words
      /\ memory \in [Addresses -> Words] /\ DEPTH \in Nat
  BY Amounts DEF Inv, TypeOK, Words
<1>2. CASE write_enable
  <2>1. c \in 0 .. DEPTH - 2
    BY <1>2, Amounts DEF Occupancy
  <2>2. Difference(write_pointer', p) = c + 1
    BY <1>1, <1>2, <2>1, Advance DEF Fills
  <2>3. Onward(p, c, DEPTH) = write_pointer
    BY <1>1, FromTo
  <2>4. memory' = [memory EXCEPT ![write_pointer] = rx_tdata]
    BY <1>2 DEF Fills, MemoryWrite
  <2>5. Coming = <<rx_tdata>>
    BY <1>2 DEF Coming, One, write_enable
  <2> HIDE DEF c
  <2>6. /\ DEPTH \in Nat \ {0}
        /\ memory \in [Ring(DEPTH) -> Words] /\ memory' \in [Ring(DEPTH) -> Words]
        /\ p \in Ring(DEPTH) /\ rx_tdata \in Words
        /\ c \in 0 .. DEPTH - 1
    BY <1>1, <2>1, <2>4, MemoryRing
  <2>7. \A a \in Ring(DEPTH) :
            memory'[a] = IF a = Onward(p, c, DEPTH) THEN rx_tdata ELSE memory[a]
    BY <2>3, <2>4, <2>6
  <2>8. Stretch(memory', DEPTH, p, c + 1)
            = Row(Stretch(memory, DEPTH, p, c), <<rx_tdata>>)
    BY <2>6, <2>7, StretchWritten
  <2> QED
    BY <2>2, <2>5, <2>8, Zenon DEF StoredFrom, c
<1>3. CASE ~write_enable
  <2>1. write_pointer' = write_pointer /\ memory' = memory
    BY <1>3 DEF Fills, MemoryWrite
  <2>2. Coming = <<>>
    BY <1>3 DEF Coming, One, write_enable
  <2>3. StoredFrom(p) \in Seq(Words)
    BY <1>1, StoredSeq
  <2>4. Stretch(memory', DEPTH, p, Difference(write_pointer', p)) = StoredFrom(p)
    BY <2>1 DEF StoredFrom
  <2> QED
    BY <2>2, <2>3, <2>4, RowEmpty
<1> QED
  BY <1>2, <1>3

\* The two registers follow the memory as soon as Tx is ready or they are free.
LEMMA Drained ==
    ASSUME Inv, Drains
    PROVE  Takes(Words, tx_tvalid, tx_tready, tx_tdata, Read, Stored, Fetched,
                 StoredFrom(Left), Port', Read')
<1>1. /\ fsm_state \in {"IDLE", "DATA"} /\ tx_tready \in BOOLEAN
      /\ tx_tvalid \in BOOLEAN /\ tx_tdata \in Words
  BY DEF Inv, TypeOK, Words
<1>2. Port' = IF tx_tready THEN Read ELSE One(tx_tvalid, tx_tdata)
  BY <1>1 DEF Drains, TxData, Port, Read, One
<1>3. \/ (tx_tready \/ Read = <<>>) /\ Read' = Fetched
      \/ ~tx_tready /\ Read' = Read /\ Fetched = <<>>
  <2>1. CASE tx_tready \/ fsm_state = "IDLE"
    <3>1. Read' = Fetched
      BY <1>1, <2>1 DEF Drains, FsmState, MemoryRead, Read, Fetched, One,
         read_enable
    <3>2. fsm_state = "IDLE" => Read = <<>>
      BY DEF Read, One
    <3> QED
      BY <2>1, <3>1, <3>2
  <2>2. CASE ~tx_tready /\ fsm_state = "DATA"
    BY <1>1, <2>2 DEF Drains, FsmState, MemoryRead, Read, Fetched, One,
       read_enable
  <2> QED
    BY <1>1, <2>1, <2>2
<1> QED
  BY <1>1, <1>2, <1>3, Places, FetchedFirst DEF Takes

\* The words inside after a step, as a row.
LEMMA FormNext == Contents' = Row(Row(Port', Read'), Stored')
<1>1. (Contents = Row(Row(Port, Read), Stored))'
  BY Form, PTL
<1> QED
  BY <1>1 DEF Row

\* The words in the memory after a step.
LEMMA StoredNext ==
    Stored' = Stretch(memory', DEPTH, read_pointer',
                      Difference(write_pointer', read_pointer'))
BY DEF Stored, StoredFrom, Stretch, Difference

\* An edge of one clock is a transfer of one port, an edge of both one of both.
LEMMA RxTransfers ==
    ASSUME Inv, Inv', Held, WriteClock, areset_n PROVE Fifo!RxTransfer
<1>1. Fills /\ Waits
  BY WriteFills DEF WriteClock, Waits, txRegisters
<1>2. Stored' = Row(Stored, Coming)
  <2>1. read_pointer' = read_pointer
    BY <1>1 DEF Waits
  <2>2. Stretch(memory', DEPTH, read_pointer, Difference(write_pointer', read_pointer))
            = Row(StoredFrom(read_pointer), Coming)
    BY <1>1, ComingLast
  <2> QED
    BY <2>1, <2>2, StoredNext DEF Stored
<1>3. Port' = Port /\ Read' = Read
  BY <1>1 DEF Waits, Port, Read
<1>4. Row(Port, Read) \in Seq(Words) /\ Stored \in Seq(Words) /\ Coming \in Seq(Words)
  BY Places, RowSeq
<1>5. Contents' = Fifo!Offered
  <2>1. Contents' = Row(Row(Port, Read), Row(Stored, Coming))
    BY <1>2, <1>3, FormNext
  <2> QED
    BY <1>4, <2>1, RowAssociative, Form
<1>6. Len(Contents') <= DEPTH + 1
  <2>1. (Inv => Len(Contents) <= DEPTH + 1)'
    BY Bounded, PTL
  <2> QED
    BY <2>1
<1>7. areset_n' /\ UNCHANGED <<tx_tvalid, tx_tdata, tx_tready>>
  BY DEF WriteClock, txRegisters
<1> QED
  BY <1>5, <1>6, <1>7 DEF Fifo!RxTransfer

\* An edge of the read clock alone hands over on Tx.
LEMMA TxTransfers ==
    ASSUME Inv, Inv', Held, ReadClock, areset_n PROVE Fifo!TxTransfer
<1> DEFINE none == <<>>
           all == Row(Row(Row(Port, Read), Stored), none)
<1>1. Drains /\ Keeps
  BY ReadDrains DEF ReadClock, Keeps, rxRegisters
<1>2. none \in Seq(Words)
  OBVIOUS
<1> HIDE DEF none
<1>3. /\ tx_tvalid => all # <<>> /\ Head(all) = tx_tdata
      /\ Row(Row(Port', Read'), Row(StoredFrom(Left), none))
             = IF tx_tvalid /\ tx_tready THEN Tail(all) ELSE all
  BY <1>1, <1>2, Drained, Taken DEF Port
<1>4. all = Contents
  <2>1. Row(Row(Port, Read), Stored) \in Seq(Words)
    BY Places, RowSeq
  <2> QED
    BY <2>1, RowEmpty, Form DEF none
<1>5. Row(StoredFrom(Left), none) = Stored'
  <2>1. /\ read_pointer' = Left /\ memory' = memory
        /\ write_pointer' = write_pointer
    BY <1>1 DEF Drains, Keeps, Left
  <2>2. Stored' = StoredFrom(Left)
    BY <2>1, StoredNext DEF StoredFrom
  <2> QED
    BY <2>2, Places, RowEmpty DEF none
<1>6. tx_tvalid /\ ~tx_tready => tx_tvalid' /\ tx_tdata' = tx_tdata
  BY <1>1 DEF Drains, TxData
<1>7. areset_n' /\ UNCHANGED <<rx_tvalid, rx_tdata, rx_tready>>
  BY DEF ReadClock, rxInputs, rxRegisters
<1> HIDE DEF all
<1> QED
  BY <1>3, <1>4, <1>5, <1>6, <1>7, FormNext DEF Fifo!TxTransfer, Fifo!Delivered

\* An edge of both clocks does both.
LEMMA Transfers ==
    ASSUME Inv, Inv', Held, BothClocks, areset_n PROVE Fifo!Transfer
<1> DEFINE all == Row(Row(Row(Port, Read), Stored), Coming)
<1>1. Drains /\ Fills
  BY ReadDrains, WriteFills DEF BothClocks
<1>2. /\ tx_tvalid => all # <<>> /\ Head(all) = tx_tdata
      /\ Row(Row(Port', Read'), Row(StoredFrom(Left), Coming))
             = IF tx_tvalid /\ tx_tready THEN Tail(all) ELSE all
  BY <1>1, Places, Drained, Taken DEF Port
<1>3. all = Fifo!Offered
  BY Form
<1>4. Row(StoredFrom(Left), Coming) = Stored'
  <2>1. read_pointer' = Left
    BY <1>1 DEF Drains, Left
  <2>2. Stretch(memory', DEPTH, Left, Difference(write_pointer', Left))
            = Row(StoredFrom(Left), Coming)
    BY <1>1, ComingLast
  <2> QED
    BY <2>1, <2>2, StoredNext
<1>5. Len(Contents') <= DEPTH + 1
  <2>1. (Inv => Len(Contents) <= DEPTH + 1)'
    BY Bounded, PTL
  <2> QED
    BY <2>1
<1>6. tx_tvalid /\ ~tx_tready => tx_tvalid' /\ tx_tdata' = tx_tdata
  BY <1>1 DEF Drains, TxData
<1>7. areset_n'
  BY DEF BothClocks
<1> HIDE DEF all
<1> QED
  BY <1>2, <1>3, <1>4, <1>5, <1>6, <1>7, FormNext
  DEF Fifo!Transfer, Fifo!Delivered

\* The crossing is quiet at power-up, and whenever a step ends in the reset.
LEMMA QuietInReset == Inv /\ Held /\ ~areset_n => Fifo!Quiet
<1> SUFFICES ASSUME Inv, Held, ~areset_n PROVE Fifo!Quiet
  OBVIOUS
<1>1. /\ ~rx_tready /\ ~tx_tvalid /\ fsm_state = "IDLE"
      /\ write_pointer = read_pointer
  BY DEF Held
<1>2. Occupancy = 0
  BY <1>1, Amounts, DifferenceType DEF Occupancy
<1>3. Stored = <<>>
  BY <1>2, Places, EmptySeq
<1>4. Contents = Row(Row(<<>>, <<>>), <<>>)
  BY <1>1, <1>3, Form DEF Port, Read, One
<1>5. <<>> \in Seq(Words)
  OBVIOUS
<1>6. Contents = <<>>
  BY <1>4, <1>5, RowEmpty
<1> QED
  BY <1>1, <1>6 DEF Fifo!Quiet

\* Every step is one of the FIFO or changes nothing it shows.
LEMMA FifoNext ==
    Inv /\ Inv' /\ Held /\ Held' /\ [Next]_vars => [Fifo!AsyncNext]_(Fifo!vars)
<1> SUFFICES ASSUME Inv, Inv', Held, Held', [Next]_vars
             PROVE  [Fifo!AsyncNext]_(Fifo!vars)
  OBVIOUS
<1>1. (Inv /\ Held /\ ~areset_n => Fifo!Quiet)'
  BY QuietInReset, PTL
<1>2. ~areset_n' => Fifo!Reset
  BY <1>1 DEF Fifo!Reset
<1>3. CASE WriteClock
  BY <1>2, <1>3, RxTransfers DEF WriteClock, Fifo!AsyncNext
<1>4. CASE ReadClock
  BY <1>2, <1>4, TxTransfers DEF ReadClock, Fifo!AsyncNext
<1>5. CASE BothClocks
  BY <1>2, <1>5, Transfers DEF BothClocks, Fifo!AsyncNext
<1>6. CASE Reset
  BY <1>2, <1>6 DEF Reset, Fifo!AsyncNext
<1>7. CASE Release
  <2>1. Contents' = Contents
    BY <1>7 DEF Release, rxRegisters, txRegisters, Contents, Occupancy,
       Difference
  <2> QED
    BY <1>7, <2>1 DEF Release, rxRegisters, txRegisters, Fifo!AsyncNext,
       Fifo!Release
<1>8. CASE UNCHANGED vars
  <2>1. Contents' = Contents
    BY <1>8 DEF vars, rxRegisters, txRegisters, Contents, Occupancy, Difference
  <2> QED
    BY <1>8, <2>1 DEF vars, rxInputs, rxRegisters, txRegisters, Fifo!vars
<1> QED
  BY <1>3, <1>4, <1>5, <1>6, <1>7, <1>8 DEF Next

(***************************************************************************)
(* For every width of the pointers and every set of words the crossing is  *)
(* a FIFO of DEPTH + 1 words between two clocks: no word is lost,          *)
(* duplicated, reordered, torn or withdrawn, in whatever order the edges   *)
(* of the clocks and of the resets come.                                   *)
(***************************************************************************)
THEOREM Implements == Spec => RefinesFifo
<1>1. Init => Fifo!Init
  <2>1. Init => ~areset_n
    BY DEF Init
  <2> QED
    BY <2>1, InitInv, HeldInit, QuietInReset DEF Fifo!Init
<1>2. Spec => []Held
  <2>1. Spec => []Inv
    BY Invariance
  <2> QED
    BY <2>1, HeldInit, HeldNext, PTL DEF Spec
<1> QED
  BY <1>1, <1>2, FifoNext, Invariance, PTL
  DEF Spec, Fifo!AsyncSpec, RefinesFifo

=============================================================================
