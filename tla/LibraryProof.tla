----------------------------- MODULE LibraryProof -----------------------------
(***************************************************************************)
(* The testbench library.  Its data structures: bit streams own their      *)
(* buffers (OwnedOnceAlways) and are values (ImplementsValues), and the    *)
(* signals of an interface show what was written (ReadsLastWrittenAlways). *)
(* Its test bench, for all items, idle times and timeouts: its parts are   *)
(* wired (TestbenchAlwaysWired), and as long as no driver gives up and no  *)
(* reset hits the traffic, the Rx driver holds what it offers              *)
(* (DriverHoldsOffer), the monitors see the items (MonitorsAlwaysSeeItems) *)
(* and the scoreboard compares equal packets (NeverFalseAlarm).            *)
(*                                                                         *)
(* The invariant of bit streams is Inv, the ownership, together with Typed.*)
(* A step is followed from the members and the heap (Reallocates,          *)
(* Transfers, Write) to the values of the objects (Of) and from there to a *)
(* step of BitVector (Becomes, Changed).                                   *)
(*                                                                         *)
(* The invariant of the test bench is TestInv.  It follows the transfers   *)
(* of an item (Nth) from the driver through the buffer: what each monitor  *)
(* has collected is a part of the item (Part), and the packets reported    *)
(* are those of the items that were sent, in their order.                  *)
(***************************************************************************)
EXTENDS MCLibrary, MCStreamTestbench, Integers, SequenceTheorems, Rows

(***************************************************************************)
(* Bits, bytes and buffers.                                                *)
(***************************************************************************)

\* Whole bytes hold the bits, and the shorter buffer is the beginning of the
\* longer one.
LEMMA Division ==
    ASSUME NEW x \in Nat
    PROVE  /\ x \div BITS \in Nat
           /\ (x \div BITS) * BITS \in Nat
           /\ (x \div BITS) * BITS <= x
           /\ x < (x \div BITS) * BITS + BITS
           /\ x % BITS = x - (x \div BITS) * BITS
BY BitstreamAssumption

\* A number of whole bytes is at most another if it is less than one byte more.
LEMMA Apart ==
    ASSUME NEW p \in Nat, NEW q \in Nat, p * BITS < q * BITS + BITS
    PROVE  p <= q
<1>1. CASE p >= q + 1
  <2>1. PICK d \in Nat : p = q + 1 + d
    <3>1. p - (q + 1) \in Nat
      BY <1>1
    <3> QED
      BY <3>1
  <2>2. p * BITS = q * BITS + BITS + d * BITS /\ d * BITS >= 0
    BY <2>1, BitstreamAssumption
  <2>3. p * BITS \in Int /\ q * BITS \in Int /\ d * BITS \in Int
    BY BitstreamAssumption
  <2> QED
    BY <2>2, <2>3, BitstreamAssumption
<1> QED
  BY <1>1

\* A buffer has room for its bits, and no more if they fill whole bytes.
LEMMA BufferHolds ==
    ASSUME NEW n \in Nat
    PROVE  /\ Bytes(n) * BITS \in Nat
           /\ n <= Bytes(n) * BITS
           /\ n % BITS = 0 => Bytes(n) * BITS = n
<1> DEFINE q == n \div BITS
           r == n % BITS
           x == n + (BITS - 1)
           b == x \div BITS
<1>1. x \in Nat /\ BITS \in Nat /\ BITS >= 1
  BY BitstreamAssumption
<1>2. b \in Nat /\ b * BITS \in Nat /\ b * BITS <= x /\ x < b * BITS + BITS
  BY <1>1, Division
<1>3. q \in Nat /\ q * BITS \in Nat /\ q * BITS <= n /\ r = n - q * BITS
  BY Division
<1>4. Bytes(n) = b
  BY DEF Bytes
<1>5. n <= b * BITS
  <2> HIDE DEF b
  <2> QED
    BY <1>1, <1>2
<1>6. ASSUME r = 0 PROVE b * BITS = n
  <2>1. n = q * BITS
    BY <1>3, <1>6
  <2>2. b * BITS < q * BITS + BITS
    <3> HIDE DEF b, q, r
    <3> QED
      BY <1>1, <1>2, <2>1
  <2>3. b <= q
    BY <1>2, <1>3, <2>2, Apart
  <2>4. q * BITS < b * BITS + BITS
    <3> HIDE DEF b, q, r
    <3> QED
      BY <1>1, <1>2, <1>5, <2>1
  <2>5. q <= b
    BY <1>2, <1>3, <2>4, Apart
  <2> QED
    BY <2>1, <2>3, <2>5, <1>2, <1>3
<1> QED
  BY <1>2, <1>4, <1>5, <1>6

\* The buffer of more bits is at least as large.
LEMMA BufferGrows ==
    ASSUME NEW m \in Nat, NEW n \in Nat, m <= n
    PROVE  Bytes(m) * BITS <= Bytes(n) * BITS
<1> DEFINE b == Bytes(m)
           c == Bytes(n)
<1>1. m + (BITS - 1) \in Nat /\ n + (BITS - 1) \in Nat /\ BITS \in Nat
  BY BitstreamAssumption
<1>2. /\ b \in Nat /\ b * BITS \in Nat /\ b * BITS <= m + (BITS - 1)
      /\ c \in Nat /\ c * BITS \in Nat /\ n + (BITS - 1) < c * BITS + BITS
  BY <1>1, Division DEF Bytes
<1>3. b * BITS < c * BITS + BITS
  <2> HIDE DEF b, c
  <2> QED
    BY <1>1, <1>2
<1>4. b <= c
  BY <1>2, <1>3, Apart
<1>5. PICK d \in Nat : c = b + d
  <2>1. c - b \in Nat
    BY <1>2, <1>4
  <2> QED
    BY <1>2, <2>1
<1>6. c * BITS = b * BITS + d * BITS /\ d * BITS \in Nat
  BY <1>1, <1>2, <1>5
<1> QED
  BY <1>2, <1>6

\* The value of a size and a buffer.
Of(size, buffer) ==
    [bits |-> [j \in 1 .. size |-> buffer[j - 1]],
     tidy |-> \A i \in Buffer(size) \ (0 .. size - 1) : ~buffer[i]]

\* The vectors that implement the specification BitVector.
Vec == [o \in Live |-> BitValue(o)]

\* A place of a bit is one of its buffer.
LEMMA WithinBytes ==
    ASSUME NEW n \in Nat
    PROVE  /\ Bytes(n) * BITS \in Nat
           /\ \A i \in 0 .. n - 1 : i \in Buffer(n)
           /\ \A j \in 1 .. n : j - 1 \in Buffer(n) /\ j - 1 \in 0 .. n - 1
<1> DEFINE b == Bytes(n) * BITS
<1>1. b \in Nat /\ n <= b
  BY BufferHolds
<1>2. Buffer(n) = 0 .. b - 1
  BY DEF Buffer
<1> HIDE DEF b
<1> QED
  BY <1>1, <1>2 DEF b

\* Buffers with the same bits hold the same value.
LEMMA SameBits ==
    ASSUME NEW n \in Nat, NEW b, NEW c, \A i \in Buffer(n) : b[i] = c[i]
    PROVE  Of(n, b) = Of(n, c)
<1>1. [j \in 1 .. n |-> b[j - 1]] = [j \in 1 .. n |-> c[j - 1]]
  BY WithinBytes
<1>2. (\A i \in Buffer(n) \ (0 .. n - 1) : ~b[i])
         = (\A i \in Buffer(n) \ (0 .. n - 1) : ~c[i])
  OBVIOUS
<1> QED
  BY <1>1, <1>2 DEF Of

\* A stream without bits is the empty value, whatever it points to.
LEMMA NoBits ==
    ASSUME NEW b
    PROVE  Of(0, b) = Values!Nothing
<1>1. Buffer(0) = {}
  <2>1. Bytes(0) * BITS \in Nat /\ (0 % BITS = 0 => Bytes(0) * BITS = 0)
    BY BufferHolds
  <2>2. 0 % BITS = 0
    BY BitstreamAssumption
  <2>3. Bytes(0) * BITS = 0
    BY <2>1, <2>2
  <2> QED
    BY <2>3 DEF Buffer
<1>2. [j \in 1 .. 0 |-> b[j - 1]] = <<>>
  OBVIOUS
<1> QED
  BY <1>1, <1>2 DEF Of, Values!Nothing, Values!Vector

\* All bits of the buffer b of n bits are zero.
Cleared(n, b) == \A i \in Buffer(n) : b[i] = FALSE

\* A cleared buffer holds a value of zeros that is tidy.
LEMMA ZeroBits ==
    ASSUME NEW n \in Nat, NEW b, Cleared(n, b)
    PROVE  Of(n, b) = Values!Vector([i \in 1 .. n |-> FALSE])
<1> USE DEF Cleared
<1>1. [j \in 1 .. n |-> b[j - 1]] = [i \in 1 .. n |-> FALSE]
  BY WithinBytes
<1>2. (\A i \in Buffer(n) \ (0 .. n - 1) : ~b[i]) = TRUE
  OBVIOUS
<1> QED
  BY <1>1, <1>2 DEF Of, Values!Vector

\* The value v with some of its n bits replaced.
Changed(v, n, changed, to) ==
    [v EXCEPT !.bits = [i \in 1 .. n |-> IF i \in changed THEN to[i] ELSE @[i]]]

\* Replacing the bits of a value leaves its tidiness alone.
LEMMA Put ==
    ASSUME NEW B, NEW t, NEW n, NEW changed, NEW to
    PROVE  Changed([bits |-> B, tidy |-> t], n, changed, to)
             = [bits |-> [i \in 1 .. n |-> IF i \in changed THEN to[i] ELSE B[i]],
                tidy |-> t]
<1> DEFINE v == [bits |-> B, tidy |-> t]
           D == [i \in 1 .. n |-> IF i \in changed THEN to[i] ELSE B[i]]
<1>1. v.bits = B
  OBVIOUS
<1>2. Changed(v, n, changed, to) = [v EXCEPT !.bits = D]
  BY <1>1 DEF Changed
<1>3. ASSUME NEW d
      PROVE  [v EXCEPT !.bits = d] = [bits |-> d, tidy |-> t]
  OBVIOUS
<1> QED
  BY <1>2, <1>3

\* The buffer c is the buffer b but for the bits asked for.
Differs(n, b, c, changed, to) ==
    /\ changed \subseteq 1 .. n
    /\ \A i \in Buffer(n) : c[i] = IF i + 1 \in changed THEN to[i + 1] ELSE b[i]

\* Writing bits below the size of the stream changes exactly those of the
\* value.
LEMMA ChangedBits ==
    ASSUME NEW n \in Nat, NEW b, NEW c, NEW changed, NEW to,
           Differs(n, b, c, changed, to)
    PROVE  Of(n, c) = Changed(Of(n, b), n, changed, to)
<1> USE DEF Differs
<1> DEFINE B == [j \in 1 .. n |-> b[j - 1]]
           C == [j \in 1 .. n |-> c[j - 1]]
           D == [i \in 1 .. n |-> IF i \in changed THEN to[i] ELSE B[i]]
           t == \A i \in Buffer(n) \ (0 .. n - 1) : ~b[i]
           u == \A i \in Buffer(n) \ (0 .. n - 1) : ~c[i]
<1>1. C = D
  <2>1. \A j \in 1 .. n : C[j] = D[j]
    BY WithinBytes
  <2> QED
    BY <2>1
<1>2. u = t
  <2>1. \A i \in Buffer(n) \ (0 .. n - 1) : i + 1 \notin 1 .. n
    BY WithinBytes DEF Buffer
  <2>2. \A i \in Buffer(n) \ (0 .. n - 1) : c[i] = b[i]
    BY <2>1
  <2> QED
    BY <2>2
<1>3. Of(n, c) = [bits |-> C, tidy |-> u] /\ Of(n, b) = [bits |-> B, tidy |-> t]
  BY DEF Of
<1>4. Changed([bits |-> B, tidy |-> t], n, changed, to) = [bits |-> D, tidy |-> t]
  <2> HIDE DEF t, B
  <2> QED
    BY Put
<1> QED
  BY <1>1, <1>2, <1>3, <1>4

-----------------------------------------------------------------------------

(***************************************************************************)
(* Ownership.  No step depends on the bits in a buffer: only which object  *)
(* points to which buffer, and how large the buffer is.                    *)
(***************************************************************************)

\* Every buffer has one owner, and its address is one that can be allocated.
Inv == OwnedOnce /\ DOMAIN heap \subseteq Addresses

\* The pointer that is released when o gets a new value.
Released(o) == IF o \in Live THEN objs[o].m_bits ELSE Null

(***************************************************************************)
(* resize(), the copy assignment and the constructors that allocate: the   *)
(* object gives up its buffer and gets a new one of its new size.          *)
(***************************************************************************)
Reallocates(o, n, a) ==
    /\ a \in Addresses \ DOMAIN heap
    /\ DOMAIN objs' = Live \cup {o}
    /\ \A p \in Live \ {o} : objs'[p] = objs[p]
    /\ objs'[o] = [m_bits |-> a, m_size |-> n]
    /\ DOMAIN heap' = (DOMAIN heap \ {Released(o)}) \cup {a}
    /\ \A b \in DOMAIN heap' \ {a} : heap'[b] = heap[b]
    /\ DOMAIN heap'[a] = Buffer(n)

\* An object that gets a new buffer, and whose old one is freed, keeps the invariant.
LEMMA Reallocated ==
    ASSUME Inv, NEW o, NEW n, NEW a, Reallocates(o, n, a)
    PROVE  Inv'
<1> USE DEF Reallocates
<1>1. a # Null
  BY BitstreamAssumption
<1>2. \A p \in Live \ {o} : objs'[p].m_bits # a
  BY <1>1 DEF Inv, OwnedOnce, Live
<1>3. \A p \in Live \ {o} : objs[p].m_bits # Null => objs[p].m_bits # Released(o)
  BY DEF Inv, OwnedOnce, Live, Released
<1>4. ASSUME NEW b \in DOMAIN heap'
      PROVE  \E p \in Live' : \A q \in Live' : objs'[q].m_bits = b <=> q = p
  <2>1. CASE b = a
    BY <1>2, <2>1 DEF Live
  <2>2. CASE b # a
    <3>1. b \in DOMAIN heap /\ b # Released(o)
      BY <2>2
    <3>2. PICK p \in Live : \A q \in Live : objs[q].m_bits = b <=> q = p
      BY <3>1 DEF Inv, OwnedOnce
    <3>3. p # o
      BY <3>1, <3>2 DEF Released
    <3>4. QED
      BY <2>2, <3>2, <3>3 DEF Live
  <2>3. QED
    BY <2>1, <2>2
<1>5. ASSUME NEW p \in Live'
      PROVE  IF objs'[p].m_bits = Null
               THEN objs'[p].m_size = 0
               ELSE /\ objs'[p].m_bits \in DOMAIN heap'
                    /\ DOMAIN heap'[objs'[p].m_bits] = Buffer(objs'[p].m_size)
  <2>1. CASE p = o
    BY <1>1, <2>1
  <2>2. CASE p # o
    <3>1. p \in Live /\ objs'[p] = objs[p]
      BY <2>2 DEF Live
    <3>2. CASE objs[p].m_bits = Null
      BY <3>1, <3>2 DEF Inv, OwnedOnce
    <3>3. CASE objs[p].m_bits # Null
      <4>1. objs[p].m_bits \in DOMAIN heap
            /\ DOMAIN heap[objs[p].m_bits] = Buffer(objs[p].m_size)
        BY <3>1, <3>3 DEF Inv, OwnedOnce, Bits
      <4>2. objs[p].m_bits \in DOMAIN heap' \ {a}
        BY <1>2, <1>3, <2>2, <3>1, <3>3, <4>1
      <4>3. QED
        BY <3>1, <3>3, <4>1, <4>2
    <3>4. QED
      BY <3>2, <3>3
  <2>3. QED
    BY <2>1, <2>2
<1>6. QED
  BY <1>4, <1>5 DEF Inv, OwnedOnce, Bits, Buffer, Bytes

(***************************************************************************)
(* The move constructor and the move assignment: the object gives up its   *)
(* buffer and gets that of the other one, which is empty afterwards.       *)
(***************************************************************************)
Transfers(o, other) ==
    /\ DOMAIN objs' = Live \cup {o}
    /\ \A p \in Live \ {o, other} : objs'[p] = objs[p]
    /\ objs'[o] = objs[other]
    /\ objs'[other] = Empty
    /\ DOMAIN heap' = DOMAIN heap \ {Released(o)}
    /\ \A b \in DOMAIN heap' : heap'[b] = heap[b]

\* So does one that takes over the buffer of another.
LEMMA Transferred ==
    ASSUME Inv, NEW o, NEW other \in Live, other # o, Transfers(o, other)
    PROVE  Inv'
<1> USE DEF Transfers
<1>1. Null \notin DOMAIN heap
  BY BitstreamAssumption DEF Inv
<1>2. \A p \in Live \ {o} : objs[p].m_bits # Null => objs[p].m_bits # Released(o)
  BY DEF Inv, OwnedOnce, Live, Released
<1>3. ASSUME NEW b \in DOMAIN heap'
      PROVE  \E p \in Live' : \A q \in Live' : objs'[q].m_bits = b <=> q = p
  <2>1. b \in DOMAIN heap /\ b # Released(o) /\ b # Null
    BY <1>1
  <2>2. PICK p \in Live : \A q \in Live : objs[q].m_bits = b <=> q = p
    BY <2>1 DEF Inv, OwnedOnce
  <2>3. p # o
    BY <2>1, <2>2 DEF Released
  <2>4. objs'[other].m_bits = Null
    BY DEF Empty
  <2>5. CASE p = other
    BY <2>1, <2>2, <2>4, <2>5 DEF Live
  <2>6. CASE p # other
    BY <2>1, <2>2, <2>3, <2>4, <2>6 DEF Live
  <2>7. QED
    BY <2>5, <2>6
<1>4. ASSUME NEW p \in Live, p # o
      PROVE  IF objs[p].m_bits = Null
               THEN objs[p].m_size = 0
               ELSE /\ objs[p].m_bits \in DOMAIN heap'
                    /\ DOMAIN heap'[objs[p].m_bits] = Buffer(objs[p].m_size)
  <2>1. CASE objs[p].m_bits = Null
    BY <1>4, <2>1 DEF Inv, OwnedOnce
  <2>2. CASE objs[p].m_bits # Null
    BY <1>2, <1>4, <2>2 DEF Inv, OwnedOnce, Bits
  <2>3. QED
    BY <2>1, <2>2
<1>5. ASSUME NEW p \in Live'
      PROVE  IF objs'[p].m_bits = Null
               THEN objs'[p].m_size = 0
               ELSE /\ objs'[p].m_bits \in DOMAIN heap'
                    /\ DOMAIN heap'[objs'[p].m_bits] = Buffer(objs'[p].m_size)
  <2>1. CASE p = o
    BY <1>4, <2>1
  <2>2. CASE p = other
    BY <2>2 DEF Empty
  <2>3. CASE p # o /\ p # other
    BY <1>4, <2>3 DEF Live
  <2>4. QED
    BY <2>1, <2>2, <2>3
<1>6. QED
  BY <1>3, <1>5 DEF Inv, OwnedOnce, Bits, Buffer, Bytes

(***************************************************************************)
(* The functions that write bits keep the buffers and their sizes.         *)
(***************************************************************************)
LEMMA Written ==
    ASSUME Inv, NEW o \in Live, NEW bits, Write(o, bits),
           DOMAIN bits = Buffer(objs[o].m_size)
    PROVE  Inv'
<1>1. objs' = objs /\ DOMAIN heap' = DOMAIN heap
  BY DEF Write
<1>2. \A a \in DOMAIN heap : DOMAIN heap'[a] = DOMAIN heap[a]
  <2>1. CASE objs[o].m_bits = Null
    BY <2>1 DEF Write
  <2>2. CASE objs[o].m_bits # Null
    <3>1. DOMAIN heap[objs[o].m_bits] = DOMAIN bits
      BY <2>2 DEF Inv, OwnedOnce, Bits
    <3>2. QED
      BY <2>2, <3>1 DEF Write
  <2>3. QED
    BY <2>1, <2>2
<1>3. QED
  BY <1>1, <1>2 DEF Inv, OwnedOnce, Live, Bits, Buffer, Bytes

(***************************************************************************)
(* The destructor.                                                         *)
(***************************************************************************)
LEMMA Destroyed ==
    ASSUME Inv, NEW o \in Live, Destroy(o)
    PROVE  Inv'
<1>1. \A p \in Live \ {o} : objs[p].m_bits # Null => objs[p].m_bits # objs[o].m_bits
  BY DEF Inv, OwnedOnce, Live
<1>2. ASSUME NEW b \in DOMAIN heap'
      PROVE  \E p \in Live' : \A q \in Live' : objs'[q].m_bits = b <=> q = p
  <2>1. b \in DOMAIN heap /\ b # objs[o].m_bits
    BY DEF Destroy, Delete
  <2>2. PICK p \in Live : \A q \in Live : objs[q].m_bits = b <=> q = p
    BY <2>1 DEF Inv, OwnedOnce
  <2>3. p # o
    BY <2>1, <2>2
  <2>4. QED
    BY <2>2, <2>3 DEF Destroy, Live
<1>3. ASSUME NEW p \in Live'
      PROVE  IF objs'[p].m_bits = Null
               THEN objs'[p].m_size = 0
               ELSE /\ objs'[p].m_bits \in DOMAIN heap'
                    /\ DOMAIN heap'[objs'[p].m_bits] = Buffer(objs'[p].m_size)
  <2>1. p \in Live \ {o} /\ objs'[p] = objs[p]
    BY DEF Destroy, Live
  <2>2. CASE objs[p].m_bits = Null
    BY <2>1, <2>2 DEF Inv, OwnedOnce
  <2>3. CASE objs[p].m_bits # Null
    BY <1>1, <2>1, <2>3 DEF Inv, OwnedOnce, Bits, Destroy, Delete
  <2>4. QED
    BY <2>2, <2>3
<1>4. DOMAIN heap' \subseteq Addresses
  BY DEF Inv, Destroy, Delete
<1>5. QED
  BY <1>2, <1>3, <1>4 DEF Inv, OwnedOnce, Bits, Buffer, Bytes

-----------------------------------------------------------------------------

(***************************************************************************)
(* What the calls do to objects and buffers.                               *)
(***************************************************************************)

\* The constructor of a size takes a cleared buffer.
LEMMA SizedEffect ==
    ASSUME Inv, NEW o, o \notin Live, NEW n, ConstructSized(o, n)
    PROVE  \E a : Reallocates(o, n, a) /\ Cleared(n, heap'[a])
<1>1. PICK a \in Addresses \ DOMAIN heap :
         /\ objs' = Built(o, [m_bits |-> a, m_size |-> n])
         /\ heap' = New(heap, a, Zero(n))
  BY DEF ConstructSized
<1>2. Released(o) \notin DOMAIN heap
  BY BitstreamAssumption DEF Released, Inv
<1>3. Reallocates(o, n, a)
  BY <1>1, <1>2 DEF Reallocates, Built, New, Zero, Live
<1>4. Cleared(n, heap'[a])
  BY <1>1 DEF New, Zero, Cleared
<1> QED
  BY <1>3, <1>4

\* The copy constructor takes a buffer with the bits of its source.
LEMMA CopyConstructEffect ==
    ASSUME Inv, NEW o, o \notin Live, NEW other \in Live, CopyConstruct(o, other)
    PROVE  \E a : /\ Reallocates(o, objs[other].m_size, a)
                  /\ \A i \in Buffer(objs[other].m_size) :
                        heap'[a][i] = Copied(other, objs[other].m_size, i)
<1> DEFINE n == objs[other].m_size
<1>1. PICK a \in Addresses \ DOMAIN heap :
         /\ objs' = Built(o, [m_bits |-> a, m_size |-> n])
         /\ heap' = New(heap, a, [i \in Buffer(n) |-> Copied(other, n, i)])
  BY DEF CopyConstruct
<1>2. Released(o) \notin DOMAIN heap
  BY BitstreamAssumption DEF Released, Inv
<1>3. Reallocates(o, n, a)
  BY <1>1, <1>2 DEF Reallocates, Built, New, Live
<1>4. \A i \in Buffer(n) : heap'[a][i] = Copied(other, n, i)
  BY <1>1 DEF New
<1> QED
  BY <1>3, <1>4

\* The move constructor takes over the buffer of its source.
LEMMA MoveConstructEffect ==
    ASSUME Inv, NEW o, o \notin Live, NEW other \in Live, MoveConstruct(o, other)
    PROVE  Transfers(o, other)
<1>1. Released(o) \notin DOMAIN heap
  BY BitstreamAssumption DEF Released, Inv
<1> QED
  BY <1>1 DEF MoveConstruct, Built, Live, Transfers

\* The move assignment to another object takes over its buffer.
LEMMA MoveAssignEffect ==
    ASSUME Inv, NEW o \in Live, NEW other \in Live, MoveAssign(o, other), o # other
    PROVE  Transfers(o, other)
BY DEF MoveAssign, Delete, Live, Released, Transfers

\* A new buffer for a living object: its old one is deleted.
LEMMA Replaced ==
    ASSUME Inv, NEW o \in Live, NEW n, NEW a \in Addresses \ DOMAIN heap, NEW buffer,
           DOMAIN buffer = Buffer(n),
           heap' = New(Delete(heap, objs[o].m_bits), a, buffer),
           objs' = [objs EXCEPT ![o] = [m_bits |-> a, m_size |-> n]]
    PROVE  Reallocates(o, n, a) /\ heap'[a] = buffer
<1>1. /\ DOMAIN heap' = (DOMAIN heap \ {Released(o)}) \cup {a}
      /\ \A b \in DOMAIN heap' \ {a} : heap'[b] = heap[b]
      /\ heap'[a] = buffer
  BY DEF New, Delete, Released
<1>2. /\ DOMAIN objs' = Live \cup {o}
      /\ \A p \in Live \ {o} : objs'[p] = objs[p]
      /\ objs'[o] = [m_bits |-> a, m_size |-> n]
  BY DEF Live
<1> QED
  BY <1>1, <1>2 DEF Reallocates

\* The copy assignment does nothing, or takes a buffer with the bits of its
\* source.
LEMMA CopyAssignEffect ==
    ASSUME Inv, NEW o \in Live, NEW other \in Live, CopyAssign(o, other)
    PROVE  \/ o = other /\ UNCHANGED <<objs, heap>>
           \/ \E a : /\ Reallocates(o, objs[other].m_size, a)
                     /\ \A i \in Buffer(objs[other].m_size) :
                           heap'[a][i] = Copied(other, objs[other].m_size, i)
<1> DEFINE n == objs[other].m_size
           buffer == [i \in Buffer(n) |-> Copied(other, n, i)]
<1>1. CASE o = other /\ UNCHANGED <<objs, heap>>
  BY <1>1
<1>2. ASSUME NEW a \in Addresses \ DOMAIN heap,
             heap' = New(Delete(heap, objs[o].m_bits), a, buffer),
             objs' = [objs EXCEPT ![o] = [m_bits |-> a, m_size |-> n]]
      PROVE  Reallocates(o, n, a) /\ heap'[a] = buffer
  <2>1. DOMAIN buffer = Buffer(n)
    OBVIOUS
  <2> HIDE DEF buffer, n
  <2> QED
    BY <1>2, <2>1, Replaced
<1>3. ASSUME ~(o = other /\ UNCHANGED <<objs, heap>>)
      PROVE  \E a : Reallocates(o, n, a) /\ heap'[a] = buffer
  <2>1. PICK a \in Addresses \ DOMAIN heap :
           /\ heap' = New(Delete(heap, objs[o].m_bits), a, buffer)
           /\ objs' = [objs EXCEPT ![o] = [m_bits |-> a, m_size |-> n]]
    BY <1>3 DEF CopyAssign
  <2> QED
    BY <1>2, <2>1
<1>4. \A i \in Buffer(n) : buffer[i] = Copied(other, n, i)
  OBVIOUS
<1> QED
  <2> HIDE DEF buffer
  <2> QED
    BY <1>3, <1>4

\* resize() does nothing, or takes a buffer with the bits that are in both
\* sizes.
LEMMA ResizeEffect ==
    ASSUME Inv, NEW o \in Live, NEW n, Resize(o, n)
    PROVE  \/ objs[o].m_size = n /\ UNCHANGED <<objs, heap>>
           \/ /\ objs[o].m_size # n
              /\ \E a : /\ Reallocates(o, n, a)
                        /\ \A i \in Buffer(n) :
                              heap'[a][i] = Copied(o, Least(objs[o].m_size, n), i)
<1> DEFINE buffer == [i \in Buffer(n) |-> Copied(o, Least(objs[o].m_size, n), i)]
<1>1. ASSUME NEW a \in Addresses \ DOMAIN heap,
             heap' = New(Delete(heap, objs[o].m_bits), a, buffer),
             objs' = [objs EXCEPT ![o] = [m_bits |-> a, m_size |-> n]]
      PROVE  Reallocates(o, n, a) /\ heap'[a] = buffer
  <2>1. DOMAIN buffer = Buffer(n)
    OBVIOUS
  <2> HIDE DEF buffer
  <2> QED
    BY <1>1, <2>1, Replaced
<1>2. ASSUME ~(objs[o].m_size = n /\ UNCHANGED <<objs, heap>>)
      PROVE  objs[o].m_size # n /\ \E a : Reallocates(o, n, a) /\ heap'[a] = buffer
  <2>1. objs[o].m_size # n
    BY <1>2 DEF Resize
  <2>2. PICK a \in Addresses \ DOMAIN heap :
           /\ heap' = New(Delete(heap, objs[o].m_bits), a, buffer)
           /\ objs' = [objs EXCEPT ![o] = [m_bits |-> a, m_size |-> n]]
    BY <1>2 DEF Resize
  <2> QED
    BY <1>1, <2>1, <2>2
<1>3. \A i \in Buffer(n) : buffer[i] = Copied(o, Least(objs[o].m_size, n), i)
  OBVIOUS
<1> QED
  <2> HIDE DEF buffer
  <2> QED
    BY <1>2, <1>3

-----------------------------------------------------------------------------

(***************************************************************************)
(* What the calls do to values.                                            *)
(***************************************************************************)

\* Sizes stay below the bound, and buffers consist of bits.
Typed ==
    /\ Live \subseteq Objects
    /\ \A o \in Live : objs[o].m_size \in Sizes
    /\ \A a \in DOMAIN heap : \A i \in DOMAIN heap[a] : heap[a][i] \in BOOLEAN

\* The value of an object is that of its size and its buffer, before and after
\* a step.
LEMMA ValueOf ==
    ASSUME NEW o
    PROVE  /\ BitValue(o) = Of(objs[o].m_size, Bits(o))
           /\ BitValue(o)' = Of(objs'[o].m_size, heap'[objs'[o].m_bits])
BY DEF BitValue, Tidy, Of, Bits, Buffer, Bytes

\* The size of an object is a number.
LEMMA SizeType == ASSUME Typed, NEW o \in Live PROVE objs[o].m_size \in Nat
BY BitstreamAssumption DEF Typed, Sizes

\* The bits of a living object are there, and they are bits.
LEMMA BitType ==
    ASSUME Inv, Typed, NEW o \in Live, NEW i \in Buffer(objs[o].m_size),
           objs[o].m_bits # Null
    PROVE  Bits(o)[i] \in BOOLEAN
BY DEF Inv, OwnedOnce, Typed, Bits

\* An object whose members and buffer stay the same has the same value.
LEMMA Kept ==
    ASSUME Inv, NEW p \in Live, objs'[p] = objs[p],
           objs[p].m_bits # Null => heap'[objs[p].m_bits] = heap[objs[p].m_bits]
    PROVE  BitValue(p)' = BitValue(p)
<1>1. CASE objs[p].m_bits = Null
  <2>1. objs[p].m_size = 0
    BY <1>1 DEF Inv, OwnedOnce
  <2> QED
    BY <2>1, ValueOf, NoBits
<1>2. CASE objs[p].m_bits # Null
  BY <1>2, ValueOf DEF Bits
<1> QED
  BY <1>1, <1>2

\* Its own buffer is not the one that another object releases.
LEMMA OwnBuffer ==
    ASSUME Inv, NEW o, NEW p \in Live \ {o}, objs[p].m_bits # Null
    PROVE  objs[p].m_bits \in DOMAIN heap \ {Released(o)}
BY DEF Inv, OwnedOnce, Live, Released

\* Who takes a new buffer has its value, and no other value changes.
LEMMA ReallocatedValues ==
    ASSUME Inv, NEW o, NEW n, NEW a, Reallocates(o, n, a)
    PROVE  /\ Live' = Live \cup {o}
           /\ BitValue(o)' = Of(n, heap'[a])
           /\ \A p \in Live \ {o} : BitValue(p)' = BitValue(p)
<1>1. Live' = Live \cup {o}
  BY DEF Reallocates, Live
<1>2. BitValue(o)' = Of(n, heap'[a])
  BY ValueOf DEF Reallocates
<1>3. ASSUME NEW p \in Live \ {o} PROVE BitValue(p)' = BitValue(p)
  <2>1. objs'[p] = objs[p]
    BY DEF Reallocates
  <2>2. ASSUME objs[p].m_bits # Null
        PROVE  heap'[objs[p].m_bits] = heap[objs[p].m_bits]
    <3>1. objs[p].m_bits \in DOMAIN heap \ {Released(o)}
      BY <2>2, OwnBuffer
    <3> QED
      BY <3>1 DEF Reallocates
  <2> QED
    BY <2>1, <2>2, Kept
<1> QED
  BY <1>1, <1>2, <1>3

\* A new buffer of bits keeps the types.
LEMMA ReallocatedTyped ==
    ASSUME Typed, NEW o \in Objects, NEW n \in Sizes, NEW a, Reallocates(o, n, a),
           \A i \in Buffer(n) : heap'[a][i] \in BOOLEAN
    PROVE  Typed'
BY DEF Typed, Reallocates, Live, Sizes

\* Who takes over a buffer has its value, its old owner none, and no other
\* changes.
LEMMA TransferredValues ==
    ASSUME Inv, NEW o, NEW other \in Live, other # o, Transfers(o, other)
    PROVE  /\ Live' = Live \cup {o}
           /\ BitValue(o)' = BitValue(other)
           /\ BitValue(other)' = Values!Nothing
           /\ \A p \in Live \ {o, other} : BitValue(p)' = BitValue(p)
<1>1. Live' = Live \cup {o}
  BY DEF Transfers, Live
<1>2. ASSUME NEW p \in Live \ {o}, objs[p].m_bits # Null
      PROVE  heap'[objs[p].m_bits] = heap[objs[p].m_bits]
  <2>1. objs[p].m_bits \in DOMAIN heap \ {Released(o)}
    BY <1>2, OwnBuffer
  <2> QED
    BY <2>1 DEF Transfers
<1>3. BitValue(o)' = BitValue(other)
  <2>1. objs'[o] = objs[other]
    BY DEF Transfers
  <2>2. CASE objs[other].m_bits = Null
    <3>1. objs[other].m_size = 0
      BY <2>2 DEF Inv, OwnedOnce
    <3> QED
      BY <2>1, <3>1, ValueOf, NoBits
  <2>3. CASE objs[other].m_bits # Null
    <3>1. heap'[objs[other].m_bits] = heap[objs[other].m_bits]
      BY <1>2, <2>3
    <3> QED
      BY <2>1, <3>1, ValueOf DEF Bits
  <2> QED
    BY <2>2, <2>3
<1>4. BitValue(other)' = Values!Nothing
  BY ValueOf, NoBits DEF Transfers, Empty
<1>5. ASSUME NEW p \in Live \ {o, other} PROVE BitValue(p)' = BitValue(p)
  <2>1. objs'[p] = objs[p]
    BY DEF Transfers
  <2> QED
    BY <1>2, <2>1, Kept
<1> QED
  BY <1>1, <1>3, <1>4, <1>5

\* Taking over a buffer keeps the types.
LEMMA TransferredTyped ==
    ASSUME Typed, NEW o \in Objects, NEW other \in Live, Transfers(o, other)
    PROVE  Typed'
<1>1. 0 \in Sizes
  BY BitstreamAssumption DEF Sizes
<1>2. ASSUME NEW p \in Live' PROVE objs'[p].m_size \in Sizes
  BY <1>1 DEF Typed, Transfers, Live, Empty
<1> QED
  BY <1>2 DEF Typed, Transfers, Live, Sizes

\* Writing to a buffer changes the value of its owner only.
LEMMA WrittenValues ==
    ASSUME Inv, NEW o \in Live, NEW bits, Write(o, bits)
    PROVE  /\ Live' = Live
           /\ BitValue(o)' = Of(objs[o].m_size, bits)
           /\ \A p \in Live \ {o} : BitValue(p)' = BitValue(p)
<1>1. objs' = objs /\ Live' = Live
  BY DEF Write, Live
<1>2. BitValue(o)' = Of(objs[o].m_size, bits)
  <2>1. CASE objs[o].m_bits = Null
    <3>1. objs[o].m_size = 0
      BY <2>1 DEF Inv, OwnedOnce
    <3> QED
      BY <1>1, <3>1, ValueOf, NoBits
  <2>2. CASE objs[o].m_bits # Null
    <3>1. heap'[objs[o].m_bits] = bits
      BY <2>2 DEF Write, Inv, OwnedOnce
    <3> QED
      BY <1>1, <3>1, ValueOf
  <2> QED
    BY <2>1, <2>2
<1>3. ASSUME NEW p \in Live \ {o} PROVE BitValue(p)' = BitValue(p)
  <2>1. ASSUME objs[p].m_bits # Null
        PROVE  heap'[objs[p].m_bits] = heap[objs[p].m_bits]
    <3>1. objs[p].m_bits \in DOMAIN heap \ {objs[o].m_bits}
      BY <2>1, OwnBuffer DEF Released
    <3> QED
      BY <3>1 DEF Write
  <2> QED
    BY <1>1, <2>1, Kept
<1> QED
  BY <1>1, <1>2, <1>3

\* Writing bits keeps the types.
LEMMA WrittenTyped ==
    ASSUME Inv, Typed, NEW o \in Live, NEW bits, Write(o, bits),
           objs[o].m_bits # Null => DOMAIN bits = Buffer(objs[o].m_size),
           \A i \in Buffer(objs[o].m_size) : bits[i] \in BOOLEAN
    PROVE  Typed'
<1>1. objs' = objs
  BY DEF Write
<1>2. ASSUME NEW b \in DOMAIN heap', NEW i \in DOMAIN heap'[b]
      PROVE  heap'[b][i] \in BOOLEAN
  BY <1>2 DEF Write, Typed
<1> QED
  BY <1>1, <1>2 DEF Typed, Live, Sizes

\* A destructor leaves the other values alone.
LEMMA DestroyedValues ==
    ASSUME Inv, NEW o \in Live, Destroy(o)
    PROVE  /\ Live' = Live \ {o}
           /\ \A p \in Live \ {o} : BitValue(p)' = BitValue(p)
<1>1. Live' = Live \ {o} /\ \A p \in Live \ {o} : objs'[p] = objs[p]
  BY DEF Destroy, Live
<1>2. ASSUME NEW p \in Live \ {o} PROVE BitValue(p)' = BitValue(p)
  <2>1. ASSUME objs[p].m_bits # Null
        PROVE  heap'[objs[p].m_bits] = heap[objs[p].m_bits]
    <3>1. objs[p].m_bits \in DOMAIN heap \ {objs[o].m_bits}
      BY <2>1, OwnBuffer DEF Released
    <3> QED
      BY <3>1 DEF Destroy, Delete
  <2> QED
    BY <1>1, <2>1, Kept
<1> QED
  BY <1>1, <1>2

\* A destructor keeps the types.
LEMMA DestroyedTyped ==
    ASSUME Typed, NEW o \in Live, Destroy(o)
    PROVE  Typed'
BY DEF Typed, Destroy, Delete, Live, Sizes

\* The default constructor makes an empty value and leaves the others alone.
LEMMA ConstructedValues ==
    ASSUME Inv, NEW o, o \notin Live, Construct(o)
    PROVE  /\ Live' = Live \cup {o}
           /\ BitValue(o)' = Values!Nothing
           /\ \A p \in Live : BitValue(p)' = BitValue(p)
<1>1. /\ Live' = Live \cup {o} /\ objs'[o] = Empty /\ heap' = heap
      /\ \A p \in Live : objs'[p] = objs[p]
  BY DEF Construct, Built, Live
<1>2. BitValue(o)' = Values!Nothing
  BY <1>1, ValueOf, NoBits DEF Empty
<1> QED
  BY <1>1, <1>2, Kept

\* The default constructor keeps the types.
LEMMA ConstructedTyped ==
    ASSUME Typed, NEW o \in Objects, Construct(o)
    PROVE  Typed'
<1>1. 0 \in Sizes
  BY BitstreamAssumption DEF Sizes
<1> QED
  BY <1>1 DEF Typed, Construct, Built, Empty, Live, Sizes

-----------------------------------------------------------------------------

(***************************************************************************)
(* What a change of one value is for BitVector: every call that modifies.  *)
(***************************************************************************)

\* The values that live are those of the living objects.
LEMMA SameLive == Values!Live = Live
BY DEF Values!Live

\* The vector of an object is its value.
LEMMA SameVec == ASSUME NEW o \in Live PROVE Vec[o] = BitValue(o)
BY DEF Vec

\* The vector of an object has its size, and its bits in the order of the
\* buffer.
LEMMA SameSize ==
    ASSUME Typed, NEW o \in Live
    PROVE  /\ Values!Size(o) = objs[o].m_size
           /\ BitValue(o).bits = [j \in 1 .. objs[o].m_size |-> Bits(o)[j - 1]]
<1>1. BitValue(o).bits = [j \in 1 .. objs[o].m_size |-> Bits(o)[j - 1]]
  BY DEF BitValue
<1>2. Values!Size(o) = Len(BitValue(o).bits)
  BY DEF Values!Size
<1> QED
  BY <1>1, <1>2, SizeType

\* One vector becomes v, the others are what they were.
Becomes(o, v) ==
    /\ Live' = Live \cup {o}
    /\ BitValue(o)' = v
    /\ \A p \in Live \ {o} : BitValue(p)' = BitValue(p)

\* If one value is replaced, so is one vector.
LEMMA BecomesWith ==
    ASSUME NEW o, NEW v, Becomes(o, v)
    PROVE  Vec' = Values!With(o, v)
<1>1. DOMAIN Vec' = Live \cup {o} /\ DOMAIN Values!With(o, v) = Live \cup {o}
  BY SameLive DEF Becomes, Vec, Values!With
<1>2. ASSUME NEW p \in Live \cup {o} PROVE Vec'[p] = Values!With(o, v)[p]
  <2>1. Vec'[p] = BitValue(p)'
    BY DEF Vec, Becomes
  <2>2. Values!With(o, v)[p] = IF p = o THEN v ELSE BitValue(p)
    BY SameLive DEF Values!With
  <2> QED
    BY <2>1, <2>2 DEF Becomes
<1>3. Vec' = [p \in Live \cup {o} |-> Vec'[p]]
  BY <1>1 DEF Vec
<1>4. Values!With(o, v) = [p \in Live \cup {o} |-> Values!With(o, v)[p]]
  BY <1>1, SameLive DEF Values!With
<1> QED
  BY <1>2, <1>3, <1>4

\* Who gets the value of another one is assigned it.
LEMMA AssignStep ==
    ASSUME NEW o, NEW other \in Live, Becomes(o, BitValue(other))
    PROVE  Values!Assign(o, other)
BY BecomesWith DEF Values!Assign, Vec

\* Who becomes zeros is created.
LEMMA CreateStep ==
    ASSUME NEW o, NEW n \in Sizes, Becomes(o, Values!Vector([i \in 1 .. n |-> FALSE]))
    PROVE  Values!Create(o)
BY BecomesWith DEF Values!Create, Vec, Sizes

\* Who becomes empty is created with no bits.
LEMMA EmptyStep ==
    ASSUME NEW o, Becomes(o, Values!Nothing)
    PROVE  Values!Create(o)
<1>1. <<>> = [i \in 1 .. 0 |-> FALSE]
  OBVIOUS
<1>2. 0 \in Sizes
  BY BitstreamAssumption DEF Sizes
<1> QED
  BY <1>1, <1>2, CreateStep DEF Values!Nothing

\* Who gets the value of another one that is left empty has taken it.
LEMMA TakeStep ==
    ASSUME NEW o, NEW other \in Live, o # other,
           Live' = Live \cup {o},
           BitValue(o)' = BitValue(other),
           BitValue(other)' = Values!Nothing,
           \A p \in Live \ {o, other} : BitValue(p)' = BitValue(p)
    PROVE  Values!Take(o, other)
<1> DEFINE Later(p) == CASE p = o -> Vec[other]
                        [] p = other /\ p # o -> Values!Nothing
                        [] OTHER -> Vec[p]
<1>1. ASSUME NEW p \in Live \cup {o} PROVE Vec'[p] = Later(p)
  <2>1. Vec'[p] = BitValue(p)'
    BY DEF Vec
  <2>2. CASE p = o
    BY <2>1, <2>2, SameVec
  <2>3. CASE p = other
    BY <2>1, <2>3
  <2>4. CASE p # o /\ p # other
    <3>1. p \in Live
      BY <2>4
    <3> QED
      BY <2>1, <2>4, <3>1, SameVec
  <2> QED
    BY <2>2, <2>3, <2>4
<1>2. Vec' = [p \in Live \cup {o} |-> Vec'[p]]
  BY DEF Vec
<1>3. Vec' = [p \in Live \cup {o} |-> Later(p)]
  <2> HIDE DEF Later
  <2> QED
    BY <1>1, <1>2
<1> QED
  BY <1>3, SameLive DEF Values!Take, Vec

\* A value that is gone is dropped.
LEMMA DropStep ==
    ASSUME NEW o \in Live, Live' = Live \ {o},
           \A p \in Live \ {o} : BitValue(p)' = BitValue(p)
    PROVE  Values!Drop(o)
<1>1. Vec' = [p \in Live \ {o} |-> BitValue(p)]
  BY DEF Vec
<1>2. [p \in Live \ {o} |-> Vec[p]] = [p \in Live \ {o} |-> BitValue(p)]
  BY SameVec
<1> QED
  BY <1>1, <1>2, SameLive DEF Values!Drop, Vec

\* A value of which some bits are written is updated.
LEMMA UpdateStep ==
    ASSUME Typed, NEW o \in Live, NEW changed, NEW to,
           Becomes(o, Changed(BitValue(o), objs[o].m_size, changed, to))
    PROVE  Values!Update(o, changed, to)
<1> DEFINE n == objs[o].m_size
           v == Changed(BitValue(o), n, changed, to)
           W == [Vec EXCEPT ![o] = v]
<1>1. Vec' = [p \in Live |-> IF p = o THEN v ELSE BitValue(p)]
  <2>1. Becomes(o, v)
    OBVIOUS
  <2> HIDE DEF v
  <2> QED
    BY <2>1 DEF Becomes, Vec
<1>2. W = [p \in Live |-> IF p = o THEN v ELSE BitValue(p)]
  <2> HIDE DEF v
  <2> QED
    BY DEF Vec
<1>3. Values!Size(o) = n
  BY SameSize
<1>4. [Vec EXCEPT ![o].bits = [i \in 1 .. n |-> IF i \in changed THEN to[i] ELSE @[i]]]
        = [Vec EXCEPT ![o] = Changed(Vec[o], n, changed, to)]
  BY DEF Changed
<1>5. Changed(Vec[o], n, changed, to) = v
  BY SameVec
<1> HIDE DEF v
<1> QED
  BY <1>1, <1>2, <1>3, <1>4, <1>5 DEF Values!Update, Vec

\* A new buffer with the bits of another object has its value.
LEMMA CopiedValue ==
    ASSUME Inv, Typed, NEW o \in Objects, NEW other \in Live, NEW a,
           Reallocates(o, objs[other].m_size, a),
           \A i \in Buffer(objs[other].m_size) :
               heap'[a][i] = Copied(other, objs[other].m_size, i)
    PROVE  Typed' /\ Becomes(o, BitValue(other))
<1> DEFINE n == objs[other].m_size
<1>1. n \in Sizes
  BY DEF Typed
<1>2. \A i \in Buffer(n) : heap'[a][i] \in BOOLEAN
  BY DEF Copied
<1>3. Typed'
  BY <1>1, <1>2, ReallocatedTyped
<1>4. Of(n, heap'[a]) = BitValue(other)
  <2>1. CASE objs[other].m_bits = Null
    <3>1. n = 0
      BY <2>1 DEF Inv, OwnedOnce
    <3> QED
      BY <3>1, NoBits, ValueOf
  <2>2. CASE objs[other].m_bits # Null
    <3>1. \A i \in Buffer(n) : heap'[a][i] = Bits(other)[i]
      BY <2>2, BitType DEF Copied
    <3>2. Of(n, heap'[a]) = Of(n, Bits(other))
      <4> HIDE DEF n
      <4> QED
        BY <3>1, <1>1, BitstreamAssumption, SameBits DEF Sizes
    <3> QED
      BY <3>2, ValueOf
  <2> QED
    BY <2>1, <2>2
<1> QED
  BY <1>3, <1>4, ReallocatedValues DEF Becomes

\* Every constructor and the destructor do what values do.
LEMMA LifetimeStep ==
    ASSUME Inv, Typed, Lifetime
    PROVE  Typed' /\ result' = <<>> /\ \E o \in Objects : Values!Silent(o)
<1>1. ASSUME NEW o \in Objects \ Live, Construct(o)
      PROVE  Typed' /\ result' = <<>> /\ Values!Silent(o)
  <2>1. Becomes(o, Values!Nothing)
    BY <1>1, ConstructedValues DEF Becomes
  <2>2. Values!Silent(o)
    BY <2>1, EmptyStep, SameLive DEF Values!Silent
  <2> QED
    BY <1>1, <2>2, ConstructedTyped DEF Construct
<1>2. ASSUME NEW o \in Objects \ Live, NEW n \in Sizes, ConstructSized(o, n)
      PROVE  Typed' /\ result' = <<>> /\ Values!Silent(o)
  <2>1. PICK a : Reallocates(o, n, a) /\ Cleared(n, heap'[a])
    BY <1>2, SizedEffect
  <2>2. Typed'
    BY <2>1, ReallocatedTyped DEF Cleared
  <2>3. Of(n, heap'[a]) = Values!Vector([i \in 1 .. n |-> FALSE])
    BY <2>1, ZeroBits, BitstreamAssumption DEF Sizes
  <2>4. Becomes(o, Values!Vector([i \in 1 .. n |-> FALSE]))
    BY <2>1, <2>3, ReallocatedValues DEF Becomes
  <2>5. Values!Silent(o)
    BY <2>4, CreateStep, SameLive DEF Values!Silent
  <2> QED
    BY <1>2, <2>2, <2>5 DEF ConstructSized
<1>3. ASSUME NEW o \in Objects \ Live, NEW other \in Live, MoveConstruct(o, other)
      PROVE  Typed' /\ result' = <<>> /\ Values!Silent(o)
  <2>1. Transfers(o, other) /\ o # other
    BY <1>3, MoveConstructEffect
  <2>2. Values!Take(o, other)
    BY <2>1, TransferredValues, TakeStep
  <2>3. Values!Silent(o)
    BY <2>2, SameLive DEF Values!Silent
  <2> QED
    BY <1>3, <2>1, <2>3, TransferredTyped DEF MoveConstruct
<1>4. ASSUME NEW o \in Objects \ Live, NEW other \in Live, CopyConstruct(o, other)
      PROVE  Typed' /\ result' = <<>> /\ Values!Silent(o)
  <2>1. Typed' /\ Becomes(o, BitValue(other))
    BY <1>4, CopyConstructEffect, CopiedValue
  <2>2. Values!Silent(o)
    BY <2>1, AssignStep, SameLive DEF Values!Silent
  <2> QED
    BY <1>4, <2>1, <2>2 DEF CopyConstruct
<1>5. ASSUME NEW o \in Live, Destroy(o)
      PROVE  Typed' /\ result' = <<>> /\ Values!Silent(o) /\ o \in Objects
  <2>1. Values!Drop(o)
    BY <1>5, DestroyedValues, DropStep
  <2>2. Values!Silent(o)
    BY <2>1, SameLive DEF Values!Silent
  <2> QED
    BY <1>5, <2>2, DestroyedTyped DEF Destroy, Typed
<1> QED
  BY <1>1, <1>2, <1>3, <1>4, <1>5 DEF Lifetime

\* An object that is assigned to itself.
LEMMA SelfStep ==
    ASSUME NEW o \in Live, UNCHANGED <<objs, heap>>
    PROVE  Values!Assign(o, o)
<1>1. Becomes(o, BitValue(o))
  BY DEF Becomes, BitValue, Tidy, Bits, Live, Buffer, Bytes
<1> QED
  BY <1>1, AssignStep

\* The types only depend on the objects and the buffers.
LEMMA StillTyped == ASSUME Typed, UNCHANGED <<objs, heap>> PROVE Typed'
BY DEF Typed, Live, Sizes

\* Both assignments do what values do, to oneself as well.
LEMMA AssignmentStep ==
    ASSUME Inv, Typed, NEW o \in Live, NEW other \in Live,
           MoveAssign(o, other) \/ CopyAssign(o, other)
    PROVE  Typed' /\ result' = <<>> /\ Values!Silent(o)
<1>1. CASE o = other /\ UNCHANGED <<objs, heap>>
  <2>1. Values!Silent(o)
    BY <1>1, SelfStep, SameLive DEF Values!Silent
  <2> QED
    BY <1>1, <2>1, StillTyped DEF MoveAssign, CopyAssign
<1>2. CASE MoveAssign(o, other) /\ o # other
  <2>1. Transfers(o, other)
    BY <1>2, MoveAssignEffect
  <2>2. Values!Take(o, other)
    BY <1>2, <2>1, TransferredValues, TakeStep
  <2>3. Values!Silent(o)
    BY <2>2, SameLive DEF Values!Silent
  <2> QED
    BY <1>2, <2>1, <2>3, TransferredTyped DEF MoveAssign, Typed
<1>3. CASE CopyAssign(o, other) /\ ~(o = other /\ UNCHANGED <<objs, heap>>)
  <2>1. PICK a :
           /\ Reallocates(o, objs[other].m_size, a)
           /\ \A i \in Buffer(objs[other].m_size) :
                 heap'[a][i] = Copied(other, objs[other].m_size, i)
    BY <1>3, CopyAssignEffect
  <2>2. o \in Objects
    BY DEF Typed
  <2>3. Typed' /\ Becomes(o, BitValue(other))
    BY <2>1, <2>2, CopiedValue
  <2>4. Values!Silent(o)
    BY <2>3, AssignStep, SameLive DEF Values!Silent
  <2> QED
    BY <1>3, <2>3, <2>4 DEF CopyAssign
<1> QED
  BY <1>1, <1>2, <1>3 DEF MoveAssign

\* The new buffer of resize(): the bits up to the smaller size, with the rest of
\* the last byte.
LEMMA ResizedBits ==
    ASSUME Inv, Typed, NEW o \in Live, NEW n \in Sizes, NEW a,
           \A i \in Buffer(n) : heap'[a][i] = Copied(o, Least(objs[o].m_size, n), i)
    PROVE  \A i \in Buffer(n) :
              heap'[a][i] = (/\ i \in Buffer(objs[o].m_size)
                             /\ objs[o].m_bits # Null
                             /\ Bits(o)[i])
<1> DEFINE m == objs[o].m_size
<1>1. m \in Nat /\ n \in Nat
  BY SizeType, BitstreamAssumption DEF Sizes
<1>2. ASSUME NEW i \in Buffer(n)
      PROVE  i \in Buffer(Least(m, n)) <=> i \in Buffer(m)
  <2>1. CASE m < n
    BY <2>1 DEF Least
  <2>2. CASE ~(m < n)
    <3>1. Bytes(n) * BITS <= Bytes(m) * BITS
      BY <1>1, <2>2, BufferGrows
    <3>2. Bytes(n) * BITS \in Nat /\ Bytes(m) * BITS \in Nat
      BY <1>1, BufferHolds
    <3>3. i \in Buffer(m)
      BY <1>2, <3>1, <3>2 DEF Buffer
    <3> QED
      BY <1>2, <2>2, <3>3 DEF Least
  <2> QED
    BY <2>1, <2>2
<1> HIDE DEF m
<1>3. \A i \in Buffer(n) : heap'[a][i] = Copied(o, Least(m, n), i)
  BY DEF m
<1>4. \A i \in Buffer(n) : heap'[a][i] = (/\ i \in Buffer(m)
                                          /\ objs[o].m_bits # Null
                                          /\ Bits(o)[i])
  BY <1>2, <1>3 DEF Copied
<1> QED
  BY <1>4 DEF m

\* A stream that grows keeps its bits; only bits cut off before may come back.
LEMMA GrowStep ==
    ASSUME Inv, Typed, NEW o \in Live, NEW n \in Sizes, NEW a,
           Reallocates(o, n, a), n > objs[o].m_size,
           \A i \in Buffer(n) :
               heap'[a][i] = (/\ i \in Buffer(objs[o].m_size)
                              /\ objs[o].m_bits # Null
                              /\ Bits(o)[i])
    PROVE  Values!Grow(o, n)
<1> DEFINE m == objs[o].m_size
           last == Bytes(m) * BITS
<1>1. m \in Nat /\ n \in Nat /\ n > m
  BY SizeType, BitstreamAssumption DEF Sizes
<1>2. /\ Live' = Live \cup {o} /\ Live' = Live
      /\ BitValue(o)' = Of(n, heap'[a])
      /\ \A p \in Live \ {o} : BitValue(p)' = BitValue(p)
  BY ReallocatedValues
<1>3. /\ BitValue(o)'.bits = [j \in 1 .. n |-> heap'[a][j - 1]]
      /\ BitValue(o)'.tidy = \A i \in Buffer(n) \ (0 .. n - 1) : ~heap'[a][i]
  BY <1>2 DEF Of
<1>4. /\ BitValue(o).bits = [j \in 1 .. m |-> Bits(o)[j - 1]]
      /\ BitValue(o).tidy = \A i \in Buffer(m) \ (0 .. m - 1) : ~Bits(o)[i]
  BY DEF BitValue, Tidy
<1>5. last \in Nat /\ m <= last /\ Buffer(m) = 0 .. last - 1
  BY <1>1, BufferHolds DEF Buffer
<1>6. objs[o].m_bits = Null => m = 0 /\ last = 0
  <2>1. objs[o].m_bits = Null => m = 0
    BY DEF Inv, OwnedOnce
  <2>2. 0 % BITS = 0
    BY BitstreamAssumption
  <2> QED
    BY <2>1, <2>2, BufferHolds
<1>7. ((Values!Size(o) + BITS - 1) \div BITS) * BITS = last
  <2>1. Values!Size(o) = m
    BY SameSize
  <2>2. m + BITS - 1 = m + (BITS - 1)
    BY <1>1, BitstreamAssumption
  <2> QED
    BY <2>1, <2>2 DEF Bytes
<1> HIDE DEF last, m
<1>8. \A i \in Buffer(n) : heap'[a][i] = (/\ i \in 0 .. last - 1
                                          /\ objs[o].m_bits # Null
                                          /\ Bits(o)[i])
  BY <1>5 DEF m
<1>9. \A i \in 0 .. last - 1 : objs[o].m_bits # Null => Bits(o)[i] \in BOOLEAN
  BY <1>5, BitType DEF m
<1>10. Len(BitValue(o)'.bits) = n
  BY <1>1, <1>3
<1>11. ASSUME NEW i \in 1 .. n
       PROVE  \/ i <= m /\ BitValue(o)'.bits[i] = BitValue(o).bits[i]
              \/ i > m /\ ~BitValue(o)'.bits[i]
              \/ i > m /\ i <= last /\ ~BitValue(o).tidy
  <2>1. i - 1 \in Buffer(n)
    BY <1>1, WithinBytes
  <2>2. BitValue(o)'.bits[i] = heap'[a][i - 1]
    BY <1>3
  <2>3. CASE i <= m
    <3>1. i - 1 \in 0 .. last - 1 /\ objs[o].m_bits # Null
      BY <1>1, <1>5, <1>6, <2>3
    <3>2. heap'[a][i - 1] = Bits(o)[i - 1]
      BY <1>8, <1>9, <2>1, <3>1
    <3>3. BitValue(o).bits[i] = Bits(o)[i - 1]
      BY <1>1, <1>4, <2>3
    <3> QED
      BY <2>2, <2>3, <3>2, <3>3
  <2>4. CASE i > m /\ heap'[a][i - 1]
    <3>1. i - 1 \in 0 .. last - 1 /\ Bits(o)[i - 1]
      BY <1>8, <2>1, <2>4
    <3>2. i - 1 \in Buffer(m) \ (0 .. m - 1)
      BY <1>1, <1>5, <2>4, <3>1
    <3> QED
      BY <1>1, <1>4, <1>5, <2>4, <3>1, <3>2
  <2>5. CASE i > m /\ ~heap'[a][i - 1]
    BY <2>2, <2>5
  <2> QED
    BY <1>1, <2>3, <2>4, <2>5
<1>12. ASSUME BitValue(o).tidy \/ n >= last
       PROVE  BitValue(o)'.tidy
  <2>1. ASSUME NEW i \in Buffer(n) \ (0 .. n - 1), heap'[a][i]
        PROVE  FALSE
    <3>1. i \in 0 .. last - 1 /\ Bits(o)[i]
      BY <1>8, <2>1
    <3>2. i >= n
      BY <1>1, <1>5, <2>1, <3>1
    <3>3. BitValue(o).tidy
      BY <1>1, <1>5, <1>12, <3>1, <3>2
    <3>4. i \in Buffer(m) \ (0 .. m - 1)
      BY <1>1, <1>5, <3>1, <3>2
    <3> QED
      BY <1>4, <3>1, <3>3, <3>4
  <2> QED
    BY <1>3, <2>1
<1>13. Vec'[o] = BitValue(o)' /\ Vec[o] = BitValue(o) /\ DOMAIN Vec' = Live
  BY <1>2 DEF Vec
<1>14. \A p \in Live \ {o} : Vec'[p] = Vec[p]
  BY <1>2 DEF Vec
<1>15. Values!Size(o) = m
  BY SameSize DEF m
<1> QED
  BY <1>1, <1>7, <1>10, <1>11, <1>12, <1>13, <1>14, <1>15, SameLive
     DEF Values!Grow, Vec

\* A stream that shrinks keeps its first bits, and is tidy if cut between
\* bytes.
LEMMA ShrinkStep ==
    ASSUME Inv, Typed, NEW o \in Live, NEW n \in Sizes, NEW a,
           Reallocates(o, n, a), n < objs[o].m_size,
           \A i \in Buffer(n) :
               heap'[a][i] = (/\ i \in Buffer(objs[o].m_size)
                              /\ objs[o].m_bits # Null
                              /\ Bits(o)[i])
    PROVE  Values!Shrink(o, n)
<1> DEFINE m == objs[o].m_size
           tidy == \A i \in Buffer(n) \ (0 .. n - 1) : ~heap'[a][i]
           old == [j \in 1 .. m |-> Bits(o)[j - 1]]
<1>1. m \in Nat /\ n \in Nat /\ n < m
  BY SizeType, BitstreamAssumption DEF Sizes
<1>2. BitValue(o)' = [bits |-> [j \in 1 .. n |-> heap'[a][j - 1]], tidy |-> tidy]
  BY ReallocatedValues DEF Of
<1>3. n % BITS = 0 => tidy
  BY <1>1, BufferHolds DEF Buffer
<1>4. objs[o].m_bits # Null
  BY <1>1 DEF Inv, OwnedOnce
<1>5. \A j \in 1 .. n : heap'[a][j - 1] = Bits(o)[j - 1]
  <2> SUFFICES ASSUME NEW j \in 1 .. n
               PROVE  heap'[a][j - 1] = Bits(o)[j - 1]
    OBVIOUS
  <2>1. j - 1 \in Buffer(n)
    BY <1>1, WithinBytes
  <2>2. j - 1 \in Buffer(m)
    BY <1>1, WithinBytes
  <2> QED
    BY <1>4, <2>1, <2>2, BitType
<1>6. SubSeq(old, 1, n) = [j \in 1 .. n |-> Bits(o)[j - 1]]
  <2> DEFINE S == {old[i] : i \in 1 .. n}
  <2>1. \A i \in 1 .. n : old[i] \in S
    OBVIOUS
  <2>2. n \in Int /\ 1 \in Int
    BY <1>1
  <2>3. /\ SubSeq(old, 1, n) \in Seq(S)
        /\ Len(SubSeq(old, 1, n)) = n
        /\ \A i \in 1 .. n : SubSeq(old, 1, n)[i] = old[i]
    <3> HIDE DEF S, old
    <3>1. /\ SubSeq(old, 1, n) \in Seq(S)
          /\ Len(SubSeq(old, 1, n)) = IF 1 <= n THEN n - 1 + 1 ELSE 0
          /\ \A i \in 1 .. n - 1 + 1 : SubSeq(old, 1, n)[i] = old[1 + i - 1]
      BY <2>1, <2>2, SubSeqProperties
    <3>2. /\ (IF 1 <= n THEN n - 1 + 1 ELSE 0) = n
          /\ n - 1 + 1 = n
          /\ \A i \in 1 .. n : 1 + i - 1 = i
      BY <1>1
    <3> QED
      BY <3>1, <3>2
  <2>4. SubSeq(old, 1, n) = [j \in 1 .. n |-> SubSeq(old, 1, n)[j]]
    <3> HIDE DEF S, old
    <3> QED
      BY <2>3
  <2>5. \A j \in 1 .. n : old[j] = Bits(o)[j - 1]
    BY <1>1
  <2> HIDE DEF old
  <2> QED
    BY <2>3, <2>4, <2>5
<1>7. BitValue(o).bits = old /\ Values!Size(o) = m
  BY SameSize
<1>8. Becomes(o, [bits |-> SubSeq(old, 1, n), tidy |-> tidy])
  <2> HIDE DEF tidy, old
  <2> QED
    BY <1>2, <1>5, <1>6, ReallocatedValues DEF Becomes
<1>9. tidy \in BOOLEAN
  OBVIOUS
<1> HIDE DEF tidy, old, m
<1> QED
  BY <1>1, <1>3, <1>7, <1>8, <1>9, BecomesWith, SameVec DEF Values!Shrink, Vec

\* resize() does what values do.
LEMMA ResizeStep ==
    ASSUME Inv, Typed, NEW o \in Live, NEW n \in Sizes, Resize(o, n)
    PROVE  Typed' /\ result' = <<>> /\ Values!Silent(o)
<1>1. result' = <<>>
  BY DEF Resize
<1>2. CASE UNCHANGED <<objs, heap>>
  BY <1>1, <1>2, SelfStep, StillTyped, SameLive DEF Values!Silent
<1>3. CASE ~UNCHANGED <<objs, heap>>
  <2>1. objs[o].m_size # n
    BY <1>3, ResizeEffect
  <2>2. PICK a : /\ Reallocates(o, n, a)
                 /\ \A i \in Buffer(n) :
                       heap'[a][i] = Copied(o, Least(objs[o].m_size, n), i)
    BY <1>3, ResizeEffect
  <2>3. Typed'
    <3>1. \A i \in Buffer(n) : heap'[a][i] \in BOOLEAN
      BY <2>2 DEF Copied
    <3> QED
      BY <2>2, <3>1, ReallocatedTyped DEF Typed
  <2>4. \A i \in Buffer(n) :
              heap'[a][i] = (/\ i \in Buffer(objs[o].m_size)
                             /\ objs[o].m_bits # Null
                             /\ Bits(o)[i])
    BY <2>2, ResizedBits
  <2>5. n < objs[o].m_size \/ n > objs[o].m_size
    BY <2>1, SizeType, BitstreamAssumption DEF Sizes
  <2>6. Values!Grow(o, n) \/ Values!Shrink(o, n)
    BY <2>2, <2>4, <2>5, GrowStep, ShrinkStep
  <2> QED
    BY <1>1, <2>3, <2>6, SameLive DEF Values!Silent, Sizes
<1> QED
  BY <1>2, <1>3

\* A function that writes bits of the stream and keeps the others updates its
\* value.
LEMMA WriteStep ==
    ASSUME Inv, Typed, NEW o \in Live, NEW bits, Write(o, bits),
           objs[o].m_bits # Null => DOMAIN bits = Buffer(objs[o].m_size),
           NEW changed, NEW to, \A j \in changed : to[j] \in BOOLEAN,
           Differs(objs[o].m_size, Bits(o), bits, changed, to)
    PROVE  Typed' /\ Values!Update(o, changed, to)
<1> DEFINE n == objs[o].m_size
<1>1. n \in Nat
  BY SizeType
<1>2. \A i \in Buffer(n) : objs[o].m_bits # Null
  <2>1. objs[o].m_bits = Null => n = 0
    BY DEF Inv, OwnedOnce
  <2>2. 0 % BITS = 0
    BY BitstreamAssumption
  <2>3. Buffer(0) = {}
    BY <2>2, BufferHolds DEF Buffer
  <2> QED
    BY <2>1, <2>3
<1>3. \A i \in Buffer(n) : Bits(o)[i] \in BOOLEAN
  BY <1>2, BitType
<1>4. \A i \in Buffer(n) : bits[i] \in BOOLEAN
  BY <1>3 DEF Differs
<1>5. Typed'
  BY <1>4, WrittenTyped
<1>6. Of(n, bits) = Changed(Of(n, Bits(o)), n, changed, to)
  <2>1. Differs(n, Bits(o), bits, changed, to)
    OBVIOUS
  <2> HIDE DEF n
  <2> QED
    BY <1>1, <2>1, ChangedBits
<1>7. Becomes(o, Changed(BitValue(o), n, changed, to))
  <2>1. BitValue(o)' = Of(n, bits) /\ BitValue(o) = Of(n, Bits(o))
    BY WrittenValues, ValueOf
  <2>2. Live' = Live \cup {o} /\ \A p \in Live \ {o} : BitValue(p)' = BitValue(p)
    BY WrittenValues
  <2> HIDE DEF n
  <2> QED
    BY <1>6, <2>1, <2>2 DEF Becomes
<1> QED
  BY <1>5, <1>7, UpdateStep

\* clear() makes zeros, and a tidy value of any.
LEMMA ClearStep ==
    ASSUME Inv, Typed, NEW o \in Live, Clear(o)
    PROVE  Typed' /\ result' = <<>> /\ Values!Modify(o)
<1> DEFINE n == objs[o].m_size
<1>1. n \in Nat
  BY SizeType
<1>2. Write(o, Zero(n)) /\ DOMAIN Zero(n) = Buffer(n) /\ Cleared(n, Zero(n))
  BY DEF Clear, Zero, Cleared
<1>3. Typed'
  BY <1>2, WrittenTyped DEF Cleared
<1>4. Of(n, Zero(n)) = Values!Vector([i \in 1 .. n |-> FALSE])
  BY <1>1, <1>2, ZeroBits
<1>5. Becomes(o, Values!Vector([i \in 1 .. n |-> FALSE]))
  BY <1>2, <1>4, WrittenValues DEF Becomes
<1>6. Values!Size(o) = n
  BY SameSize
<1> HIDE DEF n
<1>7. Vec' = Values!With(o, Values!Vector([i \in 1 .. n |-> FALSE]))
  BY <1>5, BecomesWith
<1> QED
  BY <1>2, <1>3, <1>6, <1>7 DEF Values!Modify, Vec, Write

\* Writing one bit updates it.
LEMMA OneBitStep ==
    ASSUME Inv, Typed, NEW o \in Live, NEW k \in Nat, k < objs[o].m_size,
           NEW value \in BOOLEAN, Write(o, [Bits(o) EXCEPT ![k] = value])
    PROVE  Typed' /\ result' = <<>> /\ Values!Modify(o)
<1> DEFINE n == objs[o].m_size
           bits == [Bits(o) EXCEPT ![k] = value]
           to == [j \in {k + 1} |-> value]
<1>1. n \in Nat /\ k + 1 \in 1 .. n
  BY SizeType
<1>2. objs[o].m_bits # Null
  BY <1>1 DEF Inv, OwnedOnce
<1>3. DOMAIN Bits(o) = Buffer(n)
  BY <1>2 DEF Inv, OwnedOnce
<1>4. DOMAIN bits = Buffer(n)
  BY <1>3
<1>5. Differs(n, Bits(o), bits, {k + 1}, to)
  <2>1. Bytes(n) * BITS \in Nat
    BY <1>1, BufferHolds
  <2>2. \A i \in Buffer(n) : i \in Int
    BY <2>1 DEF Buffer
  <2>3. \A i \in Buffer(n) : bits[i] = IF i = k THEN value ELSE Bits(o)[i]
    BY <1>3
  <2>4. \A i \in Buffer(n) : i + 1 \in {k + 1} <=> i = k
    BY <2>2
  <2>5. \A i \in Buffer(n) : i + 1 \in {k + 1} => to[i + 1] = value
    OBVIOUS
  <2> HIDE DEF bits, to, n
  <2> QED
    BY <1>1, <2>3, <2>4, <2>5 DEF Differs
<1>6. \A j \in {k + 1} : to[j] \in BOOLEAN
  OBVIOUS
<1>7. Write(o, bits)
  OBVIOUS
<1>8. Typed' /\ Values!Update(o, {k + 1}, to)
  <2> HIDE DEF bits, to
  <2> QED
    BY <1>4, <1>5, <1>6, <1>7, WriteStep
<1>9. Values!Size(o) = n
  BY SameSize
<1>10. Values!Modify(o)
  BY <1>1, <1>8, <1>9 DEF Values!Modify
<1> QED
  BY <1>8, <1>10 DEF Write

\* The numbers and the memory that clients hand over are the patterns of the
\* abstract specification.
LEMMA NumberPattern ==
    ASSUME NEW N \in Nat, NEW k \in 0 .. 1
    PROVE  LET val == [i \in 0 .. N - 1 |-> (i + k) % 2 = 0]
               pattern == [i \in 1 .. N |-> (i + k) % 2 = 1]
           IN  /\ pattern \in Values!Patterns(N)
               /\ \A i \in 1 .. N : /\ pattern[i] = val[i - 1]
                                    /\ pattern[i] \in BOOLEAN
<1> DEFINE val == [i \in 0 .. N - 1 |-> (i + k) % 2 = 0]
           pattern == [i \in 1 .. N |-> (i + k) % 2 = 1]
<1>1. pattern \in Values!Patterns(N)
  BY DEF Values!Patterns
<1>2. ASSUME NEW i \in 1 .. N
      PROVE  pattern[i] = val[i - 1] /\ pattern[i] \in BOOLEAN
  <2>1. ((i + k) % 2 = 1) <=> ((i - 1 + k) % 2 = 0)
    OBVIOUS
  <2>2. pattern[i] = ((i + k) % 2 = 1) /\ val[i - 1] = ((i - 1 + k) % 2 = 0)
    OBVIOUS
  <2> QED
    BY <2>1, <2>2
<1> QED
  BY <1>1, <1>2

\* The smaller of two numbers.
LEMMA LeastType ==
    ASSUME NEW m \in Nat, NEW n \in Nat
    PROVE  Least(m, n) \in Nat /\ Least(m, n) <= m /\ Least(m, n) <= n
BY DEF Least

\* Assigning a number updates the bits asked for, with zeros beyond its width.
LEMMA NumberStep ==
    ASSUME Inv, Typed, NEW o \in Live, NEW val \in Numbers, NEW b \in Sizes,
           AssignNumber(o, val, b)
    PROVE  Typed' /\ result' = <<>> /\ Values!Modify(o)
<1> DEFINE m == objs[o].m_size
           n == Least(m, b)
           bits == [i \in Buffer(m) |-> IF i < n THEN i < WORD /\ val[i] ELSE Bits(o)[i]]
<1>1. m \in Nat /\ n \in Nat /\ n <= m /\ WORD \in Nat
  <2>1. m \in Nat /\ b \in Nat /\ WORD \in Nat
    BY SizeType, BitstreamAssumption DEF Sizes
  <2> HIDE DEF m
  <2> QED
    BY <2>1, LeastType
<1>2. PICK k \in 0 .. 1 : val = [i \in 0 .. WORD - 1 |-> (i + k) % 2 = 0]
  BY DEF Numbers
<1>3. PICK number \in Values!Patterns(WORD) :
         \A i \in 1 .. WORD : number[i] = val[i - 1] /\ number[i] \in BOOLEAN
  <2>1. /\ [i \in 1 .. WORD |-> (i + k) % 2 = 1] \in Values!Patterns(WORD)
        /\ \A i \in 1 .. WORD :
              /\ [j \in 1 .. WORD |-> (j + k) % 2 = 1][i] = val[i - 1]
              /\ [j \in 1 .. WORD |-> (j + k) % 2 = 1][i] \in BOOLEAN
    BY <1>1, <1>2, NumberPattern
  <2> QED
    BY <2>1
<1> DEFINE to == [i \in 1 .. n |-> i <= WORD /\ number[i]]
<1>4. Write(o, bits) /\ DOMAIN bits = Buffer(m)
  BY DEF AssignNumber
<1>5. \A j \in 1 .. n : to[j] \in BOOLEAN
  OBVIOUS
<1>6. Differs(m, Bits(o), bits, 1 .. n, to)
  <2>1. 1 .. n \subseteq 1 .. m
    BY <1>1
  <2>2. Bytes(m) * BITS \in Nat
    BY <1>1, BufferHolds
  <2>3. ASSUME NEW i \in Buffer(m)
        PROVE  bits[i] = IF i + 1 \in 1 .. n THEN to[i + 1] ELSE Bits(o)[i]
    <3>1. i \in Nat
      BY <2>2 DEF Buffer
    <3>2. CASE i < n
      <4>1. i + 1 \in 1 .. n
        BY <1>1, <3>1, <3>2
      <4>2. bits[i] = (i < WORD /\ val[i])
        BY <3>2
      <4>3. to[i + 1] = (i + 1 <= WORD /\ number[i + 1])
        BY <4>1
      <4>4. i < WORD => number[i + 1] = val[i] /\ number[i + 1] \in BOOLEAN
        BY <1>1, <1>3, <3>1
      <4>5. i < WORD <=> i + 1 <= WORD
        BY <1>1, <3>1
      <4>6. bits[i] = to[i + 1]
        <5> HIDE DEF bits, to
        <5> QED
          BY <4>2, <4>3, <4>4, <4>5
      <4> QED
        BY <4>1, <4>6
    <3>3. CASE ~(i < n)
      BY <1>1, <3>1, <3>3
    <3> QED
      BY <3>2, <3>3
  <2> HIDE DEF bits, to, n, m
  <2> QED
    BY <2>1, <2>3 DEF Differs
<1>7. Typed' /\ Values!Update(o, 1 .. n, to)
  <2> HIDE DEF bits, to, n
  <2> QED
    BY <1>4, <1>5, <1>6, WriteStep
<1>8. Values!Size(o) = m
  BY SameSize
<1> HIDE DEF n, m, bits
<1>9. n \in 0 .. Values!Size(o)
  BY <1>1, <1>8
<1>10. Values!Modify(o)
  BY <1>7, <1>9 DEF Values!Modify
<1> QED
  BY <1>4, <1>7, <1>10 DEF Write

\* The bits that a transfer of n bits from or to memory moves.
LEMMA MovedBits ==
    ASSUME NEW n \in Nat
    PROVE  /\ Values!Reached(n) \subseteq 1 .. n
           /\ \A i \in Nat : i + 1 \in Values!Reached(n)
                               <=> i < (n \div BITS) * BITS \/ i < n % BITS
<1> DEFINE w == (n \div BITS) * BITS
           r == n % BITS
<1>1. w \in Nat /\ w <= n /\ r = n - w /\ r < BITS /\ BITS \in Nat
  <2>1. w \in Nat /\ w <= n /\ n < w + BITS /\ r = n - w /\ BITS \in Nat
    BY Division, BitstreamAssumption
  <2> HIDE DEF w, r
  <2> QED
    BY <2>1
<1>2. CASE n < BITS
  <2>1. w = 0
    <3>1. n \div BITS = 0
      <4>1. n \div BITS \in Nat /\ (n \div BITS) * BITS < 0 * BITS + BITS
        <5>1. n \div BITS \in Nat /\ 0 * BITS = 0
          BY <1>1, Division
        <5>2. w < BITS
          <6> HIDE DEF w
          <6> QED
            BY <1>1, <1>2
        <5> QED
          BY <1>1, <5>1, <5>2
      <4> QED
        BY <4>1, Apart
    <3> QED
      BY <1>1, <3>1
  <2>2. Values!Reached(n) = 1 .. n
    BY <1>2 DEF Values!Reached
  <2> HIDE DEF w, r
  <2>3. \A i \in Nat : i + 1 \in 1 .. n <=> i < w \/ i < r
    BY <1>1, <2>1
  <2> QED
    BY <2>2, <2>3 DEF w, r
<1>3. CASE ~(n < BITS)
  <2>1. Values!Reached(n) = 1 .. w
    BY <1>3 DEF Values!Reached
  <2>2. w >= BITS
    <3>1. n \div BITS \in Nat /\ n < (n \div BITS) * BITS + BITS
      BY Division
    <3>2. n \div BITS # 0
      <4>1. CASE n \div BITS = 0
        <5>1. (n \div BITS) * BITS = 0
          BY <1>1, <4>1
        <5> QED
          BY <1>1, <1>3, <3>1, <5>1
      <4> QED
        BY <4>1
    <3>3. 1 <= n \div BITS
      BY <3>1, <3>2
    <3> DEFINE q == n \div BITS
    <3>4. PICK d \in Nat : q = 1 + d
      <4>1. q - 1 \in Nat
        BY <3>1, <3>3
      <4> QED
        BY <3>1, <4>1
    <3>5. q * BITS = BITS + d * BITS /\ d * BITS \in Nat
      BY <1>1, <3>4
    <3> QED
      BY <1>1, <3>5
  <2> HIDE DEF w, r
  <2>3. \A i \in Nat : i + 1 \in 1 .. w <=> i < w \/ i < r
    BY <1>1, <2>2
  <2>4. 1 .. w \subseteq 1 .. n
    BY <1>1
  <2> QED
    BY <2>1, <2>3, <2>4 DEF w, r
<1> QED
  BY <1>2, <1>3

\* Assigning memory updates the bits that a transfer reaches.
LEMMA MemoryStep ==
    ASSUME Inv, Typed, NEW o \in Live, NEW src \in Memory, NEW b \in Sizes,
           AssignMemory(o, src, b)
    PROVE  Typed' /\ result' = <<>> /\ Values!Modify(o)
<1> DEFINE m == objs[o].m_size
           n == Least(m, b)
           bits == [i \in Buffer(m) |-> Moved(n, Bits(o), src, i)]
<1>1. m \in Nat /\ n \in Nat /\ n <= m /\ n <= MaxSize /\ MaxSize \in Nat
  <2>1. m \in Nat /\ b \in Nat /\ b <= MaxSize /\ MaxSize \in Nat
    BY SizeType, BitstreamAssumption DEF Sizes
  <2>2. n \in Nat /\ n <= m /\ n <= b
    <3> HIDE DEF m
    <3> QED
      BY <2>1, LeastType
  <2> HIDE DEF n, m
  <2> QED
    BY <2>1, <2>2
<1>2. PICK k \in 0 .. 1 : src = [i \in 0 .. MaxSize - 1 |-> (i + k) % 2 = 0]
  BY DEF Memory
<1>3. PICK memory \in Values!Patterns(MaxSize) :
         \A i \in 1 .. MaxSize : memory[i] = src[i - 1] /\ memory[i] \in BOOLEAN
  <2>1. /\ [i \in 1 .. MaxSize |-> (i + k) % 2 = 1] \in Values!Patterns(MaxSize)
        /\ \A i \in 1 .. MaxSize :
              /\ [j \in 1 .. MaxSize |-> (j + k) % 2 = 1][i] = src[i - 1]
              /\ [j \in 1 .. MaxSize |-> (j + k) % 2 = 1][i] \in BOOLEAN
    BY <1>1, <1>2, NumberPattern
  <2> QED
    BY <2>1
<1>4. Write(o, bits) /\ DOMAIN bits = Buffer(m)
  BY DEF AssignMemory
<1>5. Values!Reached(n) \subseteq 1 .. n
  BY <1>1, MovedBits
<1>6. \A j \in Values!Reached(n) : memory[j] \in BOOLEAN
  <2> HIDE DEF n
  <2> QED
    BY <1>1, <1>3, <1>5
<1>7. Differs(m, Bits(o), bits, Values!Reached(n), memory)
  <2>1. Values!Reached(n) \subseteq 1 .. m
    <3> HIDE DEF n, m
    <3> QED
      BY <1>1, <1>5
  <2>2. Bytes(m) * BITS \in Nat
    BY <1>1, BufferHolds
  <2>3. ASSUME NEW i \in Buffer(m)
        PROVE  bits[i] = IF i + 1 \in Values!Reached(n) THEN memory[i + 1] ELSE Bits(o)[i]
    <3>1. i \in Nat
      BY <2>2 DEF Buffer
    <3>2. bits[i] = Moved(n, Bits(o), src, i)
      OBVIOUS
    <3> HIDE DEF n, m, bits
    <3>3. CASE i + 1 \in Values!Reached(n)
      <4>1. i + 1 \in 1 .. MaxSize
        BY <1>1, <1>5, <3>3
      <4>2. memory[i + 1] = src[i]
        BY <1>3, <3>1, <4>1
      <4>3. i < (n \div BITS) * BITS \/ i < n % BITS
        BY <1>1, <3>1, <3>3, MovedBits
      <4> QED
        BY <3>2, <3>3, <4>2, <4>3 DEF Moved
    <3>4. CASE i + 1 \notin Values!Reached(n)
      <4>1. ~(i < (n \div BITS) * BITS \/ i < n % BITS)
        BY <1>1, <3>1, <3>4, MovedBits
      <4> QED
        BY <3>2, <3>4, <4>1 DEF Moved
    <3> QED
      BY <3>3, <3>4
  <2> HIDE DEF bits, n, m
  <2> QED
    BY <2>1, <2>3 DEF Differs
<1>8. Typed' /\ Values!Update(o, Values!Reached(n), memory)
  <2> HIDE DEF bits, n
  <2> QED
    BY <1>4, <1>6, <1>7, WriteStep
<1>9. Values!Size(o) = m
  BY SameSize
<1> HIDE DEF n, m, bits
<1>10. n \in 0 .. Values!Size(o)
  BY <1>1, <1>9
<1>11. Values!Modify(o)
  BY <1>8, <1>10 DEF Values!Modify
<1> QED
  BY <1>4, <1>8, <1>11 DEF Write

\* Every assignment, resize() and every function that writes does what values
\* do.
LEMMA ModifyStep ==
    ASSUME Inv, Typed, Modify
    PROVE  Typed' /\ result' = <<>> /\ \E o \in Objects : Values!Silent(o)
<1>1. ASSUME NEW o \in Live, Values!Modify(o)
      PROVE  Values!Silent(o)
  BY <1>1, SameLive DEF Values!Silent
<1>2. ASSUME NEW o \in Live, NEW i \in Sizes, NEW value \in BOOLEAN, SetBit(o, i, value)
      PROVE  Typed' /\ result' = <<>> /\ Values!Silent(o)
  BY <1>1, <1>2, OneBitStep, BitstreamAssumption DEF SetBit, Sizes
<1>3. ASSUME NEW o \in Live, NEW val \in BOOLEAN, AssignBool(o, val)
      PROVE  Typed' /\ result' = <<>> /\ Values!Silent(o)
  <2>1. CASE objs[o].m_size > 0
    BY <1>1, <1>3, <2>1, OneBitStep, SizeType DEF AssignBool
  <2>2. CASE ~(objs[o].m_size > 0)
    BY <1>3, <2>2, SelfStep, StillTyped, SameLive DEF AssignBool, Values!Silent
  <2> QED
    BY <2>1, <2>2
<1>4. ASSUME NEW o \in Live,
             \/ \E other \in Live : MoveAssign(o, other)
             \/ \E other \in Live : CopyAssign(o, other)
             \/ \E n \in Sizes : Resize(o, n)
      PROVE  Typed' /\ result' = <<>> /\ Values!Silent(o)
  BY <1>4, AssignmentStep, ResizeStep
<1>5. ASSUME NEW o \in Live,
             \/ Clear(o)
             \/ \E val \in Numbers, n \in Sizes : AssignNumber(o, val, n)
             \/ \E src \in Memory, n \in Sizes : AssignMemory(o, src, n)
      PROVE  Typed' /\ result' = <<>> /\ Values!Silent(o)
  BY <1>1, <1>5, ClearStep, NumberStep, MemoryStep
<1> QED
  BY <1>2, <1>3, <1>4, <1>5 DEF Modify, Typed

-----------------------------------------------------------------------------

(***************************************************************************)
(* What is read is what BitVector reads.                                   *)
(***************************************************************************)

\* Nothing is left of bits that were cut off (Tidy).
NoCutOff(n, b) == \A i \in Buffer(n) \ (0 .. n - 1) : ~b[i]

\* The buffer consists of bits.
Booleans(n, b) == \A i \in Buffer(n) : b[i] \in BOOLEAN

\* What operator== compares.
SameBytes(short, b, long, c) ==
    /\ \A i \in Buffer(short) : b[i] = c[i]
    /\ \A i \in Buffer(long) \ Buffer(short) : ~c[i]

\* The two buffers hold the same number.
SameNumber(m, b, n, c) ==
    \A i \in 1 .. MaxSize : (i <= m /\ b[i - 1]) = (i <= n /\ c[i - 1])

\* Comparing byte by byte is comparing the numbers, if nothing is left beyond
\* the sizes.
LEMMA EqualBytes ==
    ASSUME NEW short \in Nat, NEW long \in Nat, short <= long, long <= MaxSize,
           NEW b, NEW c, Booleans(short, b), Booleans(long, c),
           NoCutOff(short, b), NoCutOff(long, c)
    PROVE  SameBytes(short, b, long, c) <=> SameNumber(short, b, long, c)
<1> DEFINE s == Bytes(short) * BITS
           l == Bytes(long) * BITS
<1>1. /\ s \in Nat /\ short <= s /\ l \in Nat /\ long <= l /\ s <= l
      /\ MaxSize \in Nat
  BY BufferHolds, BufferGrows, BitstreamAssumption
<1>2. Buffer(short) = 0 .. s - 1 /\ Buffer(long) = 0 .. l - 1
  BY DEF Buffer
<1> HIDE DEF s, l
<1>3. /\ \A i \in 0 .. s - 1 : b[i] \in BOOLEAN /\ (i >= short => ~b[i])
      /\ \A i \in 0 .. l - 1 : c[i] \in BOOLEAN /\ (i >= long => ~c[i])
  BY <1>1, <1>2 DEF Booleans, NoCutOff
<1>4. ASSUME SameBytes(short, b, long, c), NEW i \in 1 .. MaxSize
      PROVE  (i <= short /\ b[i - 1]) = (i <= long /\ c[i - 1])
  <2>1. CASE i <= short
    <3>1. i - 1 \in 0 .. s - 1 /\ i <= long
      BY <1>1, <2>1
    <3>2. b[i - 1] = c[i - 1]
      BY <1>2, <1>4, <3>1 DEF SameBytes
    <3> QED
      BY <2>1, <3>1, <3>2
  <2>2. CASE i > short /\ i <= long
    <3>1. i - 1 \in 0 .. l - 1 /\ i - 1 >= short
      BY <1>1, <2>2
    <3>2. CASE i - 1 \in 0 .. s - 1
      <4>1. ~b[i - 1] /\ b[i - 1] = c[i - 1]
        BY <1>2, <1>3, <1>4, <3>1, <3>2 DEF SameBytes
      <4> QED
        BY <2>2, <4>1
    <3>3. CASE i - 1 \notin 0 .. s - 1
      <4>1. ~c[i - 1]
        BY <1>2, <1>4, <3>1, <3>3 DEF SameBytes
      <4> QED
        BY <2>2, <4>1
    <3> QED
      BY <3>2, <3>3
  <2>3. CASE i > long
    BY <1>1, <2>3
  <2> QED
    BY <1>1, <2>1, <2>2, <2>3
<1>5. ASSUME SameNumber(short, b, long, c)
      PROVE  SameBytes(short, b, long, c)
  <2>1. ASSUME NEW i \in 0 .. l - 1, i >= short
        PROVE  ~c[i]
    <3>1. CASE i < long
      <4>1. i + 1 \in 1 .. MaxSize /\ ~(i + 1 <= short) /\ i + 1 <= long /\ i + 1 - 1 = i
        BY <1>1, <2>1, <3>1
      <4>2. (i + 1 <= short /\ b[i + 1 - 1]) = (i + 1 <= long /\ c[i + 1 - 1])
        BY <1>5, <4>1 DEF SameNumber
      <4> QED
        BY <4>1, <4>2
    <3>2. CASE i >= long
      BY <1>3, <3>2
    <3> QED
      BY <1>1, <3>1, <3>2
  <2>2. ASSUME NEW i \in 0 .. s - 1
        PROVE  b[i] = c[i]
    <3>1. i \in 0 .. l - 1
      BY <1>1
    <3>2. CASE i < short
      <4>1. i + 1 \in 1 .. MaxSize /\ i + 1 <= short /\ i + 1 <= long /\ i + 1 - 1 = i
        BY <1>1, <3>2
      <4>2. (i + 1 <= short /\ b[i + 1 - 1]) = (i + 1 <= long /\ c[i + 1 - 1])
        BY <1>5, <4>1 DEF SameNumber
      <4>3. b[i] \in BOOLEAN /\ c[i] \in BOOLEAN
        BY <1>3, <3>1
      <4> QED
        BY <4>1, <4>2, <4>3
    <3>3. CASE i >= short
      <4>1. ~b[i] /\ ~c[i] /\ b[i] \in BOOLEAN /\ c[i] \in BOOLEAN
        BY <1>3, <2>1, <3>1, <3>3
      <4> QED
        BY <4>1
    <3> QED
      BY <1>1, <3>2, <3>3
  <2>3. ASSUME NEW i \in (0 .. l - 1) \ (0 .. s - 1)
        PROVE  ~c[i]
    BY <1>1, <2>1
  <2> QED
    BY <1>2, <2>2, <2>3 DEF SameBytes
<1> QED
  BY <1>4, <1>5 DEF SameNumber

\* The values only depend on the objects and the buffers.
LEMMA SameVecNext == ASSUME UNCHANGED <<objs, heap>> PROVE Vec' = Vec
BY DEF Vec, BitValue, Tidy, Bits, Live, Buffer, Bytes

\* A bit of the value, counted from 1, is one of the buffer, counted from 0.
LEMMA BitOfValue ==
    ASSUME Typed, NEW o \in Live, NEW j \in 1 .. objs[o].m_size
    PROVE  Vec[o].bits[j] = Bits(o)[j - 1]
<1>1. BitValue(o).bits = [k \in 1 .. objs[o].m_size |-> Bits(o)[k - 1]]
  BY SameSize
<1>2. BitValue(o).bits[j] = Bits(o)[j - 1]
  BY <1>1
<1> QED
  BY <1>2, SameVec

\* The whole buffer of an object consists of bits.
LEMMA AllBooleans ==
    ASSUME Inv, Typed, NEW o \in Live
    PROVE  Booleans(objs[o].m_size, Bits(o))
<1>1. objs[o].m_bits = Null => objs[o].m_size = 0
  BY DEF Inv, OwnedOnce
<1>2. 0 % BITS = 0
  BY BitstreamAssumption
<1>3. Buffer(0) = {}
  BY <1>2, BufferHolds DEF Buffer
<1> QED
  BY <1>1, <1>3, BitType DEF Booleans

\* operator== compares values, and compares them as numbers if both are tidy.
LEMMA EqualStep ==
    ASSUME Inv, Typed, NEW o \in Live, NEW other \in Live, Equal(o, other)
    PROVE  Values!Compare(o, other)
<1> DEFINE m == objs[o].m_size
           n == objs[other].m_size
           same == /\ \A i \in Buffer(Least(m, n)) : Bits(o)[i] = Bits(other)[i]
                   /\ \A i \in Buffer(objs[IF m < n THEN other ELSE o].m_size)
                                 \ Buffer(Least(m, n)) :
                        ~Bits(IF m < n THEN other ELSE o)[i]
<1>1. /\ m \in Nat /\ m <= MaxSize /\ n \in Nat /\ n <= MaxSize
      /\ MaxSize \in Nat
  BY SizeType, BitstreamAssumption DEF Typed, Sizes
<1>2. result' = <<"equal", <<same>>>> /\ UNCHANGED <<objs, heap>>
  BY DEF Equal, Return
<1>3. Vec' = Vec
  BY <1>2, SameVecNext
<1>4. Vec[o].tidy = NoCutOff(m, Bits(o)) /\ Vec[other].tidy = NoCutOff(n, Bits(other))
  BY DEF Vec, BitValue, Tidy, NoCutOff
<1>5. ASSUME NoCutOff(m, Bits(o)), NoCutOff(n, Bits(other))
      PROVE  same <=> SameNumber(m, Bits(o), n, Bits(other))
  <2>0. Booleans(m, Bits(o)) /\ Booleans(n, Bits(other))
    BY AllBooleans
  <2>1. CASE m < n
    <3>1. same <=> SameBytes(m, Bits(o), n, Bits(other))
      BY <2>1 DEF Least, SameBytes
    <3>2. SameBytes(m, Bits(o), n, Bits(other)) <=> SameNumber(m, Bits(o), n, Bits(other))
      <4> HIDE DEF m, n, same
      <4> QED
        BY <1>1, <1>5, <2>0, <2>1, EqualBytes
    <3> HIDE DEF same, m, n
    <3> QED
      BY <3>1, <3>2
  <2>2. CASE ~(m < n)
    <3>1. same <=> SameBytes(n, Bits(other), m, Bits(o))
      BY <2>2 DEF Least, SameBytes
    <3>2. SameBytes(n, Bits(other), m, Bits(o)) <=> SameNumber(n, Bits(other), m, Bits(o))
      <4> HIDE DEF m, n, same
      <4> QED
        BY <1>1, <1>5, <2>0, <2>2, EqualBytes
    <3>3. SameNumber(n, Bits(other), m, Bits(o)) <=> SameNumber(m, Bits(o), n, Bits(other))
      BY DEF SameNumber
    <3> HIDE DEF same, m, n
    <3> QED
      BY <3>1, <3>2, <3>3
  <2> QED
    BY <2>1, <2>2
<1>6. SameNumber(m, Bits(o), n, Bits(other))
        = \A i \in 1 .. MaxSize : (i <= Values!Size(o) /\ Vec[o].bits[i])
                                     = (i <= Values!Size(other) /\ Vec[other].bits[i])
  <2>1. Values!Size(o) = m /\ Values!Size(other) = n
    BY SameSize
  <2>2. ASSUME NEW i \in 1 .. MaxSize
        PROVE  /\ (i <= m /\ Vec[o].bits[i]) = (i <= m /\ Bits(o)[i - 1])
               /\ (i <= n /\ Vec[other].bits[i]) = (i <= n /\ Bits(other)[i - 1])
    <3>1. i <= m => Vec[o].bits[i] = Bits(o)[i - 1]
      BY <1>1, BitOfValue
    <3>2. i <= n => Vec[other].bits[i] = Bits(other)[i - 1]
      BY <1>1, BitOfValue
    <3> QED
      BY <3>1, <3>2
  <2> HIDE DEF m, n
  <2> QED
    BY <2>1, <2>2 DEF SameNumber
<1>7. same \in BOOLEAN
  OBVIOUS
<1> HIDE DEF same, m, n
<1> QED
  BY <1>2, <1>3, <1>4, <1>5, <1>6, <1>7 DEF Values!Compare, Values!Returns, Vec

\* The bits of the value, in the order of the buffer.
LEMMA ReadVec ==
    ASSUME Typed, NEW o \in Live
    PROVE  Vec[o].bits = [j \in 1 .. objs[o].m_size |-> Bits(o)[j - 1]]
BY SameVec, SameSize

\* value() returns the bits asked for, and zeros.
LEMMA ValueStep ==
    ASSUME Typed, NEW o \in Live, NEW b \in 0 .. WORD, Value(o, b)
    PROVE  Values!Read(o)
<1> DEFINE m == objs[o].m_size
           n == Least(m, b)
           B == Bits(o)
           V == Vec[o].bits
<1>1. m \in Nat /\ n \in Nat /\ n <= m /\ n <= WORD
  <2>1. m \in Nat /\ b \in Nat /\ b <= WORD /\ WORD \in Nat
    BY SizeType, BitstreamAssumption
  <2>2. n \in Nat /\ n <= m /\ n <= b
    <3> HIDE DEF m
    <3> QED
      BY <2>1, LeastType
  <2> HIDE DEF n, m
  <2> QED
    BY <2>1, <2>2
<1>2. result' = <<"value", [j \in 1 .. WORD |-> j <= n /\ B[j - 1]]>>
      /\ UNCHANGED <<objs, heap>>
  BY DEF Value, Return
<1>3. Vec' = Vec
  BY <1>2, SameVecNext
<1>4. V = [j \in 1 .. m |-> B[j - 1]]
  BY ReadVec
<1>5. [j \in 1 .. WORD |-> j <= n /\ B[j - 1]] = [i \in 1 .. WORD |-> i <= n /\ V[i]]
  <2> HIDE DEF n, m, B, V
  <2>1. ASSUME NEW j \in 1 .. WORD
        PROVE  (j <= n /\ B[j - 1]) = (j <= n /\ V[j])
    <3>1. CASE j <= n
      <4>1. j \in 1 .. m
        BY <1>1, <3>1, BitstreamAssumption
      <4>2. V[j] = B[j - 1]
        BY <1>4, <4>1
      <4> QED
        BY <4>2
    <3>2. CASE ~(j <= n)
      BY <3>2
    <3> QED
      BY <3>1, <3>2
  <2> QED
    BY <2>1
<1>6. n \in 0 .. Values!Smaller(Values!Size(o), WORD)
  <2>1. Values!Size(o) = m
    BY SameSize
  <2> HIDE DEF n, m
  <2> QED
    BY <1>1, <2>1, BitstreamAssumption DEF Values!Smaller
<1>7. Values!Returns("value", [i \in 1 .. WORD |-> i <= n /\ V[i]])
  <2> HIDE DEF n, V, B
  <2> QED
    BY <1>2, <1>5 DEF Values!Returns
<1> HIDE DEF n, m, B
<1> QED
  BY <1>3, <1>6, <1>7 DEF Values!Read, Vec

\* Copying to memory changes the bits that a transfer reaches.
LEMMA CopyStep ==
    ASSUME Typed, NEW o \in Live, NEW dst \in Memory, NEW b \in Sizes,
           Copy(o, dst, b)
    PROVE  Values!Read(o)
<1> DEFINE m == objs[o].m_size
           n == Least(m, b)
           B == Bits(o)
           V == Vec[o].bits
           R == Values!Reached(n)
<1>1. m \in Nat /\ n \in Nat /\ n <= m /\ n <= MaxSize /\ MaxSize \in Nat
  <2>1. m \in Nat /\ b \in Nat /\ b <= MaxSize /\ MaxSize \in Nat
    BY SizeType, BitstreamAssumption DEF Sizes
  <2>2. n \in Nat /\ n <= m /\ n <= b
    <3> HIDE DEF m
    <3> QED
      BY <2>1, LeastType
  <2> HIDE DEF n, m
  <2> QED
    BY <2>1, <2>2
<1>2. PICK k \in 0 .. 1 : dst = [i \in 0 .. MaxSize - 1 |-> (i + k) % 2 = 0]
  BY DEF Memory
<1>3. PICK memory \in Values!Patterns(MaxSize) :
         \A i \in 1 .. MaxSize : memory[i] = dst[i - 1] /\ memory[i] \in BOOLEAN
  <2>1. /\ [i \in 1 .. MaxSize |-> (i + k) % 2 = 1] \in Values!Patterns(MaxSize)
        /\ \A i \in 1 .. MaxSize :
              /\ [j \in 1 .. MaxSize |-> (j + k) % 2 = 1][i] = dst[i - 1]
              /\ [j \in 1 .. MaxSize |-> (j + k) % 2 = 1][i] \in BOOLEAN
    BY <1>1, <1>2, NumberPattern
  <2> QED
    BY <2>1
<1> DEFINE to == [i \in 0 .. MaxSize - 1 |-> Moved(n, dst, B, i)]
           copied == [j \in 1 .. MaxSize |-> to[j - 1]]
<1>4. result' = <<"copy", copied>> /\ UNCHANGED <<objs, heap>>
  BY DEF Copy, Return
<1>5. Vec' = Vec
  BY <1>4, SameVecNext
<1>6. V = [j \in 1 .. m |-> B[j - 1]]
  BY ReadVec
<1>7. copied = [i \in 1 .. MaxSize |-> IF i \in R THEN V[i] ELSE memory[i]]
  <2>1. ASSUME NEW j \in 1 .. MaxSize
        PROVE  to[j - 1] = IF j \in R THEN V[j] ELSE memory[j]
    <3>1. j - 1 \in 0 .. MaxSize - 1 /\ j - 1 \in Nat /\ (j - 1) + 1 = j
      BY <1>1
    <3>2. to[j - 1] = Moved(n, dst, B, j - 1)
      BY <3>1
    <3>3. R \subseteq 1 .. n
      BY <1>1, MovedBits
    <3>4. (j - 1) + 1 \in R <=> j - 1 < (n \div BITS) * BITS \/ j - 1 < n % BITS
      BY <1>1, <3>1, MovedBits
    <3> HIDE DEF n, m, B, V, R, to
    <3>5. CASE j \in R
      <4>1. j \in 1 .. m
        BY <1>1, <3>3, <3>5
      <4>2. V[j] = B[j - 1]
        BY <1>6, <4>1
      <4> QED
        BY <3>1, <3>2, <3>4, <3>5, <4>2 DEF Moved
    <3>6. CASE j \notin R
      <4>1. memory[j] = dst[j - 1]
        BY <1>3
      <4> QED
        BY <3>1, <3>2, <3>4, <3>6, <4>1 DEF Moved
    <3> QED
      BY <3>5, <3>6
  <2> HIDE DEF to, V, R
  <2> QED
    BY <2>1
<1>8. Values!Size(o) = m
  BY SameSize
<1>9. Values!Returns("copy", [i \in 1 .. MaxSize |-> IF i \in R THEN V[i] ELSE memory[i]])
  <2> HIDE DEF copied, V, R
  <2> QED
    BY <1>4, <1>7 DEF Values!Returns
<1>10. n \in 0 .. Values!Size(o)
  <2> HIDE DEF n, m
  <2> QED
    BY <1>1, <1>8
<1> HIDE DEF n, m, B, to, copied
<1> QED
  BY <1>5, <1>9, <1>10 DEF Values!Read, Vec

\* operator bool returns the first bit.
LEMMA BoolStep ==
    ASSUME Typed, NEW o \in Live, ToBool(o)
    PROVE  Values!Read(o)
<1> DEFINE m == objs[o].m_size
           B == Bits(o)
           V == Vec[o].bits
<1>1. result' = <<"bool", <<m > 0 /\ B[0]>>>> /\ UNCHANGED <<objs, heap>>
  BY DEF ToBool, Return
<1>2. Vec' = Vec
  BY <1>1, SameVecNext
<1>3. V = [j \in 1 .. m |-> B[j - 1]] /\ m \in Nat
  BY ReadVec, SizeType
<1>4. Values!Size(o) = m
  BY SameSize
<1>5. (m > 0 /\ B[0]) = (m > 0 /\ V[1])
  <2> HIDE DEF m, B, V
  <2>1. CASE m > 0
    <3>1. V[1] = B[1 - 1] /\ 1 - 1 = 0
      BY <1>3, <2>1
    <3> QED
      BY <3>1
  <2>2. CASE ~(m > 0)
    BY <2>2
  <2> QED
    BY <2>1, <2>2
<1>6. Values!Returns("bool", <<Values!Size(o) > 0 /\ V[1]>>)
  <2> HIDE DEF m, B, V
  <2> QED
    BY <1>1, <1>4, <1>5 DEF Values!Returns
<1> HIDE DEF m, B
<1> QED
  BY <1>2, <1>6 DEF Values!Read, Vec

\* Iterating forward passes every bit in order.
LEMMA ForwardStep ==
    ASSUME Typed, NEW o \in Live, Forward(o)
    PROVE  Values!Read(o)
<1> DEFINE m == objs[o].m_size
           B == Bits(o)
           V == Vec[o].bits
<1>1. result' = <<"forward", [j \in 1 .. m |-> At(o, j - 1)]>>
      /\ UNCHANGED <<objs, heap>>
  BY DEF Forward, Return
<1>2. Vec' = Vec
  BY <1>1, SameVecNext
<1>3. V = [j \in 1 .. m |-> B[j - 1]] /\ m \in Nat
  BY ReadVec, SizeType
<1>4. [j \in 1 .. m |-> At(o, j - 1)] = V
  <2>1. ASSUME NEW j \in 1 .. m PROVE At(o, j - 1) = B[j - 1]
    <3>1. (IF j - 1 > 0 THEN j - 1 ELSE 0) = j - 1
      BY <1>3
    <3> QED
      BY <3>1 DEF At
  <2> HIDE DEF B, V, m
  <2> QED
    BY <1>3, <2>1
<1>5. Values!Returns("forward", V)
  <2> HIDE DEF V, m
  <2> QED
    BY <1>1, <1>4 DEF Values!Returns
<1> HIDE DEF m, B
<1> QED
  BY <1>2, <1>5 DEF Values!Read, Vec

\* Iterating backward leaves out the last bit and ends with the first one
\* twice.
LEMMA BackwardStep ==
    ASSUME Typed, NEW o \in Live, Backward(o)
    PROVE  Values!Read(o)
<1> DEFINE m == objs[o].m_size
           B == Bits(o)
           V == Vec[o].bits
           visited == [j \in 1 .. m |-> At(o, IF m < j + 1 THEN 0 ELSE m - 1 - j)]
<1>1. result' = <<"backward", visited>> /\ UNCHANGED <<objs, heap>>
  BY DEF Backward, Return
<1>2. Vec' = Vec
  BY <1>1, SameVecNext
<1>3. V = [j \in 1 .. m |-> B[j - 1]] /\ m \in Nat
  BY ReadVec, SizeType
<1>4. Values!Size(o) = m
  BY SameSize
<1>5. ASSUME NEW i \in Nat PROVE At(o, i) = B[i]
  <2>1. (IF i > 0 THEN i ELSE 0) = i
    OBVIOUS
  <2> QED
    BY <2>1 DEF At
<1>6. visited = [i \in 1 .. m |-> V[IF i = m THEN 1 ELSE m - i]]
  <2>1. ASSUME NEW j \in 1 .. m
        PROVE  At(o, IF m < j + 1 THEN 0 ELSE m - 1 - j) = V[IF j = m THEN 1 ELSE m - j]
    <3> HIDE DEF m, B, V
    <3>1. CASE j = m
      <4>1. m < j + 1 /\ 1 \in 1 .. m /\ 1 - 1 = 0
        BY <1>3, <3>1
      <4>2. V[1] = B[1 - 1]
        BY <1>3, <4>1
      <4>3. At(o, 0) = B[0]
        BY <1>5
      <4> QED
        BY <3>1, <4>1, <4>2, <4>3
    <3>2. CASE j # m
      <4>1. ~(m < j + 1) /\ m - j \in 1 .. m /\ m - j - 1 = m - 1 - j /\ m - 1 - j \in Nat
        BY <1>3, <3>2
      <4>2. V[m - j] = B[m - 1 - j]
        BY <1>3, <4>1
      <4>3. At(o, m - 1 - j) = B[m - 1 - j]
        BY <1>5, <4>1
      <4> QED
        BY <3>2, <4>1, <4>2, <4>3
    <3> QED
      BY <3>1, <3>2
  <2> HIDE DEF m, V
  <2> QED
    BY <2>1
<1>7. Values!Returns("backward", [i \in 1 .. Values!Size(o) |->
                         V[IF i = Values!Size(o) THEN 1 ELSE Values!Size(o) - i]])
  <2> HIDE DEF V, m, visited
  <2> QED
    BY <1>1, <1>4, <1>6 DEF Values!Returns
<1> HIDE DEF m, B
<1> QED
  BY <1>2, <1>7 DEF Values!Read, Vec

\* operator< returns false.
LEMMA LessStep ==
    ASSUME NEW o \in Live, NEW other \in Live, Less(o, other)
    PROVE  Values!Compare(o, other)
<1>1. result' = <<"less", <<FALSE>>>> /\ UNCHANGED <<objs, heap>>
  BY DEF Less, Return
<1>2. Vec' = Vec
  BY <1>1, SameVecNext
<1> QED
  BY <1>1, <1>2 DEF Values!Compare, Values!Returns, Vec

\* Every function that reads returns what values return, and changes nothing.
LEMMA ReadStep ==
    ASSUME Inv, Typed, Read
    PROVE  /\ UNCHANGED <<objs, heap>>
           /\ \E o \in Live : \/ Values!Read(o)
                              \/ \E other \in Live : Values!Compare(o, other)
<1>1. UNCHANGED <<objs, heap>>
  BY DEF Read, Value, Copy, ToBool, Equal, Less, Forward, Backward, Return
<1>2. PICK o \in Live :
        \/ \E n \in 0 .. WORD : Value(o, n)
        \/ \E dst \in Memory, n \in Sizes : Copy(o, dst, n)
        \/ ToBool(o)
        \/ \E other \in Live : Equal(o, other)
        \/ \E other \in Live : Less(o, other)
        \/ Forward(o)
        \/ Backward(o)
  BY DEF Read
<1> QED
  BY <1>1, <1>2, ValueStep, CopyStep, BoolStep, EqualStep, LessStep, ForwardStep,
     BackwardStep

-----------------------------------------------------------------------------

(***************************************************************************)
(* The theorems about bit streams.                                         *)
(***************************************************************************)

\* The ownership only depends on the objects and the buffers.
LEMMA Unchanged ==
    ASSUME Inv, UNCHANGED <<objs, heap>>
    PROVE  Inv'
BY DEF Inv, OwnedOnce, Live, Bits, Buffer, Bytes

\* Every constructor and the destructor keep the ownership of buffers.
LEMMA LifetimeKeepsInv ==
    ASSUME Inv, Lifetime
    PROVE  Inv'
<1>1. ASSUME NEW o \in Objects \ Live, Construct(o)
      PROVE  Inv'
  <2>1. Live' = Live \cup {o} /\ objs'[o] = Empty /\ heap' = heap
    BY <1>1 DEF Construct, Built, Live
  <2>2. \A p \in Live : objs'[p] = objs[p]
    BY <1>1 DEF Construct, Built, Live
  <2>3. Null \notin DOMAIN heap
    BY BitstreamAssumption DEF Inv
  <2>4. \A a \in DOMAIN heap : \E p \in Live' :
           \A q \in Live' : objs'[q].m_bits = a <=> q = p
    BY <1>1, <2>1, <2>2, <2>3 DEF Inv, OwnedOnce, Empty
  <2>5. QED
    BY <2>1, <2>2, <2>4 DEF Inv, OwnedOnce, Bits, Empty, Buffer, Bytes
<1>2. ASSUME NEW o \in Objects \ Live, NEW n \in Sizes, ConstructSized(o, n)
      PROVE  Inv'
  BY <1>2, SizedEffect, Reallocated
<1>3. ASSUME NEW o \in Objects \ Live, NEW other \in Live, MoveConstruct(o, other)
      PROVE  Inv'
  BY <1>3, MoveConstructEffect, Transferred
<1>4. ASSUME NEW o \in Objects \ Live, NEW other \in Live, CopyConstruct(o, other)
      PROVE  Inv'
  <2>1. PICK a : Reallocates(o, objs[other].m_size, a)
    BY <1>4, CopyConstructEffect
  <2> QED
    BY <2>1, Reallocated
<1>5. QED
  BY <1>1, <1>2, <1>3, <1>4, Destroyed DEF Lifetime

\* Every assignment, resize(), and every function that writes bits keep it.
LEMMA ModifyKeepsInv ==
    ASSUME Inv, Modify
    PROVE  Inv'
<1>1. ASSUME NEW o \in Live, NEW other \in Live, MoveAssign(o, other)
      PROVE  Inv'
  <2>1. CASE o = other
    BY <1>1, <2>1, Unchanged DEF MoveAssign
  <2>2. CASE o # other
    BY <1>1, <2>2, MoveAssignEffect, Transferred
  <2>3. QED
    BY <2>1, <2>2
<1>2. ASSUME NEW o \in Live, NEW other \in Live, CopyAssign(o, other)
      PROVE  Inv'
  <2>1. \/ UNCHANGED <<objs, heap>>
        \/ \E a : Reallocates(o, objs[other].m_size, a)
    BY <1>2, CopyAssignEffect
  <2> QED
    BY <2>1, Unchanged, Reallocated
<1>3. ASSUME NEW o \in Live, NEW n \in Sizes, Resize(o, n)
      PROVE  Inv'
  <2>1. UNCHANGED <<objs, heap>> \/ \E a : Reallocates(o, n, a)
    BY <1>3, ResizeEffect
  <2> QED
    BY <2>1, Unchanged, Reallocated
<1>4. ASSUME NEW o \in Live, Clear(o)
      PROVE  Inv'
  BY <1>4, Written DEF Clear, Zero
<1>5. ASSUME NEW o \in Live, NEW n \in Sizes, NEW val, AssignNumber(o, val, n)
      PROVE  Inv'
  BY <1>5, Written DEF AssignNumber
<1>6. ASSUME NEW o \in Live, NEW n \in Sizes, NEW src, AssignMemory(o, src, n)
      PROVE  Inv'
  BY <1>6, Written DEF AssignMemory
<1>7. ASSUME NEW o \in Live, NEW i, NEW value, Write(o, [Bits(o) EXCEPT ![i] = value])
      PROVE  Inv'
  <2>1. CASE objs[o].m_bits = Null
    BY <1>7, <2>1, Unchanged DEF Write
  <2>2. CASE objs[o].m_bits # Null
    BY <1>7, <2>2, Written DEF Inv, OwnedOnce
  <2>3. QED
    BY <2>1, <2>2
<1>8. ASSUME NEW o \in Live, NEW i \in Sizes, NEW value, SetBit(o, i, value)
      PROVE  Inv'
  BY <1>7, <1>8 DEF SetBit
<1>9. ASSUME NEW o \in Live, NEW val, AssignBool(o, val)
      PROVE  Inv'
  BY <1>7, <1>9, Unchanged DEF AssignBool
<1>10. QED
  BY <1>1, <1>2, <1>3, <1>4, <1>5, <1>6, <1>8, <1>9 DEF Modify

\* Without objects there are no buffers, and no values.
LEMMA StartsEmpty == Init => Inv /\ Typed /\ Values!Init
<1>1. Init => Inv /\ Typed
  BY DEF Init, Inv, OwnedOnce, Live, Typed
<1>2. Init => Values!Init
  <2> SUFFICES ASSUME Init PROVE Values!Init
    OBVIOUS
  <2>1. Live = {} /\ result = <<>>
    BY DEF Init, Live
  <2> QED
    BY <2>1 DEF Values!Init
<1> QED
  BY <1>1, <1>2

\* Every call keeps the ownership and the types, and is a call of values or
\* none.
LEMMA EveryStep ==
    ASSUME Inv, Typed, [Next]_vars
    PROVE  /\ Inv' /\ Typed'
           /\ [Values!Next]_(Values!vars)
<1>1. CASE Lifetime
  <2>1. Typed' /\ result' = <<>> /\ \E o \in Objects : Values!Silent(o)
    BY <1>1, LifetimeStep
  <2> QED
    BY <1>1, <2>1, LifetimeKeepsInv DEF Values!Next
<1>2. CASE Modify
  <2>1. Typed' /\ result' = <<>> /\ \E o \in Objects : Values!Silent(o)
    BY <1>2, ModifyStep
  <2> QED
    BY <1>2, <2>1, ModifyKeepsInv DEF Values!Next
<1>3. CASE Read
  <2>1. UNCHANGED <<objs, heap>>
    BY <1>3, ReadStep
  <2>2. Inv' /\ Typed'
    BY <2>1, Unchanged, StillTyped
  <2>3. Live \subseteq Objects
    BY DEF Typed
  <2>4. PICK o \in Live : \/ Values!Read(o)
                          \/ \E other \in Live : Values!Compare(o, other)
    BY <1>3, ReadStep
  <2>5. Values!Next
    BY <2>3, <2>4, SameLive DEF Values!Next
  <2> QED
    BY <2>2, <2>5
<1>4. CASE UNCHANGED vars
  <2>1. UNCHANGED <<objs, heap, result>>
    BY <1>4 DEF vars
  <2>2. Inv' /\ Typed'
    BY <2>1, Unchanged, StillTyped
  <2>3. Vec' = Vec
    BY <2>1, SameVecNext
  <2> QED
    BY <2>1, <2>2, <2>3 DEF Values!vars, Vec
<1> QED
  BY <1>1, <1>2, <1>3, <1>4 DEF Next

(***************************************************************************)
(* A bit stream is a value, for any number of objects, of addresses and of *)
(* bits, any size of a byte and of a number: whatever is constructed,      *)
(* copied, moved, resized and written, what is read of an object is what   *)
(* was written to it or to the source of its copy, with the exceptions     *)
(* that BitVector lists.                                                   *)
(***************************************************************************)
THEOREM ImplementsValues == Spec => RefinesValues
<1>1. Inv /\ Typed /\ [Next]_vars => Inv' /\ Typed' /\ [Values!Next]_(Values!vars)
  BY EveryStep
<1> QED
  BY <1>1, StartsEmpty, PTL DEF Spec, RefinesValues, Values!Spec

\* The library with its three parts includes the bit streams.
LEMMA OnePart == MCSpec => Spec
<1>1. MCInit => Init
  BY DEF MCInit
<1>2. [MCNext]_<<part, vars, bus, printer>> => [Next]_vars
  BY DEF MCNext, vars
<1> QED
  BY <1>1, <1>2, PTL DEF MCSpec, Spec

(***************************************************************************)
(* The same in the specification that the run checks.                      *)
(***************************************************************************)
THEOREM ValuesAlways == MCSpec => RefinesValues
BY OnePart, ImplementsValues

(***************************************************************************)
(* The buffers of bit streams are neither lost nor shared nor used after   *)
(* their release, for any number of objects and bits.                      *)
(***************************************************************************)
THEOREM OwnedOnceAlways == MCSpec => []OwnedOnce
<1>1. Inv => OwnedOnce
  BY DEF Inv
<1>2. Inv /\ Typed /\ [Next]_vars => Inv' /\ Typed'
  BY EveryStep
<1>3. Spec => []OwnedOnce
  BY <1>1, <1>2, StartsEmpty, PTL DEF Spec
<1> QED
  BY <1>3, OnePart

-----------------------------------------------------------------------------

(***************************************************************************)
(* The signals of an interface.                                            *)
(***************************************************************************)

\* The member is what the lanes were last written, and so is the signal's
\* next value; what was read is what the signal shows.
LanesKept ==
    /\ access \in {"whole", "flags", "bytes"}
    /\ width \in 1 .. MaxWidth
    /\ written = [i \in Signal!Lanes |-> written[i]]
    /\ pending = written
    /\ access # "whole" => member = written
    /\ Signal!ReadsLastWritten

SignalInv == part = "signal" => LanesKept

\* A signal shows its initial value, which counts as written.
LEMMA SignalStarts == MCInit => SignalInv
<1> SUFFICES ASSUME Signal!Init PROVE LanesKept
  BY DEF MCInit, SignalInv
<1>1. written = [i \in Signal!Lanes |-> written[i]]
  BY DEF Signal!Init
<1> QED
  BY <1>1 DEF Signal!Init, Signal!ReadsLastWritten, LanesKept

\* Every access of the interface and every delta cycle keep it.
LEMMA SignalStep ==
    ASSUME LanesKept, Signal!Next
    PROVE  LanesKept'
<1>1. ASSUME NEW n, NEW b, Signal!SetWhole([i \in 1 .. n |-> b = (i % 2 = 0)])
      PROVE  LanesKept'
  BY <1>1 DEF Signal!SetWhole, LanesKept, Signal!ReadsLastWritten, Signal!Lanes
<1>2. ASSUME NEW i \in Signal!Lanes, NEW value, Signal!SetLane(i, value)
      PROVE  LanesKept'
  BY <1>2 DEF Signal!SetLane, LanesKept, Signal!ReadsLastWritten, Signal!Lanes
<1>3. CASE Signal!Update
  BY <1>3 DEF Signal!Update, LanesKept, Signal!ReadsLastWritten, Signal!Lanes
<1>4. CASE Signal!Get
  <2>1. UNCHANGED <<access, width, member, pending, signal, written>>
    BY <1>4 DEF Signal!Get
  <2>2. ASSUME signal' = pending', NEW i \in Signal!Lanes'
        PROVE  \/ got'[i + 1] = written'[i]
               \/ access' # "bytes" /\ Signal!Type' = "uint64_t" /\ i >= UNSIGNED
    <3>1. Signal!Type' = Signal!Type /\ Signal!Lanes' = Signal!Lanes
      BY <2>1 DEF Signal!Type, Signal!Lanes
    <3>2. got'[i + 1] \in IF access = "bytes" THEN {signal[i]}
                          ELSE Signal!GetBool(signal, i)
      BY <1>4, <2>2, <3>1 DEF Signal!Get
    <3>3. signal[i] = written[i]
      BY <2>1, <2>2 DEF LanesKept
    <3>4. CASE access = "bytes" \/ ~(Signal!Type = "uint64_t" /\ i >= UNSIGNED)
      <4>1. got'[i + 1] = signal[i]
        BY <3>2, <3>4 DEF Signal!GetBool
      <4> QED
        BY <2>1, <3>3, <4>1
    <3>5. CASE access # "bytes" /\ Signal!Type = "uint64_t" /\ i >= UNSIGNED
      BY <2>1, <3>1, <3>5
    <3> QED
      BY <3>4, <3>5
  <2>3. Signal!ReadsLastWritten'
    BY <2>2 DEF Signal!ReadsLastWritten
  <2> QED
    BY <2>1, <2>3 DEF LanesKept, Signal!Lanes
<1> QED
  BY <1>1, <1>2, <1>3, <1>4 DEF Signal!Next

(***************************************************************************)
(* Writes of single lanes of a signal in one delta cycle are not lost, for *)
(* every width, and a reader gets what was last written, but for flags and *)
(* ids from bit UNSIGNED on of a 64-bit integer.                           *)
(***************************************************************************)
THEOREM ReadsLastWrittenAlways == MCSpec => []ReadsLastWritten
<1>1. ASSUME SignalInv, [MCNext]_<<part, vars, bus, printer>>
      PROVE  SignalInv'
  <2>1. CASE part = "signal" /\ Signal!Next /\ UNCHANGED part
    BY <1>1, <2>1, SignalStep DEF SignalInv
  <2>2. CASE UNCHANGED <<part, bus>>
    BY <1>1, <2>2 DEF SignalInv, LanesKept, bus, Signal!ReadsLastWritten,
                      Signal!Lanes, Signal!Type
  <2> QED
    BY <1>1, <2>1, <2>2 DEF MCNext, bus, vars, printer, SignalInv
<1>2. SignalInv => ReadsLastWritten
  BY DEF SignalInv, LanesKept, ReadsLastWritten
<1> QED
  BY <1>1, <1>2, SignalStarts, PTL DEF MCSpec

-----------------------------------------------------------------------------
\* Items and the packets they stand for.

\* The transfers, the bytes and the tuser of an item.
Whole(item) == (Len(item.tdata) + BUS_SIZE - 1) \div BUS_SIZE

Lane(item, i) == IF i <= Len(item.tdata) THEN item.tdata[i] ELSE NullByte

User(item, i) == IF i <= Len(item.tuser) THEN item.tuser[i] ELSE 0

\* What a monitor has collected after k transfers of an item.
Part(item, k) ==
    IF k = 0 THEN NoPacket
    ELSE [tuser |-> [i \in 1 .. k |-> User(item, i)],
          tdata |-> [i \in 1 .. k * BUS_SIZE |-> Lane(item, i)],
          bus_size |-> BUS_SIZE]

\* The transfer number k + 1 of an item.
Nth(item, k) ==
    [tkeep |-> [i \in 1 .. BUS_SIZE |-> Tkeep(Lane(item, k * BUS_SIZE + i))],
     tstrb |-> [i \in 1 .. BUS_SIZE |-> Tstrb(Lane(item, k * BUS_SIZE + i))],
     tdata |-> [i \in 1 .. BUS_SIZE |-> Lane(item, k * BUS_SIZE + i).data],
     tuser |-> User(item, k + 1),
     tlast |-> k * BUS_SIZE + BUS_SIZE >= Len(item.tdata)]

\* The lanes of an item are bytes.
LEMMA LaneByte ==
    ASSUME NEW item \in TestItems, NEW i \in Nat \ {0}
    PROVE  Lane(item, i) \in DataBytes
<1>1. item.tdata \in Seq(DataBytes)
  BY DEF TestItems
<1>2. NullByte \in DataBytes
  BY DEF NullByte, TdataByte, DataBytes
<1>3. CASE i <= Len(item.tdata)
  <2> DEFINE s == item.tdata
  <2>1. s \in Seq(DataBytes) /\ i \in 1 .. Len(s)
    BY <1>1, <1>3
  <2> HIDE DEF s
  <2>2. s[i] \in DataBytes
    BY <2>1, ElementOfSeq
  <2> QED
    BY <1>3, <2>2 DEF Lane, s
<1>4. CASE ~(i <= Len(item.tdata))
  BY <1>2, <1>4 DEF Lane
<1> QED
  BY <1>3, <1>4

\* A monitor reads the byte that the driver wrote.
LEMMA RoundTrip ==
    ASSUME NEW byte \in DataBytes
    PROVE  TdataByte(byte.data, TypeOf(Tkeep(byte), Tstrb(byte))) = byte
<1>1. TypeOf(Tkeep(byte), Tstrb(byte)) = byte.type
  BY DEF TypeOf, Tkeep, Tstrb, DataBytes
<1>2. byte = [type |-> byte.type, data |-> byte.data]
  BY DEF DataBytes
<1> QED
  BY <1>1, <1>2 DEF TdataByte

\* The driver writes the transfers of its item.
LEMMA TransferIs ==
    ASSUME NEW s, NEW item \in TestItems, NEW k \in Nat,
           s.item = item, s.index = k * BUS_SIZE, s.transfer = k
    PROVE  Transfer(s) = Nth(item, k)
<1>1. Len(item.tuser) \in Nat
  BY DEF TestItems
<1>2. (s.transfer < Len(item.tuser)) <=> (k + 1 <= Len(item.tuser))
  BY <1>1
<1> QED
  BY <1>2 DEF Transfer, Nth, Lane, User

\* What has been collected grows by a transfer.
LEMMA CollectPart ==
    ASSUME NEW item \in TestItems, NEW k \in Nat
    PROVE  Collect(Part(item, k), Nth(item, k)) = Part(item, k + 1)
<1> DEFINE w == Nth(item, k)
           b == k * BUS_SIZE
           new == [i \in 1 .. BUS_SIZE |-> Lane(item, b + i)]
           lanes(n) == [i \in 1 .. n |-> Lane(item, i)]
           users(n) == [i \in 1 .. n |-> User(item, i)]
<1>1. b \in Nat /\ BUS_SIZE \in Nat /\ (k + 1) * BUS_SIZE = b + BUS_SIZE
  BY TestbenchAssumption
<1>2. [i \in 1 .. BUS_SIZE |->
          TdataByte(w.tdata[i], TypeOf(w.tkeep[i], w.tstrb[i]))] = new
  <2>1. ASSUME NEW i \in 1 .. BUS_SIZE
        PROVE  TdataByte(w.tdata[i], TypeOf(w.tkeep[i], w.tstrb[i]))
                   = Lane(item, b + i)
    <3>1. b + i \in Nat \ {0}
      BY <1>1
    <3>2. Lane(item, b + i) \in DataBytes
      BY <3>1, LaneByte
    <3>3. /\ w.tdata[i] = Lane(item, b + i).data
          /\ w.tkeep[i] = Tkeep(Lane(item, b + i))
          /\ w.tstrb[i] = Tstrb(Lane(item, b + i))
      BY DEF Nth
    <3> QED
      BY <3>2, <3>3, RoundTrip
  <2> QED
    BY <2>1
<1>3. w.tuser = User(item, k + 1)
  BY DEF Nth
<1> HIDE DEF w
<1>4. Collect(Part(item, k), w) =
          [tuser |-> Append(Part(item, k).tuser, User(item, k + 1)),
           tdata |-> Part(item, k).tdata \o new,
           bus_size |-> BUS_SIZE]
  BY <1>2, <1>3 DEF Collect
<1>5. Part(item, k).tuser = users(k) /\ Part(item, k).tdata = lanes(b)
  <2>1. CASE k = 0
    <3>1. b = 0
      BY <1>1, <2>1
    <3>2. users(0) = <<>> /\ lanes(0) = <<>>
      OBVIOUS
    <3> QED
      BY <2>1, <3>1, <3>2 DEF Part, NoPacket
  <2>2. CASE k # 0
    BY <2>2 DEF Part
  <2> QED
    BY <2>1, <2>2
<1>6. Append(users(k), User(item, k + 1)) = users(k + 1)
  OBVIOUS
<1>7. lanes(b) \o new = lanes(b + BUS_SIZE)
  <2> HIDE DEF b
  <2> QED
    BY <1>1
<1>8. Part(item, k + 1) = [tuser |-> users(k + 1), tdata |-> lanes(b + BUS_SIZE),
                           bus_size |-> BUS_SIZE]
  <2>1. k + 1 # 0
    OBVIOUS
  <2> QED
    BY <1>1, <2>1 DEF Part
<1> HIDE DEF users, lanes, new, b
<1> QED
  BY <1>4, <1>5, <1>6, <1>7, <1>8 DEF w

\* After its last transfer the packet is whole.
LEMMA PartWhole ==
    ASSUME NEW item \in TestItems, NEW k \in Nat,
           k * BUS_SIZE < Len(item.tdata), Nth(item, k).tlast
    PROVE  Part(item, k + 1) = Padded(item)
<1> DEFINE b == k * BUS_SIZE
           n == Len(item.tdata)
<1>1. b \in Nat /\ BUS_SIZE \in Nat /\ BUS_SIZE >= 1
      /\ (k + 1) * BUS_SIZE = b + BUS_SIZE
  BY TestbenchAssumption
<1>2. n \in Nat /\ b < n /\ n <= b + BUS_SIZE
  <2>1. item.tdata \in Seq(DataBytes)
    BY DEF TestItems
  <2>2. n \in Nat
    BY <2>1, LenProperties
  <2>3. b + BUS_SIZE >= n
    BY DEF Nth
  <2> HIDE DEF b, n
  <2>4. n <= b + BUS_SIZE
    BY <1>1, <2>2, <2>3
  <2> QED
    BY <2>2, <2>4 DEF b, n
<1> HIDE DEF b, n
<1>3. n + BUS_SIZE - 1 \in Nat /\ (k + 1) * BUS_SIZE <= n + BUS_SIZE - 1
      /\ n + BUS_SIZE - 1 < (k + 1) * BUS_SIZE + BUS_SIZE
  BY <1>1, <1>2
<1>4. (n + BUS_SIZE - 1) \div BUS_SIZE = k + 1
  <2> DEFINE x == n + BUS_SIZE - 1
             y == k + 1
  <2>1. x \in Nat /\ y \in Nat /\ y * BUS_SIZE <= x /\ x < y * BUS_SIZE + BUS_SIZE
    BY <1>3
  <2> HIDE DEF x, y
  <2>2. x \div BUS_SIZE = y
    BY <1>1, <2>1, DivIs
  <2> QED
    BY <2>2 DEF x, y
<1>5. Whole(item) = k + 1
  BY <1>4 DEF Whole, n
<1>6. Padded(item) =
          [tuser |-> [i \in 1 .. Whole(item) |-> User(item, i)],
           tdata |-> [i \in 1 .. Whole(item) * BUS_SIZE |-> Lane(item, i)],
           bus_size |-> BUS_SIZE]
  BY DEF Padded, Whole, User, Lane
<1>7. k + 1 # 0
  OBVIOUS
<1> QED
  BY <1>5, <1>6, <1>7 DEF Part

-----------------------------------------------------------------------------
\* The items with data, in the order of the sequence.

\* The recursive definition of DataAmong has a solution, and this is it.
LEMMA DataStep ==
    ASSUME NEW items \in Seq(TestItems)
    PROVE  LET data == DataAmong(items)
               next_(n) == IF items[n].type = "DATA"
                             THEN Append(data[n - 1], items[n]) ELSE data[n - 1]
           IN  /\ data[0] = <<>>
               /\ \A n \in 1 .. Len(items) : data[n] = next_(n)
<1> DEFINE L == Len(items)
           F(f, m) == [n \in 0 .. m |->
                          IF n = 0 THEN <<>>
                          ELSE IF items[n].type = "DATA"
                                 THEN Append(f[n - 1], items[n]) ELSE f[n - 1]]
           S == {m \in Nat : \E f : f = F(f, m)}
<1>1. L \in Nat
  BY LenProperties
<1>2. 0 \in S
  <2> DEFINE f == [n \in 0 .. 0 |-> <<>>]
  <2>1. f = F(f, 0)
    OBVIOUS
  <2> HIDE DEF f, F
  <2> QED
    BY <2>1
<1>3. ASSUME NEW m \in 0 .. L - 1, m \in S PROVE m + 1 \in S
  <2>1. PICK f : f = F(f, m)
    BY <1>3
  <2> DEFINE new == IF items[m + 1].type = "DATA"
                      THEN Append(f[m], items[m + 1]) ELSE f[m]
             g == [n \in 0 .. m + 1 |-> IF n = m + 1 THEN new ELSE f[n]]
  <2>2. m \in Nat /\ m + 1 \in Nat
    BY <1>1
  <2>3. ASSUME NEW n \in 0 .. m + 1 PROVE g[n] = F(g, m + 1)[n]
    <3>1. CASE n = m + 1
      <4>1. n # 0 /\ n - 1 = m /\ m \in 0 .. m + 1 /\ m # m + 1
        BY <2>2, <3>1
      <4>2. g[m] = f[m]
        BY <4>1
      <4>3. F(g, m + 1)[n] = new
        BY <3>1, <4>1, <4>2
      <4> QED
        BY <3>1, <4>3
    <3>2. CASE n # m + 1
      <4>1. n \in 0 .. m /\ (n # 0 => n - 1 \in 0 .. m /\ n - 1 # m + 1)
        BY <2>2, <3>2
      <4>2. g[n] = f[n] /\ (n # 0 => g[n - 1] = f[n - 1])
        BY <2>2, <3>2, <4>1
      <4>3. f[n] = F(f, m)[n]
        BY <2>1
      <4>4. F(f, m)[n] = F(g, m + 1)[n]
        <5> HIDE DEF g
        <5> QED
          BY <4>1, <4>2
      <4> QED
        BY <4>2, <4>3, <4>4
    <3> QED
      BY <3>1, <3>2
  <2>4. g = F(g, m + 1)
    <3>1. DOMAIN g = 0 .. m + 1 /\ DOMAIN F(g, m + 1) = 0 .. m + 1
      OBVIOUS
    <3> QED
      BY <2>3, <3>1
  <2> HIDE DEF g, F
  <2> QED
    BY <2>2, <2>4
<1> HIDE DEF S
<1>4. L \in S
  BY <1>1, <1>2, <1>3, Induction
<1> USE DEF S
<1>5. \E f : f = F(f, L)
  BY <1>4
<1>6. DataAmong(items) = CHOOSE f : f = F(f, L)
  BY DEF DataAmong
<1> DEFINE data == DataAmong(items)
<1>7. data = F(data, L)
  <2> HIDE DEF F
  <2> QED
    BY <1>5, <1>6
<1> HIDE DEF data
<1>8. \A n \in 0 .. L : data[n] = IF n = 0 THEN <<>>
                          ELSE IF items[n].type = "DATA"
                                 THEN Append(data[n - 1], items[n]) ELSE data[n - 1]
  BY <1>7
<1>9. 0 \in 0 .. L /\ \A n \in 1 .. L : n \in 0 .. L /\ n # 0
  BY <1>1
<1> QED
  BY <1>8, <1>9 DEF data

\* The items with data are items.
LEMMA DataSeq ==
    ASSUME NEW items \in Seq(TestItems), NEW n \in 0 .. Len(items)
    PROVE  /\ DataAmong(items)[n] \in Seq(TestItems)
           /\ Len(DataAmong(items)[n]) \in Nat
<1> DEFINE L == Len(items)
           data == DataAmong(items)
           AtPlace(m) == m <= L => data[m] \in Seq(TestItems)
           S == {m \in Nat : AtPlace(m)}
<1>1. L \in Nat
  BY LenProperties
<1>2. /\ data[0] = <<>>
      /\ \A m \in 1 .. L : data[m] = IF items[m].type = "DATA"
                             THEN Append(data[m - 1], items[m]) ELSE data[m - 1]
  BY DataStep
<1> HIDE DEF data
<1>3. 0 \in S
  <2>1. data[0] \in Seq(TestItems)
    BY <1>2
  <2>2. AtPlace(0)
    BY <2>1
  <2> HIDE DEF AtPlace
  <2> QED
    BY <2>2
<1>4. ASSUME NEW m \in 0 .. L - 1, m \in S PROVE m + 1 \in S
  <2>1. m \in Nat /\ m + 1 \in 1 .. L /\ m + 1 - 1 = m /\ m <= L
    BY <1>1
  <2>2. data[m] \in Seq(TestItems)
    <3>1. AtPlace(m)
      BY <1>4
    <3> QED
      BY <2>1, <3>1
  <2>3. items[m + 1] \in TestItems
    BY <2>1, ElementOfSeq
  <2> DEFINE i == m + 1
  <2>4. data[i] = IF items[i].type = "DATA"
                    THEN Append(data[m], items[i]) ELSE data[m]
    BY <1>2, <2>1
  <2>5. Append(data[m], items[i]) \in Seq(TestItems)
    BY <2>2, <2>3, AppendProperties
  <2>6. AtPlace(m + 1)
    BY <2>2, <2>4, <2>5
  <2> HIDE DEF AtPlace
  <2> QED
    BY <2>1, <2>6
<1> HIDE DEF S
<1>5. L \in S
  BY <1>1, <1>3, <1>4, Induction
<1>6. n \in S
  <2>1. n \in Nat /\ \A k \in 0 .. n - 1 : k \in 0 .. L - 1
    BY <1>1
  <2>2. \A k \in 0 .. n - 1 : k \in S => k + 1 \in S
    BY <1>4, <2>1
  <2> QED
    BY <1>3, <2>1, <2>2, Induction
<1>7. n <= L
  BY <1>1
<1>8. data[n] \in Seq(TestItems)
  BY <1>6, <1>7 DEF S
<1> QED
  BY <1>8, LenProperties DEF data

\* One sequence begins with another.
Begins(a, b) == Len(a) <= Len(b) /\ \A i \in 1 .. Len(a) : a[i] = b[i]

\* The items with data among the first n are the first of all of them.
LEMMA DataPrefix ==
    ASSUME NEW items \in Seq(TestItems), NEW n \in 0 .. Len(items)
    PROVE  Begins(DataAmong(items)[n], DataAmong(items)[Len(items)])
<1> DEFINE L == Len(items)
           data == DataAmong(items)
           AtPlace(m) == n + m <= L => Begins(data[n], data[n + m])
           S == {m \in Nat : AtPlace(m)}
<1>1. L \in Nat /\ n \in Nat /\ n <= L
  BY LenProperties
<1>2. \A m \in 1 .. L : data[m] = IF items[m].type = "DATA"
                            THEN Append(data[m - 1], items[m]) ELSE data[m - 1]
  BY DataStep
<1>3. \A m \in 0 .. L : data[m] \in Seq(TestItems) /\ Len(data[m]) \in Nat
  BY DataSeq
<1> HIDE DEF data
<1>4. 0 \in S
  <2>1. n + 0 = n /\ Len(data[n]) \in Nat
    BY <1>1, <1>3
  <2>2. Begins(data[n], data[n])
    BY <2>1 DEF Begins
  <2>3. AtPlace(0)
    BY <2>1, <2>2
  <2> HIDE DEF AtPlace
  <2> QED
    BY <2>3
<1>5. ASSUME NEW m \in 0 .. (L - n) - 1, m \in S PROVE m + 1 \in S
  <2> DEFINE k == n + m
             i == n + (m + 1)
  <2>1. /\ m \in Nat /\ m + 1 \in Nat /\ k \in 0 .. L /\ k <= L
        /\ i \in 1 .. L /\ i - 1 = k
    BY <1>1
  <2>2. Begins(data[n], data[k])
    <3>1. AtPlace(m)
      BY <1>5
    <3> QED
      BY <2>1, <3>1
  <2>3. items[i] \in TestItems
    BY <2>1, ElementOfSeq
  <2>4. data[i] = IF items[i].type = "DATA"
                    THEN Append(data[k], items[i]) ELSE data[k]
    <3>1. data[i] = IF items[i].type = "DATA"
                    THEN Append(data[i - 1], items[i]) ELSE data[i - 1]
      <4> HIDE DEF i, k
      <4> QED
        BY <1>2, <2>1
    <3> QED
      BY <2>1, <3>1
  <2>5. data[k] \in Seq(TestItems) /\ Len(data[k]) \in Nat
        /\ data[n] \in Seq(TestItems) /\ Len(data[n]) \in Nat
    BY <1>1, <1>3, <2>1
  <2> HIDE DEF k, i
  <2>6. Begins(data[n], data[i])
    <3> DEFINE a == data[n]
               b == data[k]
               e == items[i]
    <3>1. a \in Seq(TestItems) /\ b \in Seq(TestItems) /\ e \in TestItems
          /\ Begins(a, b) /\ Len(a) \in Nat /\ Len(b) \in Nat
      BY <2>2, <2>3, <2>5
    <3>2. data[i] = Append(b, e) \/ data[i] = b
      BY <2>4
    <3> HIDE DEF a, b, e
    <3>3. Begins(a, Append(b, e))
      <4>1. /\ Len(Append(b, e)) = Len(b) + 1
            /\ \A j \in 1 .. Len(b) : Append(b, e)[j] = b[j]
        BY <3>1, AppendProperties
      <4> QED
        BY <3>1, <4>1 DEF Begins
    <3>4. Begins(a, data[i])
      BY <3>1, <3>2, <3>3
    <3> QED
      BY <3>4 DEF a
  <2>7. AtPlace(m + 1)
    BY <2>6 DEF i
  <2> HIDE DEF AtPlace
  <2> QED
    BY <2>1, <2>7
<1> DEFINE d == L - n
<1>6. d \in Nat /\ n + d = L /\ n + d <= L
  BY <1>1
<1>7. \A m \in 0 .. d - 1 : m \in S => m + 1 \in S
  BY <1>5
<1> HIDE DEF S, d
<1>8. d \in S
  BY <1>4, <1>6, <1>7, Induction
<1>9. Begins(data[n], data[n + d])
  BY <1>6, <1>8 DEF S
<1> QED
  BY <1>6, <1>9 DEF data

\* An item with data is the next of them.
LEMMA DataNext ==
    ASSUME NEW items \in Seq(TestItems), NEW n \in 1 .. Len(items)
    PROVE  LET data == DataAmong(items)
               all == data[Len(items)]
               k == Len(data[n - 1])
           IN  /\ k \in Nat /\ Len(all) \in Nat
               /\ Len(data[n]) = IF items[n].type = "DATA" THEN k + 1 ELSE k
               /\ Len(data[n]) <= Len(all)
               /\ items[n].type = "DATA" => all[k + 1] = items[n]
<1> DEFINE L == Len(items)
           data == DataAmong(items)
           all == data[L]
           old == data[n - 1]
           k == Len(old)
           e == items[n]
<1>1. L \in Nat /\ n - 1 \in 0 .. L /\ n \in 0 .. L /\ L \in 0 .. L
  <2>1. L \in Nat
    BY LenProperties
  <2> QED
    BY <2>1
<1>2. data[n] = IF e.type = "DATA" THEN Append(old, e) ELSE old
  BY DataStep
<1>3. /\ old \in Seq(TestItems) /\ k \in Nat /\ Len(all) \in Nat
      /\ Begins(data[n], all)
  BY <1>1, DataSeq, DataPrefix
<1>4. e \in TestItems
  BY ElementOfSeq
<1> HIDE DEF data, old, e, all, L
<1>5. Len(Append(old, e)) = k + 1 /\ Append(old, e)[k + 1] = e
  BY <1>3, <1>4, AppendProperties
<1>6. Len(data[n]) = IF e.type = "DATA" THEN k + 1 ELSE k
  BY <1>2, <1>5
<1>7. e.type = "DATA" => all[k + 1] = e
  <2> SUFFICES ASSUME e.type = "DATA" PROVE all[k + 1] = e
    OBVIOUS
  <2>1. Len(data[n]) = k + 1 /\ data[n][k + 1] = e
    BY <1>2, <1>5
  <2>2. k + 1 \in 1 .. Len(data[n])
    BY <1>3, <2>1
  <2> QED
    BY <1>3, <2>1, <2>2 DEF Begins
<1>8. Len(data[n]) <= Len(all)
  BY <1>3 DEF Begins
<1> QED
  BY <1>3, <1>6, <1>7, <1>8 DEF data, old, e, all, L

-----------------------------------------------------------------------------
\* The invariant: what holds as long as nothing has disturbed the test.

\* What a monitor has reported, and what it is collecting, after a transfer.
SeenAfter(packetsSeen, packet, word) ==
    IF word.tlast THEN Append(packetsSeen, Collect(packet, word))
                  ELSE packetsSeen

PartAfter(packet, word) ==
    IF word.tlast THEN NoPacket ELSE Collect(packet, word)

\* All packets a monitor may report.
Reports == {Padded(item) : item \in TestItems}

\* The packets of the rounds before this one.
Base == Len(sent) - Len(DataItems)

RxRecords == [busy : BOOLEAN, item : TestItems, running : BOOLEAN, idle : Nat,
              timeout : Int, index : Nat, transfer : Nat]

TxRecords == [busy : BOOLEAN, running : BOOLEAN, idle : Nat, timeout : Int]

ResetRecords == [busy : BOOLEAN, duration : Nat, idle : Nat]

LocalsOK ==
    /\ rx \in RxRecords
    /\ tx \in TxRecords
    /\ reset \in ResetRecords
    /\ rx_tvalid \in BOOLEAN
    /\ next["rx"] \in Nat /\ next["tx"] \in Nat
    /\ next \in [Sides -> Nat]
    /\ seen \in [Sides -> Seq(Reports)]
    /\ fifo \in [Sides -> Seq(Reports)]
    /\ DOMAIN packets = Sides

\* The packets that are sent are those of the items of the sequence.
SentOK ==
    /\ sequence \in [step : {"idle", "reset", "traffic"}, round : Nat,
                     items : Seq(TestItems)]
    /\ sequence.items \in Seq(TestItems)
    /\ \A i \in DOMAIN sequence.items :
          sequence.items[i].type = "DATA" => sequence.items[i].tdata # <<>>
    /\ sent \in Seq(Reports)
    /\ Base \in Nat
    /\ \A i \in 1 .. Len(DataItems) : sent[Base + i] = Padded(DataItems[i])

SeenOK == \A side \in Sides : Within(seen[side], sent)

(***************************************************************************)
(* The monitors differ by the word in the skid buffer.                     *)
(***************************************************************************)
DesignOK ==
    /\ fsm_state \in {"IDLE", "BUFFERED"}
    /\ DUT = "dead" => ~rx_tready /\ fsm_state = "IDLE"
    /\ fsm_state = "IDLE" => /\ seen["rx"] = seen["tx"]
                             /\ packets["rx"] = packets["tx"]
    /\ fsm_state = "BUFFERED" =>
          /\ ~rx_tready
          /\ seen["rx"] = SeenAfter(seen["tx"], packets["tx"], buffered)
          /\ packets["rx"] = PartAfter(packets["tx"], buffered)

ResetOK ==
    /\ sequence.step \in {"idle", "reset", "traffic"}
    /\ reset.busy => sequence.step = "reset"
    /\ sequence.step # "idle" /\ ~reset.busy => areset_n

\* Between two rounds everything has been delivered.
QuietOK ==
    sequence.step \in {"idle", "reset"} =>
        /\ ~rx.busy /\ ~tx.busy
        /\ fsm_state = "IDLE"
        /\ Len(seen["rx"]) = IF sequence.step = "idle" THEN Len(sent) ELSE Base

\* The Rx driver has begun the items before the next one.
Started == next["rx"] - 1

Sends(s) == s.busy /\ s.running /\ s.item.type = "DATA"

(***************************************************************************)
(* The driver has sent its item up to the transfer k + 1, if that is on    *)
(* the bus, else up to k, and is not at the end.                           *)
(***************************************************************************)
Feeds(s, valid, word, k) ==
    /\ k \in Nat
    /\ valid => /\ s.transfer = k + 1 /\ s.index = (k + 1) * BUS_SIZE
                /\ k * BUS_SIZE < Len(s.item.tdata)
                /\ word = Nth(s.item, k)
    /\ ~valid => /\ s.transfer = k /\ s.index = k * BUS_SIZE
                 /\ k * BUS_SIZE < Len(s.item.tdata)

\* The transfers of its item that were accepted.
Accepted == IF rx_tvalid THEN rx.transfer - 1 ELSE rx.transfer

RxOK ==
    /\ ~Sends(rx) => ~rx_tvalid /\ packets["rx"] = NoPacket
    /\ Sends(rx) => /\ Feeds(rx, rx_tvalid, rx_word, Accepted)
                    /\ packets["rx"] = Part(rx.item, Accepted)
                    /\ sequence.step = "traffic"
    /\ sequence.step = "traffic" =>
        /\ Started \in 0 .. Len(sequence.items)
        /\ Sends(rx) => Started > 0 /\ rx.item = sequence.items[Started]
        /\ Len(seen["rx"]) = Base + Len(DataAmong(sequence.items)[Started])
                                - (IF Sends(rx) THEN 1 ELSE 0)

\* The Tx driver may miss the end of a packet, but sees no other ends.
TxOK ==
    sequence.step = "traffic" =>
        Len(seen["tx"]) + (IF tx.busy /\ tx.running THEN 1 ELSE 0)
            >= Base + (next["tx"] - 1)

\* The scoreboard has taken as many packets of one side as of the other.
FifoOK ==
    /\ Len(seen["rx"]) - Len(fifo["rx"]) = Len(seen["tx"]) - Len(fifo["tx"])
    /\ \A side \in Sides :
          /\ Len(fifo[side]) <= Len(seen[side])
          /\ \A i \in 1 .. Len(fifo[side]) :
                fifo[side][i] = seen[side][Len(seen[side]) - Len(fifo[side]) + i]
    /\ ~m_error

Undisturbed ==
    /\ LocalsOK /\ SentOK /\ SeenOK /\ DesignOK /\ ResetOK /\ QuietOK
    /\ RxOK /\ TxOK /\ FifoOK

TestInv == ~disturbed => Undisturbed

-----------------------------------------------------------------------------
\* The parts of a clock edge.

\* One turn of the Rx driver that does not give up, out of reset, without an
\* item that is being sent.
LEMMA RxTurnIdle ==
    ASSUME NEW s \in RxRecords, s.busy, RxTurn(s, FALSE), areset_n,
           ~Sends(s), ~rx_tvalid
    PROVE  rx' \in RxRecords /\ ~Sends(rx') /\ ~rx_tvalid'
<1>1. CASE s.item.type = "IDLE"
  <2>1. IdleTurn(s, FALSE)
    BY <1>1 DEF RxTurn
  <2>2. ~rx_tvalid'
    BY <2>1 DEF IdleTurn
  <2>3. rx' \in RxRecords /\ rx'.item = s.item
    <3>1. CASE s.idle = 0
      <4>1. rx' = [s EXCEPT !.busy = FALSE]
        BY <2>1, <3>1 DEF IdleTurn
      <4> QED
        BY <4>1 DEF RxRecords
    <3>2. CASE s.idle > 0 /\ rx_tready
      <4>1. s.idle \in Nat
        BY DEF RxRecords
      <4>2. rx' = [s EXCEPT !.idle = @ - 1]
        BY <2>1, <3>2, <4>1 DEF IdleTurn
      <4>3. s.idle - 1 \in Nat
        BY <3>2, <4>1
      <4> QED
        BY <4>2, <4>3 DEF RxRecords
    <3>3. CASE ~(s.idle = 0) /\ ~(s.idle > 0 /\ rx_tready)
      <4>1. s.idle \in Nat
        BY DEF RxRecords
      <4>2. rx' = (IF Patient(s) THEN Wait(s) ELSE [s EXCEPT !.idle = 0])
            /\ (FALSE = (s.idle > 0 /\ ~rx_tready /\ ~Patient(s)))
        BY <2>1, <3>3 DEF IdleTurn
      <4>3. Patient(s)
        BY <3>3, <4>1, <4>2
      <4>4. rx' = s \/ rx' = [s EXCEPT !.timeout = @ - 1]
        BY <4>2, <4>3 DEF Wait
      <4> QED
        BY <4>4 DEF RxRecords
    <3> QED
      BY <3>1, <3>2, <3>3
  <2> QED
    BY <1>1, <2>2, <2>3 DEF Sends
<1>2. CASE s.item.type # "IDLE"
  <2>1. s.item.type = "DATA"
    BY <1>2 DEF RxRecords, TestItems
  <2>2. ~s.running
    BY <2>1 DEF Sends
  <2>3. Leave(s)
    BY <1>2, <2>2 DEF RxTurn, DataTurn
  <2> QED
    BY <2>3 DEF Leave, RxRecords, Sends
<1> QED
  BY <1>1, <1>2

\* The same for an item that is being sent.
LEMMA RxTurnSends ==
    ASSUME NEW s \in RxRecords, RxTurn(s, FALSE), areset_n, Sends(s),
           rx_tvalid \in BOOLEAN, NEW k, Feeds(s, rx_tvalid, rx_word, k)
    PROVE  /\ rx' \in RxRecords /\ rx_tvalid' \in BOOLEAN
           /\ IF rx_tvalid /\ rx_tready /\ rx_word.tlast
                THEN ~Sends(rx') /\ ~rx_tvalid'
                ELSE /\ Sends(rx') /\ rx'.item = s.item
                     /\ Feeds(rx', rx_tvalid', rx_word',
                              IF rx_tvalid /\ rx_tready THEN k + 1 ELSE k)
<1>1. DataTurn(s, FALSE)
  BY DEF RxTurn, Sends
<1>2. k \in Nat /\ s.running /\ s.busy /\ s.item.type = "DATA"
  BY DEF Feeds, Sends
<1> DEFINE n == Len(s.item.tdata)
           b == k * BUS_SIZE
<1>3. /\ BUS_SIZE \in Nat /\ BUS_SIZE > 0 /\ b \in Nat /\ n \in Nat
      /\ (k + 1) * BUS_SIZE = b + BUS_SIZE
      /\ s.item \in TestItems /\ s.item.tdata \in Seq(DataBytes)
  <2>1. s.item \in TestItems
    BY DEF RxRecords
  <2>2. s.item.tdata \in Seq(DataBytes)
    BY <2>1 DEF TestItems
  <2>3. n \in Nat
    BY <2>2, LenProperties
  <2> QED
    BY <1>2, <2>1, <2>2, <2>3, TestbenchAssumption
<1>4. /\ b < n
      /\ rx_tvalid => /\ s.transfer = k + 1 /\ s.index = b + BUS_SIZE
                      /\ rx_word = Nth(s.item, k)
      /\ ~rx_tvalid => s.transfer = k /\ s.index = b
  BY <1>3 DEF Feeds
<1>5. rx_tvalid => (rx_word.tlast <=> ~(s.index < n))
  <2> SUFFICES ASSUME rx_tvalid PROVE rx_word.tlast <=> ~(s.index < n)
    OBVIOUS
  <2>1. rx_word.tlast = (b + BUS_SIZE >= n)
    BY <1>4 DEF Nth
  <2>2. s.index = b + BUS_SIZE
    BY <1>4
  <2> HIDE DEF b, n
  <2>3. (b + BUS_SIZE >= n) <=> ~(s.index < n)
    BY <1>3, <2>2
  <2> QED
    BY <2>1, <2>3
<1>6. ~rx_tvalid => s.index < n
  BY <1>4
<1>7. CASE rx_tready /\ ~(s.index < n)
  <2>1. Done(s)
    BY <1>1, <1>2, <1>7 DEF DataTurn
  <2>2. rx' = [s EXCEPT !.running = FALSE, !.timeout = TIMEOUT] /\ ~rx_tvalid'
    BY <2>1 DEF Done
  <2> DEFINE r1 == [s EXCEPT !.running = FALSE]
  <2>3. r1 \in RxRecords /\ ~r1.running
    BY DEF RxRecords
  <2>4. rx' = [r1 EXCEPT !.timeout = TIMEOUT]
    BY <2>2 DEF RxRecords
  <2>5. rx_tvalid' \in BOOLEAN
    BY <2>1 DEF Done
  <2> HIDE DEF r1
  <2>6. rx' \in RxRecords /\ ~rx'.running
    <3>1. TIMEOUT \in Int
      BY TestbenchAssumption
    <3> QED
      BY <2>3, <2>4, <3>1 DEF RxRecords
  <2> QED
    BY <1>5, <1>6, <1>7, <2>2, <2>5, <2>6 DEF Sends
<1>8. CASE rx_tready /\ s.index < n
  <2> DEFINE j == IF rx_tvalid THEN k + 1 ELSE k
  <2>1. /\ j \in Nat /\ s.transfer = j /\ s.index = j * BUS_SIZE
        /\ j * BUS_SIZE < n
    BY <1>2, <1>3, <1>4, <1>8
  <2>2. ~(rx_tvalid /\ rx_tready /\ rx_word.tlast)
    BY <1>5, <1>8
  <2>3. j = IF rx_tvalid /\ rx_tready THEN k + 1 ELSE k
    BY <1>8
  <2> HIDE DEF j
  <2>4. CASE s.idle = 0
    <3>1. Send(s)
      BY <1>1, <1>2, <1>8, <2>4 DEF DataTurn
    <3>2. PICK idle \in ValuesIn(RX_IDLE) :
             rx' = [s EXCEPT !.idle = idle, !.timeout = TIMEOUT,
                             !.index = @ + BUS_SIZE, !.transfer = @ + 1]
      BY <3>1 DEF Send
    <3>3. idle \in Nat
      BY <3>2, TestbenchAssumption DEF ValuesIn
    <3>4. /\ rx' \in RxRecords /\ rx'.item = s.item
          /\ rx'.busy = s.busy /\ rx'.running = s.running
          /\ rx'.transfer = j + 1 /\ rx'.index = j * BUS_SIZE + BUS_SIZE
      <4>1. rx' \in RxRecords
        <5>1. /\ s.index + BUS_SIZE \in Nat /\ s.transfer + 1 \in Nat
              /\ TIMEOUT \in Int
          BY <1>3, TestbenchAssumption DEF RxRecords
        <5> DEFINE r1 == [s EXCEPT !.idle = idle]
                   r2 == [r1 EXCEPT !.timeout = TIMEOUT]
                   r3 == [r2 EXCEPT !.index = s.index + BUS_SIZE]
                   r4 == [r3 EXCEPT !.transfer = s.transfer + 1]
        <5>2. r1 \in RxRecords
          BY <3>3 DEF RxRecords
        <5>3. r2 \in RxRecords
          <6> HIDE DEF r1
          <6> QED
            BY <5>1, <5>2 DEF RxRecords
        <5>4. r3 \in RxRecords
          <6> HIDE DEF r2
          <6> QED
            BY <5>1, <5>3 DEF RxRecords
        <5>5. r4 \in RxRecords
          <6> HIDE DEF r3
          <6> QED
            BY <5>1, <5>4 DEF RxRecords
        <5>6. rx' = r4
          BY <3>2 DEF RxRecords
        <5> QED
          BY <5>5, <5>6
      <4>2. /\ rx'.item = s.item /\ rx'.busy = s.busy
            /\ rx'.running = s.running /\ rx'.transfer = s.transfer + 1
            /\ rx'.index = s.index + BUS_SIZE
        BY <3>2 DEF RxRecords
      <4> QED
        BY <2>1, <4>1, <4>2
    <3>5. j * BUS_SIZE + BUS_SIZE = (j + 1) * BUS_SIZE
      BY <1>3, <2>1
    <3>6. rx_tvalid' /\ rx_word' = Nth(s.item, j)
      <4>1. Transfer(s) = Nth(s.item, j)
        BY <1>3, <2>1, TransferIs
      <4> QED
        BY <3>1, <4>1 DEF Send
    <3>7. Sends(rx') /\ Feeds(rx', rx_tvalid', rx_word', j)
      BY <1>2, <2>1, <3>4, <3>5, <3>6 DEF Sends, Feeds
    <3>8. rx_tvalid' \in BOOLEAN
      BY <3>1 DEF Send
    <3> QED
      BY <2>2, <2>3, <3>4, <3>7, <3>8
  <2>5. CASE s.idle # 0
    <3>1. s.idle \in Nat /\ s.idle > 0
      BY <2>5 DEF RxRecords
    <3>2. Rest(s)
      BY <1>1, <1>2, <1>8, <3>1 DEF DataTurn
    <3>3. rx' = [s EXCEPT !.idle = @ - 1, !.timeout = TIMEOUT]
          /\ ~rx_tvalid' /\ rx_tvalid' \in BOOLEAN
      BY <3>2 DEF Rest
    <3>4. /\ rx' \in RxRecords /\ rx'.item = s.item
          /\ rx'.busy = s.busy /\ rx'.running = s.running
          /\ rx'.transfer = s.transfer /\ rx'.index = s.index
      <4>1. s.idle - 1 \in Nat /\ TIMEOUT \in Int
        BY <3>1, TestbenchAssumption
      <4> DEFINE r1 == [s EXCEPT !.idle = s.idle - 1]
      <4>2. /\ r1 \in RxRecords /\ r1.item = s.item /\ r1.busy = s.busy
            /\ r1.running = s.running /\ r1.transfer = s.transfer
            /\ r1.index = s.index
        BY <4>1 DEF RxRecords
      <4>3. rx' = [r1 EXCEPT !.timeout = TIMEOUT]
        BY <3>3 DEF RxRecords
      <4> HIDE DEF r1
      <4> QED
        BY <4>1, <4>2, <4>3 DEF RxRecords
    <3>5. Sends(rx') /\ Feeds(rx', rx_tvalid', rx_word', j)
      BY <1>2, <2>1, <3>3, <3>4 DEF Sends, Feeds
    <3> QED
      BY <2>2, <2>3, <3>3, <3>4, <3>5
  <2> QED
    BY <2>4, <2>5
<1>9. CASE ~rx_tready
  <2>1. Stalled(s) /\ Patient(s)
    BY <1>1, <1>2, <1>9 DEF DataTurn
  <2>2. rx' = Wait(s) /\ rx_tvalid' = rx_tvalid /\ rx_word' = rx_word
    BY <2>1 DEF Stalled
  <2>3. /\ rx' \in RxRecords /\ rx'.item = s.item
        /\ rx'.busy = s.busy /\ rx'.running = s.running
        /\ rx'.transfer = s.transfer /\ rx'.index = s.index
    <3>1. CASE TIMEOUT = 0
      BY <2>2, <3>1 DEF Wait
    <3>2. CASE TIMEOUT # 0
      <4>1. rx' = [s EXCEPT !.timeout = @ - 1]
        BY <2>2, <3>2 DEF Wait
      <4> QED
        BY <4>1 DEF RxRecords
    <3> QED
      BY <3>1, <3>2
  <2>4. Sends(rx') /\ Feeds(rx', rx_tvalid', rx_word', k)
    BY <1>2, <2>2, <2>3 DEF Sends, Feeds
  <2> QED
    BY <1>9, <2>2, <2>3, <2>4
<1> QED
  BY <1>7, <1>8, <1>9

\* One turn of the Tx driver that does not give up, out of reset.
LEMMA TxTurnStep ==
    ASSUME NEW s \in TxRecords, NEW tready, areset_n,
           TxTurn(s, tready, FALSE)
    PROVE  /\ tx' \in TxRecords
           /\ s.running => tx'.busy = s.busy
           /\ ~s.running => ~tx'.running
           /\ s.running => (tx'.running <=> ~(tready /\ tx_tvalid /\ tx_word.tlast))
<1> DEFINE taken == s.running /\ tready /\ tx_tvalid
           running == IF taken THEN ~tx_word.tlast ELSE s.running
           left == IF taken THEN TIMEOUT ELSE s.timeout
           late == running /\ TIMEOUT # 0 /\ left = 0
           idle == IF late THEN 0 ELSE s.idle
<1>1. CASE ~(s.running \/ s.idle # 0)
  BY <1>1 DEF TxTurn, TxRecords
<1>2. CASE s.running \/ s.idle # 0
  <2>1. ~late
    BY <1>2 DEF TxTurn
  <2>2. PICK drawn \in IF running /\ ~late THEN ValuesIn(TX_IDLE) ELSE {0} :
             tx' = [s EXCEPT
                      !.running = running /\ ~late,
                      !.timeout = IF running /\ TIMEOUT # 0 /\ ~late
                                    THEN left - 1 ELSE left,
                      !.idle = IF idle = 0 THEN drawn ELSE idle - 1]
    BY <1>2 DEF TxTurn
  <2>3. drawn \in Nat
    BY <2>2, TestbenchAssumption DEF ValuesIn
  <2>4. idle \in Nat /\ left \in Int
    BY TestbenchAssumption DEF TxRecords
  <2> DEFINE newRunning == running /\ ~late
             newTimeout == IF running /\ TIMEOUT # 0 /\ ~late THEN left - 1 ELSE left
             newIdle == IF idle = 0 THEN drawn ELSE idle - 1
  <2>5. newTimeout \in Int /\ newIdle \in Nat /\ newRunning \in BOOLEAN
    <3> HIDE DEF idle, left
    <3> QED
      BY <2>3, <2>4
  <2>6. newRunning <=> running
    BY <2>1
  <2> HIDE DEF newTimeout, newIdle, newRunning
  <2>7. tx' = [s EXCEPT !.running = newRunning, !.timeout = newTimeout,
                        !.idle = newIdle]
    BY <2>2 DEF newTimeout, newIdle, newRunning
  <2>8. tx' \in TxRecords /\ tx'.busy = s.busy /\ tx'.running = newRunning
    BY <2>5, <2>7 DEF TxRecords
  <2> QED
    BY <2>6, <2>8
<1> QED
  BY <1>1, <1>2

\* What the monitors make of a clock edge out of reset.
LEMMA MonitorStep ==
    ASSUME Monitors, areset_n, NEW side \in Sides
    PROVE  LET taken == Sample(side).taken
               word == Sample(side).word
           IN  /\ seen'[side] = IF taken
                                  THEN SeenAfter(seen[side], packets[side], word)
                                  ELSE seen[side]
               /\ packets'[side] = IF taken THEN PartAfter(packets[side], word)
                                            ELSE packets[side]
               /\ fifo'[side] = IF taken /\ word.tlast
                                  THEN Append(fifo[side], Collect(packets[side], word))
                                  ELSE fifo[side]
               /\ DOMAIN seen' = Sides /\ DOMAIN fifo' = Sides
               /\ DOMAIN packets' = Sides
<1>1. Finished(side) <=> Sample(side).taken /\ Sample(side).word.tlast
  BY DEF Finished
<1>2. Complete(side) = Collect(packets[side], Sample(side).word)
  BY DEF Complete
<1>3. /\ seen'[side] = IF Finished(side) THEN Append(seen[side], Complete(side))
                                         ELSE seen[side]
      /\ fifo'[side] = IF Finished(side) THEN Append(fifo[side], Complete(side))
                                         ELSE fifo[side]
      /\ DOMAIN seen' = Sides /\ DOMAIN fifo' = Sides /\ DOMAIN packets' = Sides
  BY DEF Monitors
<1>4. packets'[side] = CASE Finished(side) -> NoPacket
            [] Sample(side).taken /\ ~Finished(side) -> Complete(side)
            [] ~Finished(side) /\ ~Sample(side).taken -> packets[side]
  BY <1>1 DEF Monitors
<1> QED
  BY <1>1, <1>2, <1>3, <1>4 DEF SeenAfter, PartAfter

\* The same in reset, and when no transfer takes place.
LEMMA MonitorsRest ==
    ASSUME Monitors, NEW side \in Sides,
           ~Sample(side).taken, packets[side] = NoPacket
    PROVE  /\ seen'[side] = seen[side] /\ packets'[side] = NoPacket
           /\ fifo'[side] = fifo[side]
           /\ DOMAIN seen' = Sides /\ DOMAIN fifo' = Sides
           /\ DOMAIN packets' = Sides
<1>1. ~Finished(side)
  BY DEF Finished
<1> QED
  BY <1>1 DEF Monitors

\* Nothing is on its way from the skid buffer: the monitors agree again.
LEMMA DesignStep ==
    ASSUME DesignOK, DOMAIN seen = Sides, Monitors, areset_n, RegistersStep,
           rx_tvalid \in BOOLEAN
    PROVE  /\ DesignOK'
           /\ seen'["tx"] \in {seen["tx"], seen["rx"], seen'["rx"]}
           /\ fsm_state' = "BUFFERED" => seen'["tx"] = seen["tx"]
<1> DEFINE rxTaken == rx_tvalid /\ rx_tready
           txTaken == tx_tvalid /\ tx_tready
<1>1. /\ seen'["rx"] = IF rxTaken
                         THEN SeenAfter(seen["rx"], packets["rx"], rx_word)
                         ELSE seen["rx"]
      /\ packets'["rx"] = IF rxTaken THEN PartAfter(packets["rx"], rx_word)
                                     ELSE packets["rx"]
  <2>1. Sample("rx").taken = rxTaken /\ Sample("rx").word = rx_word
    BY DEF Sample
  <2> QED
    BY <2>1, MonitorStep DEF Sides
<1>2. /\ seen'["tx"] = IF txTaken
                         THEN SeenAfter(seen["tx"], packets["tx"], tx_word)
                         ELSE seen["tx"]
      /\ packets'["tx"] = IF txTaken THEN PartAfter(packets["tx"], tx_word)
                                     ELSE packets["tx"]
  <2>1. Sample("tx").taken = txTaken /\ Sample("tx").word = tx_word
    BY DEF Sample
  <2> QED
    BY <2>1, MonitorStep DEF Sides
<1>3. CASE DUT = "dead"
  <2>1. /\ ~rxTaken /\ ~txTaken /\ fsm_state = "IDLE"
        /\ fsm_state' = fsm_state /\ rx_tready' = rx_tready
    BY <1>3 DEF DesignOK, RegistersStep, tx_tvalid, design
  <2> QED
    BY <1>1, <1>2, <2>1 DEF DesignOK
<1>4. CASE DUT # "dead"
  <2>1. DUT = "buffer"
    BY <1>4, TestbenchAssumption
  <2>2. /\ fsm_state' = CASE fsm_state = "IDLE" /\ rx_tvalid /\ rx_tready /\ ~tx_tready
                                -> "BUFFERED"
                          [] fsm_state = "BUFFERED" /\ tx_tready -> "IDLE"
                          [] OTHER -> fsm_state
        /\ rx_tready' = tx_tready
        /\ buffered' = IF rx_tready THEN rx_word ELSE buffered
    BY <1>4 DEF RegistersStep, Design!FsmState, Design!RxReady, Design!Buffered
  <2>3. CASE fsm_state = "BUFFERED"
    <3>1. /\ ~rxTaken /\ buffered' = buffered /\ tx_word = buffered
          /\ (txTaken <=> tx_tready)
          /\ fsm_state' = IF tx_tready THEN "IDLE" ELSE "BUFFERED"
      BY <2>1, <2>2, <2>3
      DEF DesignOK, tx_tvalid, tx_word, Design!tx_tvalid, Design!tx_tdata
    <3>2. CASE tx_tready
      BY <1>1, <1>2, <1>4, <2>3, <3>1, <3>2 DEF DesignOK
    <3>3. CASE ~tx_tready
      BY <1>1, <1>2, <1>4, <2>2, <2>3, <3>1, <3>3 DEF DesignOK
    <3> QED
      BY <3>2, <3>3
  <2>4. CASE fsm_state = "IDLE"
    <3>1. /\ tx_word = rx_word /\ (txTaken <=> rxTaken /\ tx_tready)
          /\ fsm_state' = IF rxTaken /\ ~tx_tready THEN "BUFFERED" ELSE "IDLE"
      BY <2>1, <2>2, <2>4
      DEF tx_tvalid, tx_word, Design!tx_tvalid, Design!tx_tdata
    <3>2. seen["rx"] = seen["tx"] /\ packets["rx"] = packets["tx"]
      BY <2>4 DEF DesignOK
    <3>3. CASE rxTaken /\ ~tx_tready
      <4>1. rx_tready' = FALSE \/ ~rx_tready'
        BY <2>2, <3>3
      <4>2. buffered' = rx_word
        BY <2>2, <3>3
      <4> QED
        BY <1>1, <1>2, <1>4, <3>1, <3>2, <3>3, <4>1, <4>2 DEF DesignOK
    <3>4. CASE ~(rxTaken /\ ~tx_tready)
      <4>1. txTaken <=> rxTaken
        BY <3>1, <3>4
      <4>2. seen'["rx"] = seen'["tx"] /\ packets'["rx"] = packets'["tx"]
        BY <1>1, <1>2, <3>1, <3>2, <4>1
      <4> QED
        BY <1>4, <3>1, <3>4, <4>2 DEF DesignOK
    <3> QED
      BY <3>3, <3>4
  <2> QED
    BY <2>3, <2>4 DEF DesignOK
<1> QED
  BY <1>3, <1>4

\* Both get the packet, or none of them.
LEMMA FifoStep ==
    ASSUME FifoOK, seen \in [Sides -> Seq(Reports)],
           fifo \in [Sides -> Seq(Reports)], m_error' = m_error,
           \A side \in Sides :
              \/ seen'[side] = seen[side] /\ fifo'[side] = fifo[side]
              \/ \E packet \in Reports :
                    /\ seen'[side] = Append(seen[side], packet)
                    /\ fifo'[side] = Append(fifo[side], packet)
    PROVE  FifoOK'
<1>1. ASSUME NEW side \in Sides
      PROVE  LET s == seen[side]  t == seen'[side]
                 f == fifo[side]  g == fifo'[side]
             IN  /\ Len(t) - Len(g) = Len(s) - Len(f)
                 /\ Len(g) <= Len(t)
                 /\ \A i \in 1 .. Len(g) : g[i] = t[Len(t) - Len(g) + i]
  <2> DEFINE s == seen[side]
             t == seen'[side]
             f == fifo[side]
             g == fifo'[side]
  <2>1. /\ s \in Seq(Reports) /\ f \in Seq(Reports)
        /\ Len(s) \in Nat /\ Len(f) \in Nat
    BY LenProperties
  <2>2. /\ Len(f) <= Len(s)
        /\ \A i \in 1 .. Len(f) : f[i] = s[Len(s) - Len(f) + i]
    BY DEF FifoOK
  <2>3. \/ t = s /\ g = f
        \/ \E packet \in Reports : t = Append(s, packet) /\ g = Append(f, packet)
    OBVIOUS
  <2> HIDE DEF s, t, f, g
  <2>4. CASE t = s /\ g = f
    BY <2>1, <2>2, <2>4 DEF s, t, f, g
  <2>5. ASSUME NEW packet \in Reports, t = Append(s, packet), g = Append(f, packet)
        PROVE  /\ Len(t) - Len(g) = Len(s) - Len(f)
               /\ Len(g) <= Len(t)
               /\ \A i \in 1 .. Len(g) : g[i] = t[Len(t) - Len(g) + i]
    <3>1. /\ Len(t) = Len(s) + 1 /\ t[Len(s) + 1] = packet
          /\ \A i \in 1 .. Len(s) : t[i] = s[i]
      BY <2>1, <2>5, AppendProperties
    <3>2. /\ Len(g) = Len(f) + 1 /\ g[Len(f) + 1] = packet
          /\ \A i \in 1 .. Len(f) : g[i] = f[i]
      BY <2>1, <2>5, AppendProperties
    <3>3. Len(t) - Len(g) = Len(s) - Len(f) /\ Len(g) <= Len(t)
      BY <2>1, <2>2, <3>1, <3>2
    <3>4. ASSUME NEW i \in 1 .. Len(g) PROVE g[i] = t[Len(t) - Len(g) + i]
      <4> DEFINE j == Len(s) - Len(f) + i
      <4>1. Len(t) - Len(g) + i = j
        BY <2>1, <3>1, <3>2
      <4>2. CASE i = Len(f) + 1
        <5>1. j = Len(s) + 1
          BY <2>1, <4>2
        <5> QED
          BY <3>1, <3>2, <4>1, <4>2, <5>1
      <4>3. CASE i # Len(f) + 1
        <5>1. i \in 1 .. Len(f) /\ j \in 1 .. Len(s)
          BY <2>1, <2>2, <3>2, <4>3
        <5>2. f[i] = s[j]
          BY <2>2, <5>1
        <5> HIDE DEF j
        <5> QED
          BY <3>1, <3>2, <4>1, <5>1, <5>2
      <4> QED
        BY <4>2, <4>3
    <3> QED
      BY <3>3, <3>4
  <2> QED
    BY <2>3, <2>4, <2>5 DEF s, t, f, g
<1>2. ~m_error'
  BY DEF FifoOK
<1>3. Len(seen["rx"]) - Len(fifo["rx"]) = Len(seen["tx"]) - Len(fifo["tx"])
  BY DEF FifoOK
<1>4. Len(seen["rx"])' - Len(fifo["rx"])' = Len(seen["tx"])' - Len(fifo["tx"])'
  <2>1. Len(seen'["rx"]) - Len(fifo'["rx"]) = Len(seen["rx"]) - Len(fifo["rx"])
    BY <1>1 DEF Sides
  <2>2. Len(seen'["tx"]) - Len(fifo'["tx"]) = Len(seen["tx"]) - Len(fifo["tx"])
    BY <1>1 DEF Sides
  <2> QED
    BY <1>3, <2>1, <2>2
<1> QED
  BY <1>1, <1>2, <1>4 DEF FifoOK

\* The next packet of a sequence.
LEMMA WithinNext ==
    ASSUME NEW S, NEW s \in Seq(S), NEW t \in Seq(S), Within(s, t),
           Len(s) + 1 <= Len(t)
    PROVE  Within(Append(s, t[Len(s) + 1]), t)
<1> DEFINE x == t[Len(s) + 1]
           a == Append(s, x)
<1>1. Len(s) \in Nat /\ Len(t) \in Nat /\ DOMAIN s = 1 .. Len(s)
  BY LenProperties
<1>2. x \in S
  <2>1. Len(s) + 1 \in 1 .. Len(t)
    BY <1>1
  <2> QED
    BY <2>1, ElementOfSeq
<1>3. /\ Len(a) = Len(s) + 1 /\ a[Len(s) + 1] = x
      /\ \A i \in 1 .. Len(s) : a[i] = s[i]
      /\ DOMAIN a = 1 .. Len(s) + 1
  <2> HIDE DEF x
  <2>1. a \in Seq(S) /\ Len(a) = Len(s) + 1
    BY <1>2, AppendProperties
  <2> QED
    BY <1>2, <2>1, AppendProperties, LenProperties
<1> HIDE DEF a
<1>4. ASSUME NEW i \in DOMAIN a PROVE a[i] = t[i]
  <2>1. CASE i = Len(s) + 1
    BY <1>3, <2>1 DEF x
  <2>2. CASE i # Len(s) + 1
    <3>1. i \in 1 .. Len(s)
      BY <1>1, <1>3, <2>2
    <3> QED
      BY <1>1, <1>3, <3>1 DEF Within
  <2> QED
    BY <2>1, <2>2
<1>5. Within(a, t)
  BY <1>3, <1>4 DEF Within
<1> QED
  BY <1>5 DEF a, x

\* There is one k that fits what the driver has sent.
LEMMA FeedsAccepted ==
    ASSUME NEW s, NEW valid, NEW word, NEW k, Feeds(s, valid, word, k)
    PROVE  k = IF valid THEN s.transfer - 1 ELSE s.transfer
BY DEF Feeds

\* What the Rx driver works on is seen by the monitor, transfer by transfer.
RxSame == UNCHANGED <<sequence, next, sent>>

RxGrows ==
    \/ seen'["rx"] = seen["rx"] /\ fifo'["rx"] = fifo["rx"]
    \/ \E packet \in Reports : /\ seen'["rx"] = Append(seen["rx"], packet)
                               /\ fifo'["rx"] = Append(fifo["rx"], packet)

\* The packet of the item that is being sent is the next one.
LEMMA NextPacket ==
    ASSUME LocalsOK, SentOK, SeenOK, RxOK, sequence.step = "traffic", Sends(rx)
    PROVE  /\ Len(seen["rx"]) \in Nat
           /\ Len(seen["rx"]) + 1 <= Len(sent)
           /\ sent[Len(seen["rx"]) + 1] = Padded(rx.item)
           /\ Padded(rx.item) \in Reports
<1> DEFINE items == sequence.items
           data == DataAmong(items)
           all == data[Len(items)]
           n == Started
           k == Len(data[n - 1])
<1>1. /\ items \in Seq(TestItems) /\ Len(items) \in Nat
      /\ n \in 0 .. Len(items) /\ n > 0 /\ rx.item = items[n]
      /\ items[n].type = "DATA"
  BY LenProperties DEF SentOK, RxOK, Sends
<1>2. n \in 1 .. Len(items)
  <2> HIDE DEF n
  <2> QED
    BY <1>1
<1>3. /\ k \in Nat /\ Len(all) \in Nat /\ Len(data[n]) = k + 1
      /\ k + 1 <= Len(all) /\ all[k + 1] = rx.item
  <2> HIDE DEF n
  <2> QED
    BY <1>1, <1>2, DataNext
<1>4. Len(seen["rx"]) = Base + Len(data[n]) - 1
  BY DEF RxOK
<1>5. DataItems = all
  BY DEF DataItems
<1>6. Base \in Nat /\ Len(sent) \in Nat /\ Base = Len(sent) - Len(all)
  <2>1. Len(sent) \in Nat
    BY LenProperties DEF SentOK
  <2> QED
    BY <1>5, <2>1 DEF SentOK, Base
<1>7. sent[Base + (k + 1)] = Padded(rx.item)
  <2>1. k + 1 \in 1 .. Len(all)
    BY <1>3
  <2>2. \A i \in 1 .. Len(all) : sent[Base + i] = Padded(all[i])
    BY <1>5 DEF SentOK
  <2>3. sent[Base + (k + 1)] = Padded(all[k + 1])
    <3> HIDE DEF k, all
    <3> QED
      BY <2>1, <2>2
  <2> QED
    BY <1>3, <2>3
<1>8. Len(seen["rx"]) = Base + k
  <2> DEFINE m == Len(data[n])
  <2>1. m = k + 1 /\ Len(seen["rx"]) = Base + m - 1
    BY <1>3, <1>4
  <2> HIDE DEF m, k
  <2> QED
    BY <1>3, <1>6, <2>1
<1> HIDE DEF k, all
<1>9. /\ Len(seen["rx"]) + 1 = Base + (k + 1) /\ Len(seen["rx"]) \in Nat
      /\ Len(seen["rx"]) + 1 <= Len(sent)
  BY <1>3, <1>6, <1>8
<1>10. Padded(rx.item) \in Reports
  BY DEF LocalsOK, RxRecords, Reports
<1> QED
  BY <1>7, <1>9, <1>10

\* A clock edge at the Rx driver and its monitor during traffic.
LEMMA RxClock ==
    ASSUME LocalsOK, SentOK, SeenOK, RxOK, sequence.step = "traffic", areset_n,
           Monitors, RxSame,
           IF rx.busy THEN RxTurn(rx, FALSE)
                      ELSE UNCHANGED <<rx, rx_tvalid, rx_word>>
    PROVE  /\ RxOK' /\ rx' \in RxRecords /\ rx_tvalid' \in BOOLEAN
           /\ RxGrows /\ seen'["rx"] \in Seq(Reports)
           /\ Within(seen'["rx"], sent)
           /\ Len(seen'["rx"]) \in Nat
<1>1. /\ rx \in RxRecords /\ rx_tvalid \in BOOLEAN /\ "rx" \in Sides
      /\ seen["rx"] \in Seq(Reports) /\ Len(seen["rx"]) \in Nat
      /\ sent \in Seq(Reports) /\ Within(seen["rx"], sent)
  <2>1. "rx" \in Sides
    BY DEF Sides
  <2>2. seen["rx"] \in Seq(Reports) /\ sent \in Seq(Reports)
    BY <2>1 DEF LocalsOK, SentOK
  <2>3. Len(seen["rx"]) \in Nat
    BY <2>2, LenProperties
  <2> QED
    BY <2>1, <2>2, <2>3 DEF LocalsOK, SeenOK
<1>2. /\ Sample("rx").taken <=> rx_tvalid /\ rx_tready
      /\ Sample("rx").word = rx_word
  BY DEF Sample
<1>3. /\ sequence' = sequence /\ Started' = Started
      /\ DataItems' = DataItems /\ Base' = Base
  BY DEF RxSame, Started, DataItems, Base
<1>4. CASE ~Sends(rx)
  <2>1. ~rx_tvalid /\ packets["rx"] = NoPacket
    BY <1>4 DEF RxOK
  <2>2. /\ seen'["rx"] = seen["rx"] /\ packets'["rx"] = NoPacket
        /\ fifo'["rx"] = fifo["rx"]
    BY <1>1, <1>2, <2>1, MonitorsRest
  <2>3. rx' \in RxRecords /\ ~Sends(rx') /\ ~rx_tvalid' /\ rx_tvalid' \in BOOLEAN
    <3>1. CASE rx.busy
      <4>1. rx' \in RxRecords /\ ~Sends(rx') /\ ~rx_tvalid'
        BY <1>1, <1>4, <2>1, <3>1, RxTurnIdle
      <4>2. rx_tvalid' \in BOOLEAN
        <5>1. RxTurn(rx, FALSE)
          BY <3>1
        <5>2. CASE rx.item.type = "IDLE"
          BY <1>1, <5>1, <5>2 DEF RxTurn, IdleTurn
        <5>3. CASE rx.item.type # "IDLE"
          BY <1>1, <5>1, <5>3
          DEF RxTurn, DataTurn, Leave, Done, Send, Rest, Stalled
        <5> QED
          BY <5>2, <5>3
      <4> QED
        BY <4>1, <4>2
    <3>2. CASE ~rx.busy
      BY <1>1, <1>4, <2>1, <3>2
    <3> QED
      BY <3>1, <3>2
  <2>4. RxOK'
    BY <1>3, <1>4, <2>2, <2>3 DEF RxOK
  <2> QED
    BY <1>1, <2>2, <2>3, <2>4 DEF RxGrows
<1>5. CASE Sends(rx)
  <2> DEFINE k == Accepted
             item == rx.item
  <2>1. /\ Feeds(rx, rx_tvalid, rx_word, k) /\ packets["rx"] = Part(item, k)
        /\ k \in Nat /\ item \in TestItems /\ rx.busy
    BY <1>1, <1>5 DEF RxOK, Feeds, RxRecords, Sends
  <2> HIDE DEF k
  <2>2. /\ rx' \in RxRecords /\ rx_tvalid' \in BOOLEAN
        /\ IF rx_tvalid /\ rx_tready /\ rx_word.tlast
             THEN ~Sends(rx') /\ ~rx_tvalid'
             ELSE /\ Sends(rx') /\ rx'.item = item
                  /\ Feeds(rx', rx_tvalid', rx_word',
                           IF rx_tvalid /\ rx_tready THEN k + 1 ELSE k)
    BY <1>1, <1>5, <2>1, RxTurnSends
  <2>3. /\ seen'["rx"] = IF rx_tvalid /\ rx_tready
                           THEN SeenAfter(seen["rx"], packets["rx"], rx_word)
                           ELSE seen["rx"]
        /\ packets'["rx"] = IF rx_tvalid /\ rx_tready
                              THEN PartAfter(packets["rx"], rx_word)
                              ELSE packets["rx"]
        /\ fifo'["rx"] = IF rx_tvalid /\ rx_tready /\ rx_word.tlast
                           THEN Append(fifo["rx"], Collect(packets["rx"], rx_word))
                           ELSE fifo["rx"]
    BY <1>1, <1>2, MonitorStep
  <2>4. rx_tvalid => /\ rx_word = Nth(item, k)
                     /\ k * BUS_SIZE < Len(item.tdata)
                     /\ Collect(packets["rx"], rx_word) = Part(item, k + 1)
    BY <2>1, CollectPart DEF Feeds
  <2>5. CASE rx_tvalid /\ rx_tready /\ rx_word.tlast
    <3> DEFINE packet == Padded(item)
               s == seen["rx"]
    <3>1. Collect(packets["rx"], rx_word) = packet
      BY <2>1, <2>4, <2>5, PartWhole
    <3>2. /\ Len(s) + 1 <= Len(sent) /\ sent[Len(s) + 1] = packet
          /\ packet \in Reports
      BY <1>5, NextPacket
    <3>3. seen'["rx"] = Append(s, packet) /\ fifo'["rx"] = Append(fifo["rx"], packet)
          /\ packets'["rx"] = NoPacket
      BY <2>3, <2>5, <3>1 DEF SeenAfter, PartAfter
    <3>4. seen'["rx"] \in Seq(Reports) /\ Len(seen'["rx"]) = Len(s) + 1
      <4> HIDE DEF packet, s
      <4>1. s \in Seq(Reports)
        BY <1>1 DEF s
      <4> QED
        BY <3>2, <3>3, <4>1, AppendProperties
    <3>5. Within(seen'["rx"], sent)
      <4>1. Within(Append(s, sent[Len(s) + 1]), sent)
        BY <1>1, <3>2, WithinNext
      <4> QED
        BY <3>2, <3>3, <4>1
    <3>6. ~Sends(rx') /\ ~rx_tvalid'
      BY <2>2, <2>5
    <3>7. RxOK'
      <4>1. /\ Started \in 0 .. Len(sequence.items)
            /\ Len(s) = Base + Len(DataAmong(sequence.items)[Started]) - 1
        BY <1>5 DEF RxOK
      <4>2. Len(DataAmong(sequence.items)[Started]) \in Nat /\ Base \in Nat
        <5>1. Len(DataAmong(sequence.items)[Started]) \in Nat
          BY <4>1, DataSeq DEF SentOK
        <5> QED
          BY <5>1 DEF SentOK
      <4>3. Len(seen'["rx"]) = Base + Len(DataAmong(sequence.items)[Started]) - 0
        <5> DEFINE d == Len(DataAmong(sequence.items)[Started])
                   m == Len(s)
                   n == Len(seen'["rx"])
        <5>1. d \in Nat /\ Base \in Nat
          BY <4>2
        <5>2. m = Base + d - 1
          BY <4>1
        <5>3. n = m + 1
          BY <3>4
        <5> HIDE DEF s, d, m, n
        <5>4. n = Base + d - 0
          BY <5>1, <5>2, <5>3
        <5> QED
          BY <5>4 DEF d, n
      <4> QED
        BY <1>3, <3>3, <3>6, <4>1, <4>3 DEF RxOK
    <3>8. Len(seen'["rx"]) \in Nat
      BY <3>4, LenProperties
    <3> QED
      BY <2>2, <3>2, <3>3, <3>4, <3>5, <3>7, <3>8 DEF RxGrows
  <2>6. CASE ~(rx_tvalid /\ rx_tready /\ rx_word.tlast)
    <3> DEFINE j == IF rx_tvalid /\ rx_tready THEN k + 1 ELSE k
    <3>1. /\ Sends(rx') /\ rx'.item = item
          /\ Feeds(rx', rx_tvalid', rx_word', j)
      BY <2>2, <2>6
    <3>2. /\ seen'["rx"] = seen["rx"] /\ fifo'["rx"] = fifo["rx"]
          /\ packets'["rx"] = Part(item, j)
      <4>1. CASE rx_tvalid /\ rx_tready
        BY <2>1, <2>3, <2>4, <2>6, <4>1 DEF SeenAfter, PartAfter
      <4>2. CASE ~(rx_tvalid /\ rx_tready)
        BY <2>1, <2>3, <4>2
      <4> QED
        BY <4>1, <4>2
    <3> HIDE DEF j
    <3>3. Accepted' = j
      BY <3>1, FeedsAccepted DEF Accepted
    <3>4. RxOK'
      BY <1>3, <1>5, <3>1, <3>2, <3>3 DEF RxOK
    <3> QED
      BY <1>1, <2>2, <3>2, <3>4 DEF RxGrows
  <2> QED
    BY <2>5, <2>6
<1> QED
  BY <1>4, <1>5

\* Appending, whatever the new element is.
LEMMA Longer ==
    ASSUME NEW S, NEW s \in Seq(S), NEW x
    PROVE  Len(Append(s, x)) = Len(s) + 1 /\ Append(s, x)[Len(s) + 1] = x
<1> DEFINE T == S \cup {x}
<1>1. s \in Seq(T)
  <2>1. Len(s) \in Nat /\ s \in [1 .. Len(s) -> S]
    BY LenProperties
  <2>2. s \in [1 .. Len(s) -> T]
    BY <2>1
  <2> HIDE DEF T
  <2> QED
    BY <2>1, <2>2, SeqDef
<1>2. x \in T
  OBVIOUS
<1> HIDE DEF T
<1> QED
  BY <1>1, <1>2, AppendProperties

TxGrows ==
    \/ seen'["tx"] = seen["tx"] /\ fifo'["tx"] = fifo["tx"]
    \/ \E packet \in Reports : /\ seen'["tx"] = Append(seen["tx"], packet)
                               /\ fifo'["tx"] = Append(fifo["tx"], packet)

TxEnds == tx_tready /\ tx_tvalid /\ tx_word.tlast

\* A clock edge at the monitor of Tx: it reports what that of Rx has reported.
LEMMA TxClock ==
    ASSUME LocalsOK, SentOK, SeenOK, DesignOK, areset_n, Monitors, RegistersStep,
           seen'["rx"] \in Seq(Reports), Within(seen'["rx"], sent)
    PROVE  /\ TxGrows /\ DesignOK' /\ seen'["tx"] \in Seq(Reports)
           /\ Within(seen'["tx"], sent)
           /\ Len(seen["tx"]) \in Nat /\ Len(seen'["tx"]) \in Nat
           /\ TxEnds => Len(seen'["tx"]) = Len(seen["tx"]) + 1
           /\ ~TxEnds => Len(seen'["tx"]) = Len(seen["tx"])
<1> DEFINE s == seen["tx"]
           t == seen'["tx"]
           x == Collect(packets["tx"], tx_word)
<1>1. /\ "tx" \in Sides /\ "rx" \in Sides /\ DOMAIN seen = Sides
      /\ rx_tvalid \in BOOLEAN
      /\ s \in Seq(Reports) /\ seen["rx"] \in Seq(Reports)
      /\ Within(s, sent) /\ Within(seen["rx"], sent)
  BY DEF LocalsOK, SeenOK, Sides
<1>2. /\ Sample("tx").taken <=> tx_tvalid /\ tx_tready
      /\ Sample("tx").word = tx_word
  BY DEF Sample
<1>3. /\ t = IF TxEnds THEN Append(s, x) ELSE s
      /\ fifo'["tx"] = IF TxEnds THEN Append(fifo["tx"], x) ELSE fifo["tx"]
  BY <1>1, <1>2, MonitorStep DEF SeenAfter, TxEnds
<1>4. DesignOK' /\ t \in {s, seen["rx"], seen'["rx"]}
  BY <1>1, DesignStep
<1>5. t \in Seq(Reports) /\ Within(t, sent)
  BY <1>1, <1>4
<1>6. Len(s) \in Nat /\ Len(t) \in Nat
  BY <1>1, <1>5, LenProperties
<1> HIDE DEF s, t, x
<1>7. CASE ~TxEnds
  <2>1. t = s /\ fifo'["tx"] = fifo["tx"]
    BY <1>3, <1>7
  <2> QED
    BY <1>4, <1>5, <1>6, <1>7, <2>1 DEF TxGrows, s, t
<1>8. CASE TxEnds
  <2>1. t = Append(s, x) /\ fifo'["tx"] = Append(fifo["tx"], x)
    BY <1>3, <1>8
  <2>2. Len(t) = Len(s) + 1 /\ t[Len(s) + 1] = x
    BY <1>1, <2>1, Longer DEF s
  <2>3. x \in Reports
    <3>1. Len(s) + 1 \in 1 .. Len(t)
      BY <1>6, <2>2
    <3> QED
      BY <1>5, <2>2, <3>1, ElementOfSeq
  <2> QED
    BY <1>4, <1>5, <1>6, <1>8, <2>1, <2>2, <2>3 DEF TxGrows, s, t
<1> QED
  BY <1>7, <1>8

\* A clock edge at the Tx driver: it leaves its item when a packet ends.
LEMMA TxTurned ==
    ASSUME TxOK, tx \in TxRecords, sequence.step = "traffic", areset_n, RxSame,
           Base \in Nat, next["tx"] \in Nat,
           IF tx.busy THEN TxTurn(tx, tx_tready, FALSE)
                      ELSE UNCHANGED <<tx, tx_tready>>,
           Len(seen["tx"]) \in Nat,
           TxEnds => Len(seen'["tx"]) = Len(seen["tx"]) + 1,
           ~TxEnds => Len(seen'["tx"]) = Len(seen["tx"])
    PROVE  TxOK' /\ tx' \in TxRecords
<1> DEFINE m == Len(seen["tx"])
           n == Len(seen'["tx"])
           busy == IF tx.busy /\ tx.running THEN 1 ELSE 0
           after == IF tx'.busy /\ tx'.running THEN 1 ELSE 0
           begun == Base + (next["tx"] - 1)
<1>1. m + busy >= begun /\ m \in Nat /\ begun \in Int
  <2>1. m + busy >= begun
    BY DEF TxOK
  <2>2. begun \in Int
    OBVIOUS
  <2> QED
    BY <2>1, <2>2
<1>2. n = (IF TxEnds THEN m + 1 ELSE m)
  OBVIOUS
<1>3. begun' = begun /\ sequence' = sequence
  BY DEF RxSame, Base, DataItems
<1>4. tx' \in TxRecords /\ (TxEnds \/ after >= busy)
  <2>1. CASE tx.busy
    <3>1. /\ tx' \in TxRecords
          /\ tx.running => tx'.busy = tx.busy
          /\ tx.running => (tx'.running <=> ~TxEnds)
      BY <2>1, TxTurnStep DEF TxEnds
    <3>2. CASE tx.running /\ ~TxEnds
      <4>1. tx'.busy /\ tx'.running
        BY <2>1, <3>1, <3>2
      <4>2. after = 1 /\ busy = 1
        BY <2>1, <3>2, <4>1
      <4> HIDE DEF after, busy
      <4> QED
        BY <3>1, <4>2
    <3>3. CASE ~(tx.running /\ ~TxEnds)
      <4>1. CASE TxEnds
        BY <3>1, <4>1
      <4>2. CASE ~tx.running
        <5>1. busy = 0
          BY <4>2
        <5>2. after \in {0, 1}
          OBVIOUS
        <5> HIDE DEF after, busy
        <5> QED
          BY <3>1, <5>1, <5>2
      <4> QED
        BY <3>3, <4>1, <4>2
    <3> QED
      BY <3>2, <3>3
  <2>2. CASE ~tx.busy
    BY <2>2
  <2> QED
    BY <2>1, <2>2
<1>5. busy \in {0, 1} /\ after \in {0, 1}
  OBVIOUS
<1> HIDE DEF busy, after, m, n, begun
<1>6. n + after >= begun
  BY <1>1, <1>2, <1>4, <1>5
<1>7. TxOK'
  <2>1. n + after >= begun'
    BY <1>3, <1>6
  <2> QED
    BY <2>1 DEF TxOK, n, after, begun
<1> QED
  BY <1>4, <1>7

-----------------------------------------------------------------------------
\* The steps, one lemma each.

\* A clock edge during traffic.
LEMMA ClockInTraffic ==
    ASSUME Undisturbed, Clock, ~disturbed', sequence.step = "traffic"
    PROVE  Undisturbed'
<1>1. /\ LocalsOK /\ SentOK /\ SeenOK /\ DesignOK /\ ResetOK /\ RxOK /\ TxOK
      /\ FifoOK
  BY DEF Undisturbed
<1>2. ~reset.busy /\ areset_n
  BY <1>1 DEF ResetOK
<1>3. /\ Monitors /\ RegistersStep
      /\ reset' = reset /\ areset_n' = areset_n
      /\ UNCHANGED <<sequence, next, m_error, sent>>
      /\ IF rx.busy THEN RxTurn(rx, FALSE)
                    ELSE UNCHANGED <<rx, rx_tvalid, rx_word>>
      /\ IF tx.busy THEN TxTurn(tx, tx_tready, FALSE)
                    ELSE UNCHANGED <<tx, tx_tready>>
  <2>1. PICK rxGaveUp \in BOOLEAN, txGaveUp \in BOOLEAN :
          /\ IF rx.busy THEN RxTurn(rx, rxGaveUp)
             ELSE rxGaveUp = FALSE /\ UNCHANGED <<rx, rx_tvalid, rx_word>>
          /\ IF tx.busy THEN TxTurn(tx, tx_tready, txGaveUp)
             ELSE txGaveUp = FALSE /\ UNCHANGED <<tx, tx_tready>>
          /\ disturbed' = (disturbed \/ rxGaveUp \/ txGaveUp)
    BY DEF Clock
  <2>2. rxGaveUp = FALSE /\ txGaveUp = FALSE
    BY <2>1
  <2>3. Monitors /\ RegistersStep /\ reset' = reset /\ areset_n' = areset_n
        /\ UNCHANGED <<sequence, next, m_error, sent>>
    BY <1>2 DEF Clock
  <2>4. IF rx.busy THEN RxTurn(rx, FALSE)
                   ELSE UNCHANGED <<rx, rx_tvalid, rx_word>>
    BY <2>1, <2>2
  <2>5. IF tx.busy THEN TxTurn(tx, tx_tready, FALSE)
                   ELSE UNCHANGED <<tx, tx_tready>>
    BY <2>1, <2>2
  <2> QED
    BY <2>3, <2>4, <2>5
<1>4. RxSame
  BY <1>3 DEF RxSame
<1>5. /\ RxOK' /\ rx' \in RxRecords /\ rx_tvalid' \in BOOLEAN
      /\ RxGrows /\ seen'["rx"] \in Seq(Reports)
      /\ Within(seen'["rx"], sent)
  BY <1>1, <1>2, <1>3, <1>4, RxClock
<1>6. /\ TxGrows /\ DesignOK' /\ seen'["tx"] \in Seq(Reports)
      /\ Within(seen'["tx"], sent)
      /\ Len(seen["tx"]) \in Nat
      /\ TxEnds => Len(seen'["tx"]) = Len(seen["tx"]) + 1
      /\ ~TxEnds => Len(seen'["tx"]) = Len(seen["tx"])
  BY <1>1, <1>2, <1>3, <1>5, TxClock
<1>7. TxOK' /\ tx' \in TxRecords
  <2>1. tx \in TxRecords /\ Base \in Nat /\ next["tx"] \in Nat
    BY <1>1 DEF LocalsOK, SentOK
  <2> QED
    BY <1>1, <1>2, <1>3, <1>4, <1>6, <2>1, TxTurned
<1>8. FifoOK'
  <2>1. \A side \in Sides :
              \/ seen'[side] = seen[side] /\ fifo'[side] = fifo[side]
              \/ \E packet \in Reports :
                    /\ seen'[side] = Append(seen[side], packet)
                    /\ fifo'[side] = Append(fifo[side], packet)
    BY <1>5, <1>6 DEF RxGrows, TxGrows, Sides
  <2>2. seen \in [Sides -> Seq(Reports)] /\ fifo \in [Sides -> Seq(Reports)]
    BY <1>1 DEF LocalsOK
  <2> QED
    BY <1>1, <1>3, <2>1, <2>2, FifoStep
<1>9. LocalsOK'
  <2>1. /\ DOMAIN seen' = Sides /\ DOMAIN fifo' = Sides /\ DOMAIN packets' = Sides
        /\ seen' = [side \in Sides |-> seen'[side]]
        /\ fifo' = [side \in Sides |-> fifo'[side]]
    BY <1>3 DEF Monitors
  <2>2. \A side \in Sides : seen'[side] \in Seq(Reports)
    BY <1>5, <1>6 DEF Sides
  <2>3. \A side \in Sides : fifo[side] \in Seq(Reports)
    BY <1>1 DEF LocalsOK
  <2>4. \A side \in Sides : fifo'[side] \in Seq(Reports)
    <3>1. fifo'["rx"] \in Seq(Reports)
      <4>1. fifo["rx"] \in Seq(Reports)
        BY <2>3 DEF Sides
      <4>2. CASE fifo'["rx"] = fifo["rx"]
        BY <4>1, <4>2
      <4>3. ASSUME NEW packet \in Reports, fifo'["rx"] = Append(fifo["rx"], packet)
            PROVE  fifo'["rx"] \in Seq(Reports)
        BY <4>1, <4>3, AppendProperties
      <4> QED
        BY <1>5, <4>2, <4>3 DEF RxGrows
    <3>2. fifo'["tx"] \in Seq(Reports)
      <4>1. fifo["tx"] \in Seq(Reports)
        BY <2>3 DEF Sides
      <4>2. CASE fifo'["tx"] = fifo["tx"]
        BY <4>1, <4>2
      <4>3. ASSUME NEW packet \in Reports, fifo'["tx"] = Append(fifo["tx"], packet)
            PROVE  fifo'["tx"] \in Seq(Reports)
        BY <4>1, <4>3, AppendProperties
      <4> QED
        BY <1>6, <4>2, <4>3 DEF TxGrows
    <3> QED
      BY <3>1, <3>2 DEF Sides
  <2>5. seen' \in [Sides -> Seq(Reports)] /\ fifo' \in [Sides -> Seq(Reports)]
    <3> DEFINE T == Seq(Reports)
    <3>1. /\ \A side \in Sides : seen'[side] \in T
          /\ \A side \in Sides : fifo'[side] \in T
      BY <2>2, <2>4
    <3> HIDE DEF T
    <3>2. seen' \in [Sides -> T] /\ fifo' \in [Sides -> T]
      BY <2>1, <3>1
    <3> QED
      BY <3>2 DEF T
  <2>6. reset \in ResetRecords /\ next["rx"] \in Nat /\ next["tx"] \in Nat
        /\ next \in [Sides -> Nat]
    BY <1>1 DEF LocalsOK
  <2> QED
    BY <1>3, <1>5, <1>7, <2>1, <2>5, <2>6 DEF LocalsOK
<1>10. SentOK'
  BY <1>1, <1>3 DEF SentOK, Base, DataItems
<1>11. SeenOK'
  BY <1>3, <1>5, <1>6 DEF SeenOK, Sides
<1>12. ResetOK' /\ QuietOK'
  BY <1>2, <1>3 DEF ResetOK, QuietOK
<1> QED
  BY <1>5, <1>6, <1>7, <1>8, <1>9, <1>10, <1>11, <1>12 DEF Undisturbed

\* A clock edge before the traffic: nothing is transferred.
LEMMA ClockInReset ==
    ASSUME Undisturbed, Clock, sequence.step # "traffic"
    PROVE  Undisturbed'
<1>1. /\ LocalsOK /\ SentOK /\ SeenOK /\ DesignOK /\ ResetOK /\ QuietOK
      /\ RxOK /\ TxOK /\ FifoOK
  BY DEF Undisturbed
<1>2. reset.busy /\ sequence.step = "reset"
  <2>1. sequence.step \in {"idle", "reset"}
    BY <1>1 DEF ResetOK
  <2>2. reset.busy
    BY <2>1 DEF Clock, Pending
  <2> QED
    BY <1>1, <2>1, <2>2 DEF ResetOK
<1>3. /\ ~rx.busy /\ ~tx.busy /\ fsm_state = "IDLE"
      /\ ~Sends(rx) /\ ~rx_tvalid
      /\ packets["rx"] = NoPacket /\ packets["tx"] = NoPacket
  BY <1>1, <1>2 DEF QuietOK, RxOK, Sends, DesignOK
<1>4. /\ Monitors /\ RegistersStep
      /\ ResetTurn(reset.duration, reset.idle)
      /\ UNCHANGED <<sequence, next, m_error, sent>>
      /\ rx' = rx /\ rx_tvalid' = rx_tvalid /\ rx_word' = rx_word /\ tx' = tx
  BY <1>2, <1>3 DEF Clock
<1>5. ~tx_tvalid
  BY <1>3 DEF tx_tvalid, Design!tx_tvalid
<1>6. /\ \A side \in Sides : /\ seen'[side] = seen[side]
                             /\ fifo'[side] = fifo[side]
                             /\ packets'[side] = NoPacket
      /\ DOMAIN seen' = Sides /\ DOMAIN fifo' = Sides /\ DOMAIN packets' = Sides
  <2>1. ASSUME NEW side \in Sides
        PROVE  ~Sample(side).taken /\ packets[side] = NoPacket
    BY <1>3, <1>5 DEF Sample, Sides
  <2>2. "rx" \in Sides
    BY DEF Sides
  <2> QED
    BY <1>4, <2>1, <2>2, MonitorsRest
<1>7. seen' = seen /\ fifo' = fifo
  <2>1. /\ seen = [side \in Sides |-> seen[side]]
        /\ fifo = [side \in Sides |-> fifo[side]]
    BY <1>1 DEF LocalsOK
  <2>2. /\ seen' = [side \in Sides |-> seen'[side]]
        /\ fifo' = [side \in Sides |-> fifo'[side]]
    BY <1>4 DEF Monitors
  <2> QED
    BY <1>6, <2>1, <2>2
<1>8. fsm_state' = "IDLE" /\ (DUT = "dead" => ~rx_tready')
  BY <1>1, <1>3, <1>4
  DEF RegistersStep, design, DesignOK, Design!FsmState
<1>9. DesignOK'
  BY <1>1, <1>3, <1>6, <1>7, <1>8 DEF DesignOK, Sides
<1>10. /\ reset' \in ResetRecords /\ (~reset'.busy => areset_n')
  <2>1. reset \in ResetRecords
    BY <1>1 DEF LocalsOK
  <2>2. reset.duration \in Nat /\ reset.idle \in Nat
    BY <2>1 DEF ResetRecords
  <2>3. CASE reset.duration > 0
    <3>1. reset' = [busy |-> TRUE, duration |-> reset.duration - 1,
                    idle |-> reset.idle]
      BY <1>4, <2>3 DEF ResetTurn
    <3> QED
      BY <2>2, <2>3, <3>1 DEF ResetRecords
  <2>4. CASE reset.duration = 0 /\ reset.idle > 0
    <3>1. reset' = [busy |-> TRUE, duration |-> 0, idle |-> reset.idle - 1]
      BY <1>4, <2>4 DEF ResetTurn
    <3> QED
      BY <2>2, <2>4, <3>1 DEF ResetRecords
  <2>5. CASE reset.duration = 0 /\ ~(reset.idle > 0)
    <3>1. areset_n' = TRUE
      BY <1>4, <2>5 DEF ResetTurn
    <3>2. ~(reset.duration > 0)
      BY <2>5
    <3>3. reset' = [busy |-> FALSE, duration |-> 0, idle |-> 0]
      BY <1>4, <2>5, <3>2 DEF ResetTurn
    <3> QED
      BY <3>1, <3>3 DEF ResetRecords
  <2> QED
    BY <2>2, <2>3, <2>4, <2>5
<1>11. LocalsOK'
  BY <1>1, <1>4, <1>6, <1>7, <1>10 DEF LocalsOK
<1>12. SentOK' /\ SeenOK'
  BY <1>1, <1>4, <1>7 DEF SentOK, SeenOK, Base, DataItems
<1>13. ResetOK'
  BY <1>2, <1>4, <1>10 DEF ResetOK
<1>14. QuietOK'
  BY <1>1, <1>2, <1>4, <1>7, <1>8 DEF QuietOK, Base, DataItems
<1>15. RxOK' /\ TxOK'
  <2>1. ~Sends(rx') /\ packets'["rx"] = NoPacket
    BY <1>3, <1>4, <1>6 DEF Sides
  <2> QED
    BY <1>2, <1>3, <1>4, <2>1 DEF RxOK, TxOK
<1>16. FifoOK'
  BY <1>1, <1>4, <1>7 DEF FifoOK
<1> QED
  BY <1>9, <1>11, <1>12, <1>13, <1>14, <1>15, <1>16 DEF Undisturbed

\* Steps that change nothing the invariant is about.
LEMMA Frame ==
    ASSUME Undisturbed,
           UNCHANGED <<sequence, reset, rx, tx, next, signals, design, checkers,
                       sent>>
    PROVE  Undisturbed'
<1>1. /\ sequence' = sequence /\ reset' = reset /\ rx' = rx /\ tx' = tx
      /\ next' = next /\ sent' = sent
      /\ areset_n' = areset_n /\ rx_tvalid' = rx_tvalid /\ rx_word' = rx_word
      /\ fsm_state' = fsm_state /\ rx_tready' = rx_tready /\ buffered' = buffered
      /\ packets' = packets /\ fifo' = fifo /\ m_error' = m_error /\ seen' = seen
  BY DEF signals, design, checkers
<1>2. Base' = Base /\ DataItems' = DataItems /\ Started' = Started
      /\ Accepted' = Accepted
  BY <1>1 DEF Base, DataItems, Started, Accepted
<1>3. LocalsOK' /\ SentOK' /\ SeenOK'
  BY <1>1, <1>2 DEF Undisturbed, LocalsOK, SentOK, SeenOK
<1>4. DesignOK' /\ ResetOK' /\ QuietOK'
  BY <1>1, <1>2 DEF Undisturbed, DesignOK, ResetOK, QuietOK
<1>5. RxOK' /\ TxOK' /\ FifoOK'
  BY <1>1, <1>2 DEF Undisturbed, RxOK, TxOK, FifoOK
<1> QED
  BY <1>3, <1>4, <1>5 DEF Undisturbed

\* A sequence with another behind it.
LEMMA WithinLonger ==
    ASSUME NEW S, NEW s \in Seq(S), NEW t \in Seq(S), NEW u \in Seq(S),
           Within(s, t)
    PROVE  Within(s, t \o u)
<1>1. Len(s) \in Nat /\ Len(t) \in Nat /\ Len(u) \in Nat
      /\ DOMAIN s = 1 .. Len(s)
  BY LenProperties
<1>2. /\ Len(t \o u) = Len(t) + Len(u)
      /\ \A i \in 1 .. Len(t) + Len(u) :
            (t \o u)[i] = IF i <= Len(t) THEN t[i] ELSE u[i - Len(t)]
  BY ConcatProperties
<1>3. Len(s) <= Len(t \o u)
  BY <1>1, <1>2 DEF Within
<1>4. ASSUME NEW i \in DOMAIN s PROVE s[i] = (t \o u)[i]
  <2>1. i \in 1 .. Len(t) + Len(u) /\ i <= Len(t) /\ s[i] = t[i]
    BY <1>1 DEF Within
  <2> QED
    BY <1>2, <2>1
<1> QED
  BY <1>3, <1>4 DEF Within

\* What is expected of a round.
LEMMA ExpectedSeq ==
    ASSUME NEW items \in Seq(TestItems)
    PROVE  /\ Expected(items) \in Seq(Reports)
           /\ Len(Expected(items)) = Len(items) /\ Len(items) \in Nat
           /\ \A i \in 1 .. Len(items) : Expected(items)[i] = Padded(items[i])
<1>1. Len(items) \in Nat /\ DOMAIN items = 1 .. Len(items)
      /\ \A i \in 1 .. Len(items) : items[i] \in TestItems
  BY LenProperties, ElementOfSeq
<1>2. Expected(items) \in [1 .. Len(items) -> Reports]
  BY <1>1 DEF Expected, Reports
<1>3. Expected(items) \in Seq(Reports)
  BY <1>1, <1>2, SeqDef
<1>4. Len(Expected(items)) = Len(items)
  <2> DEFINE e == Expected(items)
  <2>1. DOMAIN e = 1 .. Len(items)
    BY <1>2
  <2>2. DOMAIN e = 1 .. Len(e) /\ Len(e) \in Nat
    BY <1>3, LenProperties
  <2> HIDE DEF e
  <2>3. Len(e) = Len(items)
    BY <1>1, <2>1, <2>2
  <2> QED
    BY <2>3 DEF e
<1> QED
  BY <1>1, <1>3, <1>4 DEF Expected

\* A round begins with a reset.
LEMMA StartStep ==
    ASSUME Undisturbed, StartSequence
    PROVE  Undisturbed'
<1>1. /\ LocalsOK /\ SentOK /\ SeenOK /\ DesignOK /\ ResetOK /\ QuietOK
      /\ RxOK /\ FifoOK
  BY DEF Undisturbed
<1>2. PICK items \in Packets :
         sequence' = [step |-> "reset", round |-> sequence.round + 1,
                      items |-> items]
  BY DEF StartSequence
<1> DEFINE new == DataAmong(items)[Len(items)]
           e == Expected(new)
<1>3. /\ sequence'.items = items /\ sequence'.step = "reset"
      /\ DataItems' = new /\ sequence.step = "idle"
      /\ rx' = rx /\ tx' = tx /\ next' = next /\ rx_tvalid' = rx_tvalid
      /\ packets' = packets /\ seen' = seen /\ fifo' = fifo
      /\ m_error' = m_error
      /\ sent' = sent \o e
      /\ StartReset
  <2>1. sequence'.items = items /\ sequence'.step = "reset"
    BY <1>2
  <2>2. DataItems' = new
    BY <2>1 DEF DataItems
  <2> QED
    BY <2>1, <2>2 DEF StartSequence, checkers
<1>4. /\ items \in Seq(TestItems)
      /\ \A i \in DOMAIN items : items[i].type = "DATA" => items[i].tdata # <<>>
  BY TestbenchAssumption
<1>5. new \in Seq(TestItems) /\ Len(new) \in Nat
  <2>1. Len(items) \in 0 .. Len(items)
    BY <1>4, LenProperties
  <2> QED
    BY <1>4, <2>1, DataSeq
<1>6. sent \in Seq(Reports) /\ Len(sent) \in Nat
  BY <1>1, LenProperties DEF SentOK
<1> HIDE DEF new
<1>7. /\ e \in Seq(Reports) /\ Len(e) = Len(new)
      /\ \A i \in 1 .. Len(new) : e[i] = Padded(new[i])
  BY <1>5, ExpectedSeq
<1> HIDE DEF e
<1>8. /\ sent' \in Seq(Reports)
      /\ Len(sent') = Len(sent) + Len(new)
      /\ \A i \in 1 .. Len(sent) + Len(new) :
            sent'[i] = IF i <= Len(sent) THEN sent[i] ELSE e[i - Len(sent)]
  <2> DEFINE u == sent \o e
  <2>1. /\ u \in Seq(Reports)
        /\ Len(u) = Len(sent) + Len(e)
        /\ \A i \in 1 .. Len(sent) + Len(e) :
              u[i] = IF i <= Len(sent) THEN sent[i] ELSE e[i - Len(sent)]
    BY <1>6, <1>7, ConcatProperties
  <2>2. sent' = u
    BY <1>3
  <2> HIDE DEF u
  <2> QED
    BY <1>7, <2>1, <2>2
<1>9. Base' = Len(sent)
  <2>1. Base' = Len(sent') - Len(new)
    BY <1>3 DEF Base
  <2> QED
    BY <1>5, <1>6, <1>8, <2>1
<1>10. SentOK'
  <2>1. ASSUME NEW i \in 1 .. Len(new)
        PROVE  sent'[Len(sent) + i] = Padded(new[i])
    <3> DEFINE j == Len(sent) + i
    <3>1. /\ j \in 1 .. Len(sent) + Len(new) /\ ~(j <= Len(sent))
          /\ j - Len(sent) = i
      BY <1>5, <1>6
    <3> HIDE DEF j
    <3>2. sent'[j] = e[i]
      BY <1>8, <3>1
    <3> QED
      BY <1>7, <3>2 DEF j
  <2>2. sequence' \in [step : {"idle", "reset", "traffic"}, round : Nat,
                       items : Seq(TestItems)]
    <3>1. sequence.round \in Nat
      BY <1>1 DEF SentOK
    <3> QED
      BY <1>2, <1>4, <3>1
  <2> QED
    BY <1>3, <1>4, <1>6, <1>8, <1>9, <2>1, <2>2 DEF SentOK
<1>11. SeenOK'
  <2>1. ASSUME NEW side \in Sides PROVE Within(seen[side], sent')
    <3>1. seen[side] \in Seq(Reports) /\ Within(seen[side], sent)
      BY <1>1 DEF LocalsOK, SeenOK
    <3> QED
      BY <1>3, <1>6, <1>7, <3>1, WithinLonger
  <2> QED
    BY <1>3, <2>1 DEF SeenOK
<1>12. /\ ~rx.busy /\ ~tx.busy /\ fsm_state = "IDLE"
       /\ Len(seen["rx"]) = Len(sent)
  BY <1>1, <1>3 DEF QuietOK
<1>13. /\ fsm_state' = "IDLE" /\ (DUT = "dead" => ~rx_tready')
       /\ reset' \in ResetRecords /\ (~reset'.busy => areset_n')
  <2>1. ResetTurn(DURATION, IDLE) /\ DesignReset
    BY <1>3 DEF StartReset
  <2>2. fsm_state' = "IDLE" /\ (DUT = "dead" => ~rx_tready')
    BY <1>1, <1>12, <2>1 DEF DesignReset, design, DesignOK
  <2>3. DURATION \in Nat /\ IDLE \in Nat
    BY TestbenchAssumption
  <2>4. CASE DURATION > 0
    <3>1. reset' = [busy |-> TRUE, duration |-> DURATION - 1, idle |-> IDLE]
      BY <2>1, <2>4 DEF ResetTurn
    <3> QED
      BY <2>2, <2>3, <2>4, <3>1 DEF ResetRecords
  <2>5. CASE DURATION = 0 /\ IDLE > 0
    <3>1. reset' = [busy |-> TRUE, duration |-> 0, idle |-> IDLE - 1]
      BY <2>1, <2>5 DEF ResetTurn
    <3> QED
      BY <2>2, <2>3, <2>5, <3>1 DEF ResetRecords
  <2>6. CASE DURATION = 0 /\ ~(IDLE > 0)
    <3>1. areset_n' = TRUE
      BY <2>1, <2>6 DEF ResetTurn
    <3>2. ~(DURATION > 0)
      BY <2>6
    <3>3. reset' = [busy |-> FALSE, duration |-> 0, idle |-> 0]
      BY <2>1, <2>6, <3>2 DEF ResetTurn
    <3> QED
      BY <2>2, <3>1, <3>3 DEF ResetRecords
  <2> QED
    BY <2>3, <2>4, <2>5, <2>6
<1>14. LocalsOK'
  BY <1>1, <1>3, <1>13 DEF LocalsOK
<1>15. DesignOK'
  BY <1>1, <1>3, <1>12, <1>13 DEF DesignOK
<1>16. ResetOK'
  BY <1>3, <1>13 DEF ResetOK
<1>17. QuietOK'
  BY <1>3, <1>9, <1>12, <1>13 DEF QuietOK
<1>18. RxOK' /\ TxOK'
  <2>1. ~Sends(rx) /\ ~rx_tvalid /\ packets["rx"] = NoPacket
    BY <1>1, <1>12 DEF RxOK, Sends
  <2> QED
    BY <1>3, <2>1 DEF RxOK, TxOK
<1>19. FifoOK'
  BY <1>1, <1>3 DEF FifoOK
<1> QED
  BY <1>10, <1>11, <1>14, <1>15, <1>16, <1>17, <1>18, <1>19 DEF Undisturbed

\* The processes of the two drivers start.
LEMMA ForkStep ==
    ASSUME Undisturbed, Fork
    PROVE  Undisturbed'
<1>1. /\ LocalsOK /\ SentOK /\ SeenOK /\ DesignOK /\ ResetOK /\ QuietOK
      /\ RxOK /\ FifoOK
  BY DEF Undisturbed
<1>2. /\ sequence' = [sequence EXCEPT !.step = "traffic"]
      /\ sequence.step = "reset" /\ ~reset.busy
      /\ next' = [side \in Sides |-> 1]
      /\ UNCHANGED <<reset, rx, tx, signals, design, checkers, sent>>
  BY DEF Fork, TestStep, history
<1>3. /\ reset' = reset /\ rx' = rx /\ tx' = tx /\ sent' = sent
      /\ areset_n' = areset_n /\ rx_tvalid' = rx_tvalid /\ rx_word' = rx_word
      /\ fsm_state' = fsm_state /\ rx_tready' = rx_tready /\ buffered' = buffered
      /\ packets' = packets /\ fifo' = fifo /\ m_error' = m_error /\ seen' = seen
  BY <1>2 DEF signals, design, checkers
<1>4. sequence'.step = "traffic" /\ sequence'.items = sequence.items
  <2>1. sequence \in [step : {"idle", "reset", "traffic"}, round : Nat,
                     items : Seq(TestItems)]
    BY <1>1 DEF SentOK
  <2> QED
    BY <1>2, <2>1
<1>5. next'["rx"] = 1 /\ next'["tx"] = 1 /\ next' \in [Sides -> Nat]
  BY <1>2 DEF Sides
<1>6. DataItems' = DataItems /\ Base' = Base
  BY <1>3, <1>4 DEF DataItems, Base
<1>7. /\ ~rx.busy /\ ~tx.busy /\ fsm_state = "IDLE" /\ Len(seen["rx"]) = Base
      /\ Base \in Nat
  BY <1>1, <1>2 DEF QuietOK, SentOK
<1>8. LocalsOK' /\ SentOK' /\ SeenOK' /\ DesignOK' /\ FifoOK'
  <2>1. LocalsOK'
    BY <1>1, <1>3, <1>5 DEF LocalsOK
  <2>2. SentOK'
    <3>1. sequence' \in [step : {"idle", "reset", "traffic"}, round : Nat,
                         items : Seq(TestItems)]
      BY <1>1, <1>2 DEF SentOK
    <3> QED
      BY <1>1, <1>3, <1>4, <1>6, <3>1 DEF SentOK
  <2>3. SeenOK' /\ DesignOK' /\ FifoOK'
    BY <1>1, <1>3 DEF SeenOK, DesignOK, FifoOK
  <2> QED
    BY <2>1, <2>2, <2>3
<1>9. ResetOK' /\ QuietOK'
  BY <1>1, <1>2, <1>3, <1>4 DEF ResetOK, QuietOK
<1>10. TxOK'
  <2>1. Len(seen["tx"]) = Base
    BY <1>1, <1>7 DEF DesignOK
  <2> QED
    BY <1>3, <1>4, <1>5, <1>6, <1>7, <2>1 DEF TxOK
<1>11. RxOK'
  <2>1. ~Sends(rx) /\ ~rx_tvalid /\ packets["rx"] = NoPacket
    BY <1>1, <1>7 DEF RxOK, Sends
  <2>2. Started' = 0
    BY <1>5 DEF Started
  <2>3. /\ sequence.items \in Seq(TestItems)
        /\ Len(sequence.items) \in Nat
    BY <1>1, LenProperties DEF SentOK
  <2>4. DataAmong(sequence.items)[0] = <<>>
    BY <2>3, DataStep
  <2>5. Len(DataAmong(sequence.items)[0]) = 0
    BY <2>4
  <2>6. Len(seen["rx"]) = Base + Len(DataAmong(sequence.items)[0]) - 0
    BY <1>7, <2>5
  <2> QED
    BY <1>3, <1>4, <1>6, <2>1, <2>2, <2>3, <2>6 DEF RxOK
<1> QED
  BY <1>8, <1>9, <1>10, <1>11 DEF Undisturbed

\* The Rx driver begins an item.
LEMMA StartRxStep ==
    ASSUME Undisturbed, StartRx, ~disturbed'
    PROVE  Undisturbed'
<1> DEFINE items == sequence.items
           n == next["rx"]
           item == items[n]
<1>1. /\ LocalsOK /\ SentOK /\ SeenOK /\ DesignOK /\ ResetOK /\ QuietOK
      /\ RxOK /\ TxOK /\ FifoOK
  BY DEF Undisturbed
<1>2. /\ sequence.step = "traffic" /\ ~rx.busy /\ n <= Len(items)
      /\ next' = [next EXCEPT !["rx"] = @ + 1]
      /\ UNCHANGED <<sequence, reset, tx, areset_n, design, checkers, sent>>
  BY DEF StartRx, Items
<1>3. PICK idle \in ValuesIn(RX_IDLE) :
         RxTurn(RxLocals(item, idle), FALSE)
  BY DEF StartRx, Items
<1> DEFINE s == RxLocals(item, idle)
<1>4. /\ sequence' = sequence /\ reset' = reset /\ tx' = tx /\ sent' = sent
      /\ areset_n' = areset_n
      /\ fsm_state' = fsm_state /\ rx_tready' = rx_tready /\ buffered' = buffered
      /\ packets' = packets /\ fifo' = fifo /\ m_error' = m_error /\ seen' = seen
      /\ DataItems' = DataItems /\ Base' = Base
  BY <1>2 DEF design, checkers, DataItems, Base
<1>5. /\ ~Sends(rx) /\ ~rx_tvalid /\ packets["rx"] = NoPacket
      /\ areset_n
  BY <1>1, <1>2 DEF RxOK, ResetOK, Sends
<1>6. /\ items \in Seq(TestItems) /\ Len(items) \in Nat
      /\ n \in 1 .. Len(items) /\ item \in TestItems
      /\ item.type = "DATA" => item.tdata # <<>>
  <2>1. items \in Seq(TestItems) /\ Len(items) \in Nat /\ DOMAIN items = 1 .. Len(items)
    BY <1>1, LenProperties DEF SentOK
  <2>2. n \in 1 .. Len(items)
    <3>1. Started \in 0 .. Len(items) /\ n \in Nat
      BY <1>1, <1>2 DEF RxOK, LocalsOK
    <3> QED
      BY <1>2, <2>1, <3>1 DEF Started
  <2>3. item \in TestItems
    BY <2>1, <2>2, ElementOfSeq
  <2> QED
    BY <1>1, <2>1, <2>2, <2>3 DEF SentOK
<1>7. next'["rx"] = n + 1 /\ next'["tx"] = next["tx"]
      /\ next' \in [Sides -> Nat] /\ Started' = n /\ n \in Nat
      /\ next'["rx"] \in Nat /\ next'["tx"] \in Nat
  <2>1. next \in [Sides -> Nat] /\ n \in Nat /\ n + 1 \in Nat
    BY <1>1 DEF LocalsOK
  <2>2. next'["rx"] = n + 1 /\ next'["tx"] = next["tx"]
        /\ next' \in [Sides -> Nat]
    BY <1>2, <2>1 DEF Sides
  <2> HIDE DEF n
  <2>3. Started' = n
    BY <2>1, <2>2 DEF Started
  <2> QED
    BY <1>1, <2>1, <2>2, <2>3 DEF LocalsOK
<1>8. /\ s \in RxRecords /\ s.busy /\ s.item = item
      /\ s.running = (Len(item.tdata) > 0)
      /\ s.transfer = 0 /\ s.index = 0
  <2>1. idle \in Nat /\ TIMEOUT \in Int
    BY <1>3, TestbenchAssumption DEF ValuesIn
  <2> HIDE DEF item
  <2> QED
    BY <1>6, <2>1 DEF RxLocals, RxRecords
<1>9. LET data == DataAmong(items)
          k == Len(data[n - 1])
      IN  /\ k \in Nat /\ Base \in Nat
          /\ Len(data[n]) = IF item.type = "DATA" THEN k + 1 ELSE k
          /\ Len(seen["rx"]) = Base + k
  <2> DEFINE data == DataAmong(items)
             k == Len(data[n - 1])
  <2>1. k \in Nat /\ (Len(data[n]) = IF item.type = "DATA" THEN k + 1 ELSE k)
    BY <1>6, DataNext
  <2>2. Started = n - 1 /\ Base \in Nat
    BY <1>1 DEF Started, SentOK
  <2>3. Len(seen["rx"]) = Base + Len(data[Started]) - 0
    BY <1>1, <1>2, <1>5 DEF RxOK
  <2>4. Len(seen["rx"]) = Base + k - 0
    BY <2>2, <2>3
  <2> HIDE DEF k
  <2>5. Len(seen["rx"]) = Base + k
    BY <2>1, <2>2, <2>4
  <2> QED
    BY <2>1, <2>2, <2>5 DEF k
<1> DEFINE data == DataAmong(items)
           k == Len(data[n - 1])
<1>10. rx' \in RxRecords /\ rx_tvalid' \in BOOLEAN /\ RxOK'
  <2>1. CASE item.type = "DATA"
    <3>1. Sends(s)
      <4>1. item.tdata \in Seq(DataBytes)
        BY <1>6 DEF TestItems
      <4>2. Len(item.tdata) \in Nat /\ Len(item.tdata) # 0
        BY <1>6, <2>1, <4>1, LenProperties, EmptySeq
      <4>3. Len(item.tdata) > 0
        <5> DEFINE l == Len(item.tdata)
        <5>1. l \in Nat /\ l # 0
          BY <4>2
        <5> HIDE DEF l
        <5>2. l > 0
          BY <5>1
        <5> QED
          BY <5>2 DEF l
      <4> HIDE DEF s, item
      <4> QED
        BY <1>8, <2>1, <4>3 DEF Sends
    <3>2. Feeds(s, rx_tvalid, rx_word, 0)
      <4>1. s.running /\ 0 * BUS_SIZE = 0 /\ 0 \in Nat
        BY <3>1, TestbenchAssumption DEF Sends
      <4>2. Len(item.tdata) > 0
        <5> HIDE DEF s, item
        <5> QED
          BY <1>8, <4>1
      <4>3. 0 * BUS_SIZE < Len(s.item.tdata)
        <5>1. Len(s.item.tdata) > 0
          BY <1>8, <4>2
        <5> HIDE DEF s
        <5> QED
          BY <4>1, <5>1
      <4> HIDE DEF s
      <4> QED
        BY <1>5, <1>8, <4>1, <4>3 DEF Feeds
    <3> HIDE DEF s
    <3>3. /\ rx' \in RxRecords /\ rx_tvalid' \in BOOLEAN
          /\ Sends(rx') /\ rx'.item = item
          /\ Feeds(rx', rx_tvalid', rx_word', 0)
      <4>1. rx_tvalid \in BOOLEAN /\ RxTurn(s, FALSE)
        BY <1>1, <1>3 DEF LocalsOK, s
      <4> QED
        BY <1>5, <1>8, <3>1, <3>2, <4>1, RxTurnSends
    <3>4. Accepted' = 0
      BY <3>3, FeedsAccepted DEF Accepted
    <3>5. packets'["rx"] = Part(item, 0)
      BY <1>4, <1>5 DEF Part
    <3>6. Len(seen["rx"]) = Base + Len(data[n]) - 1
      <4> DEFINE d == Len(data[n])
      <4>1. d = k + 1 /\ k \in Nat /\ Base \in Nat /\ Len(seen["rx"]) = Base + k
        BY <1>9, <2>1
      <4> HIDE DEF d, k
      <4>2. Len(seen["rx"]) = Base + d - 1
        BY <4>1
      <4> QED
        BY <4>2 DEF d
    <3>7. n \in 0 .. Len(items) /\ n > 0
      BY <1>6
    <3> HIDE DEF n
    <3>8. RxOK'
      BY <1>2, <1>4, <1>7, <3>3, <3>4, <3>5, <3>6, <3>7 DEF RxOK
    <3> QED
      BY <3>3, <3>8
  <2>2. CASE item.type # "DATA"
    <3>1. ~Sends(s)
      BY <1>8, <2>2 DEF Sends
    <3> HIDE DEF s
    <3>2. rx' \in RxRecords /\ ~Sends(rx') /\ ~rx_tvalid'
      <4>1. RxTurn(s, FALSE)
        BY <1>3 DEF s
      <4> QED
        BY <1>5, <1>8, <3>1, <4>1, RxTurnIdle
    <3>3. rx_tvalid' \in BOOLEAN
      <4>1. RxTurn(s, FALSE) /\ rx_tvalid \in BOOLEAN
        BY <1>1, <1>3 DEF s, LocalsOK
      <4>2. CASE s.item.type = "IDLE"
        BY <4>1, <4>2 DEF RxTurn, IdleTurn
      <4>3. CASE s.item.type # "IDLE"
        BY <4>1, <4>3
        DEF RxTurn, DataTurn, Leave, Done, Send, Rest, Stalled
      <4> QED
        BY <4>2, <4>3
    <3>4. Len(seen["rx"]) = Base + Len(data[n]) - 0
      <4> DEFINE d == Len(data[n])
      <4>1. d = k /\ k \in Nat /\ Base \in Nat /\ Len(seen["rx"]) = Base + k
        BY <1>9, <2>2
      <4> HIDE DEF d, k
      <4>2. Len(seen["rx"]) = Base + d - 0
        BY <4>1
      <4> QED
        BY <4>2 DEF d
    <3>5. n \in 0 .. Len(items)
      BY <1>6
    <3> HIDE DEF n
    <3>6. RxOK'
      BY <1>2, <1>4, <1>5, <1>7, <3>2, <3>4, <3>5 DEF RxOK
    <3> QED
      BY <3>2, <3>3, <3>6
  <2> QED
    BY <2>1, <2>2
<1>11. LocalsOK'
  BY <1>1, <1>4, <1>7, <1>10 DEF LocalsOK
<1>12. SentOK' /\ SeenOK' /\ DesignOK' /\ FifoOK'
  BY <1>1, <1>4 DEF SentOK, SeenOK, DesignOK, FifoOK
<1>13. ResetOK' /\ QuietOK' /\ TxOK'
  <2>1. ResetOK' /\ QuietOK'
    BY <1>1, <1>2, <1>4 DEF ResetOK, QuietOK
  <2>2. next'["tx"] = next["tx"]
    BY <1>7
  <2> QED
    BY <1>1, <1>4, <2>1, <2>2 DEF TxOK
<1> QED
  BY <1>10, <1>11, <1>12, <1>13 DEF Undisturbed

\* The Tx driver begins an item.
LEMMA StartTxStep ==
    ASSUME Undisturbed, StartTx, ~disturbed'
    PROVE  Undisturbed'
<1>1. /\ LocalsOK /\ SentOK /\ SeenOK /\ DesignOK /\ ResetOK /\ QuietOK
      /\ RxOK /\ TxOK /\ FifoOK
  BY DEF Undisturbed
<1>2. /\ sequence.step = "traffic" /\ ~tx.busy
      /\ next' = [next EXCEPT !["tx"] = @ + 1]
      /\ UNCHANGED <<sequence, reset, rx, areset_n, rx_tvalid, rx_word, design,
                     checkers, sent>>
  BY DEF StartTx
<1>3. PICK idle \in ValuesIn(TX_IDLE) : TxTurn(TxLocals(idle), FALSE, FALSE)
  BY DEF StartTx
<1>4. /\ sequence' = sequence /\ reset' = reset /\ rx' = rx /\ sent' = sent
      /\ areset_n' = areset_n /\ rx_tvalid' = rx_tvalid /\ rx_word' = rx_word
      /\ fsm_state' = fsm_state /\ rx_tready' = rx_tready /\ buffered' = buffered
      /\ packets' = packets /\ fifo' = fifo /\ m_error' = m_error /\ seen' = seen
      /\ DataItems' = DataItems /\ Base' = Base
  BY <1>2 DEF design, checkers, DataItems, Base
<1>5. /\ next'["tx"] = next["tx"] + 1 /\ next'["rx"] = next["rx"]
      /\ next' \in [Sides -> Nat] /\ Started' = Started
      /\ next["tx"] \in Nat /\ next["rx"] \in Nat /\ next["tx"] + 1 \in Nat
  BY <1>1, <1>2 DEF LocalsOK, Sides, Started
<1>6. tx' \in TxRecords /\ tx'.busy /\ tx'.running
  <2> DEFINE s == TxLocals(idle)
  <2>1. idle \in Nat /\ TIMEOUT \in Int
    BY <1>3, TestbenchAssumption DEF ValuesIn
  <2>2. s \in TxRecords /\ s.running /\ s.busy
    BY <2>1 DEF TxLocals, TxRecords
  <2>3. areset_n /\ TxTurn(s, FALSE, FALSE)
    BY <1>1, <1>2, <1>3 DEF ResetOK
  <2> HIDE DEF s
  <2> QED
    BY <2>2, <2>3, TxTurnStep
<1>7. LocalsOK'
  BY <1>1, <1>4, <1>5, <1>6 DEF LocalsOK
<1>8. SentOK' /\ SeenOK' /\ DesignOK' /\ FifoOK'
  BY <1>1, <1>4 DEF SentOK, SeenOK, DesignOK, FifoOK
<1>9. ResetOK' /\ QuietOK'
  BY <1>1, <1>2, <1>4 DEF ResetOK, QuietOK
<1>10. RxOK'
  <2>1. Accepted' = Accepted
    BY <1>4 DEF Accepted
  <2> QED
    BY <1>1, <1>4, <1>5, <2>1 DEF RxOK
<1>11. TxOK'
  <2> DEFINE m == Len(seen["tx"])
             a == next["tx"]
  <2>1. m + 0 >= Base + (a - 1)
    BY <1>1, <1>2 DEF TxOK
  <2>2. m \in Nat /\ Base \in Nat /\ a \in Nat
    <3>1. seen["tx"] \in Seq(Reports)
      BY <1>1 DEF LocalsOK, Sides
    <3>2. m \in Nat
      BY <3>1, LenProperties
    <3> QED
      BY <1>1, <1>5, <3>2 DEF SentOK
  <2>3. Len(seen'["tx"]) = m /\ next'["tx"] = a + 1
    BY <1>4, <1>5
  <2> HIDE DEF m, a
  <2>4. m + 1 >= Base + ((a + 1) - 1)
    BY <2>1, <2>2
  <2> QED
    BY <1>4, <1>6, <2>3, <2>4 DEF TxOK
<1> QED
  BY <1>7, <1>8, <1>9, <1>10, <1>11 DEF Undisturbed

\* A sequence that is within another and not shorter is that one.
LEMMA WithinWhole ==
    ASSUME NEW S, NEW s \in Seq(S), NEW t \in Seq(S), Within(s, t),
           Len(s) >= Len(t)
    PROVE  s = t
<1>1. Len(s) \in Nat /\ Len(t) \in Nat /\ DOMAIN s = 1 .. Len(s)
  BY LenProperties
<1>2. Len(s) = Len(t)
  BY <1>1 DEF Within
<1>3. \A i \in 1 .. Len(s) : s[i] = t[i]
  BY <1>1 DEF Within
<1> QED
  BY <1>2, <1>3, SeqEqual

\* A round ends when everything has been delivered.
LEMMA JoinStep ==
    ASSUME Undisturbed, Join
    PROVE  Undisturbed'
<1>1. /\ LocalsOK /\ SentOK /\ SeenOK /\ DesignOK /\ ResetOK
      /\ RxOK /\ TxOK /\ FifoOK
  BY DEF Undisturbed
<1>2. /\ sequence' = [sequence EXCEPT !.step = "idle"]
      /\ sequence.step = "traffic"
      /\ UNCHANGED <<reset, rx, tx, next, signals, design, checkers, sent>>
      /\ next["rx"] > Len(sequence.items) /\ ~rx.busy
      /\ next["tx"] > Len(DataItems) /\ ~tx.busy
  BY DEF Join, TestStep, history, Served, Sides, Items
<1>3. /\ reset' = reset /\ rx' = rx /\ tx' = tx /\ sent' = sent /\ next' = next
      /\ areset_n' = areset_n /\ rx_tvalid' = rx_tvalid /\ rx_word' = rx_word
      /\ fsm_state' = fsm_state /\ rx_tready' = rx_tready /\ buffered' = buffered
      /\ packets' = packets /\ fifo' = fifo /\ m_error' = m_error /\ seen' = seen
  BY <1>2 DEF signals, design, checkers
<1>4. /\ sequence' \in [step : {"idle", "reset", "traffic"}, round : Nat,
                        items : Seq(TestItems)]
      /\ sequence'.step = "idle" /\ sequence'.items = sequence.items
  BY <1>1, <1>2 DEF SentOK
<1>5. DataItems' = DataItems /\ Base' = Base
  BY <1>3, <1>4 DEF DataItems, Base
<1> DEFINE S == Len(sent)
           D == Len(DataItems)
           m == Len(seen["rx"])
           n == Len(seen["tx"])
<1>6. S \in Nat /\ m \in Nat /\ n \in Nat /\ D \in Nat
      /\ Len(sequence.items) \in Nat
      /\ seen["rx"] \in Seq(Reports) /\ seen["tx"] \in Seq(Reports)
  <2>1. seen["rx"] \in Seq(Reports) /\ seen["tx"] \in Seq(Reports)
    BY <1>1 DEF LocalsOK, Sides
  <2>2. sequence.items \in Seq(TestItems) /\ sent \in Seq(Reports)
    BY <1>1 DEF SentOK
  <2>3. Len(sequence.items) \in Nat
    BY <2>2, LenProperties
  <2>4. D \in Nat
    <3>1. Len(sequence.items) \in 0 .. Len(sequence.items)
      BY <2>3
    <3> QED
      BY <2>2, <3>1, DataSeq DEF DataItems
  <2> QED
    BY <2>1, <2>2, <2>3, <2>4, LenProperties
<1>7. /\ ~Sends(rx) /\ packets["rx"] = NoPacket
      /\ Started = Len(sequence.items) /\ m = Base + D - 0
  <2>1. ~Sends(rx) /\ packets["rx"] = NoPacket
    BY <1>1, <1>2 DEF Sends, RxOK
  <2>2. Started \in 0 .. Len(sequence.items) /\ next["rx"] \in Nat
    BY <1>1, <1>2 DEF RxOK, LocalsOK
  <2>3. Started = Len(sequence.items)
    BY <1>2, <1>6, <2>2 DEF Started
  <2>4. m = Base + Len(DataAmong(sequence.items)[Started]) - 0
    BY <1>1, <1>2, <2>1 DEF RxOK
  <2> QED
    BY <2>1, <2>3, <2>4 DEF DataItems
<1>8. Base = S - D
  BY DEF Base
<1>9. n + 0 >= Base + (next["tx"] - 1) /\ next["tx"] \in Nat /\ next["tx"] > D
  BY <1>1, <1>2 DEF TxOK, LocalsOK
<1> HIDE DEF S, D, m, n
<1>10. m = S /\ n >= S
  BY <1>6, <1>7, <1>8, <1>9
<1>11. seen["rx"] = sent /\ seen["tx"] = sent
  <2>1. /\ Within(seen["rx"], sent) /\ Within(seen["tx"], sent)
        /\ sent \in Seq(Reports)
    BY <1>1 DEF SeenOK, Sides, SentOK
  <2>2. Len(seen["rx"]) >= Len(sent) /\ Len(seen["tx"]) >= Len(sent)
    <3>1. m >= S /\ n >= S
      BY <1>6, <1>10
    <3> QED
      BY <3>1 DEF m, n, S
  <2> QED
    BY <1>6, <2>1, <2>2, WithinWhole
<1>12. fsm_state = "IDLE"
  <2> SUFFICES ASSUME fsm_state = "BUFFERED" PROVE FALSE
    BY <1>1 DEF DesignOK
  <2>1. /\ seen["rx"] = SeenAfter(seen["tx"], packets["tx"], buffered)
        /\ packets["rx"] = PartAfter(packets["tx"], buffered)
    BY <1>1 DEF DesignOK
  <2>2. CASE buffered.tlast
    <3>1. Len(seen["rx"]) = Len(seen["tx"]) + 1
      BY <1>6, <2>1, <2>2, Longer DEF SeenAfter
    <3>2. m = m + 1
      BY <1>11, <3>1 DEF m
    <3> QED
      BY <1>6, <3>2
  <2>3. CASE ~buffered.tlast
    <3>1. NoPacket = Collect(packets["tx"], buffered)
      BY <1>7, <2>1, <2>3 DEF PartAfter
    <3>2. NoPacket.bus_size = 0
      BY DEF NoPacket
    <3>3. Collect(packets["tx"], buffered).bus_size = BUS_SIZE
      BY DEF Collect
    <3> QED
      BY <3>1, <3>2, <3>3, TestbenchAssumption
  <2> QED
    BY <2>2, <2>3
<1>13. LocalsOK' /\ SeenOK' /\ DesignOK' /\ FifoOK'
  BY <1>1, <1>3 DEF LocalsOK, SeenOK, DesignOK, FifoOK
<1>14. SentOK'
  BY <1>1, <1>3, <1>4, <1>5 DEF SentOK
<1>15. ResetOK'
  BY <1>1, <1>2, <1>3, <1>4 DEF ResetOK
<1>16. QuietOK'
  <2>1. Len(seen["rx"]) = Len(sent)
    BY <1>11
  <2> QED
    BY <1>2, <1>3, <1>4, <1>12, <2>1 DEF QuietOK
<1>17. RxOK' /\ TxOK'
  <2>1. ~Sends(rx) /\ ~rx_tvalid
    BY <1>1, <1>7 DEF RxOK
  <2> QED
    BY <1>3, <1>4, <1>7, <2>1 DEF RxOK, TxOK
<1> QED
  BY <1>13, <1>14, <1>15, <1>16, <1>17 DEF Undisturbed

\* The scoreboard compares a packet with itself.
LEMMA CompareStep ==
    ASSUME Undisturbed, Compare
    PROVE  Undisturbed'
<1>1. /\ LocalsOK /\ SentOK /\ SeenOK /\ DesignOK /\ ResetOK /\ QuietOK
      /\ RxOK /\ TxOK /\ FifoOK
  BY DEF Undisturbed
<1>2. /\ fifo["rx"] # <<>> /\ fifo["tx"] # <<>>
      /\ m_error' = (m_error \/ ~PacketEqual(Head(fifo["rx"]), Head(fifo["tx"])))
      /\ fifo' = [side \in Sides |-> Tail(fifo[side])]
      /\ UNCHANGED <<sequence, reset, rx, tx, next, signals, design,
                     packets, seen, history>>
  BY DEF Compare, Comparable
<1>3. /\ sequence' = sequence /\ reset' = reset /\ rx' = rx /\ tx' = tx
      /\ next' = next /\ sent' = sent
      /\ areset_n' = areset_n /\ rx_tvalid' = rx_tvalid /\ rx_word' = rx_word
      /\ fsm_state' = fsm_state /\ rx_tready' = rx_tready /\ buffered' = buffered
      /\ packets' = packets /\ seen' = seen
  BY <1>2 DEF signals, design, history
<1>4. Base' = Base /\ DataItems' = DataItems /\ Started' = Started
      /\ Accepted' = Accepted
  BY <1>3 DEF Base, DataItems, Started, Accepted
<1>5. ASSUME NEW side \in Sides
      PROVE  LET f == fifo[side]  s == seen[side]  c == Len(s) - Len(f)
             IN  /\ f \in Seq(Reports) /\ Len(f) \in Nat /\ Len(s) \in Nat
                 /\ Len(f) >= 1 /\ Len(f) <= Len(s)
                 /\ Head(f) = sent[c + 1]
                 /\ Tail(f) \in Seq(Reports) /\ Len(Tail(f)) = Len(f) - 1
                 /\ \A i \in 1 .. Len(f) : f[i] = s[c + i]
                 /\ \A i \in 1 .. Len(f) - 1 : Tail(f)[i] = f[i + 1]
  <2> DEFINE f == fifo[side]
             s == seen[side]
  <2>1. f \in Seq(Reports) /\ f # <<>> /\ s \in Seq(Reports)
        /\ Within(s, sent)
    BY <1>1, <1>2 DEF LocalsOK, Sides, SeenOK
  <2>2. /\ Len(f) <= Len(s)
        /\ \A i \in 1 .. Len(f) : f[i] = s[Len(s) - Len(f) + i]
    BY <1>1 DEF FifoOK
  <2> HIDE DEF f, s
  <2>3. /\ Len(f) \in Nat /\ Len(s) \in Nat /\ Len(f) >= 1
        /\ DOMAIN s = 1 .. Len(s)
    BY <2>1, LenProperties, EmptySeq
  <2>4. /\ Head(f) = f[1] /\ Tail(f) \in Seq(Reports)
        /\ Len(Tail(f)) = Len(f) - 1
        /\ \A i \in 1 .. Len(Tail(f)) : Tail(f)[i] = f[i + 1]
    BY <2>1, HeadTailProperties
  <2>5. Head(f) = sent[Len(s) - Len(f) + 1]
    <3> DEFINE c == Len(s) - Len(f)
    <3>1. 1 \in 1 .. Len(f) /\ c + 1 \in 1 .. Len(s)
      BY <2>2, <2>3
    <3>2. f[1] = s[c + 1]
      BY <2>2, <3>1
    <3>3. s[c + 1] = sent[c + 1]
      <4> HIDE DEF c
      <4> QED
        BY <2>1, <2>3, <3>1 DEF Within
    <3> QED
      BY <2>4, <3>2, <3>3
  <2> QED
    BY <2>1, <2>2, <2>3, <2>4, <2>5 DEF f, s
<1>6. Head(fifo["rx"]) = Head(fifo["tx"])
  <2>1. Len(seen["rx"]) - Len(fifo["rx"]) = Len(seen["tx"]) - Len(fifo["tx"])
    BY <1>1 DEF FifoOK
  <2>2. /\ Head(fifo["rx"]) = sent[Len(seen["rx"]) - Len(fifo["rx"]) + 1]
        /\ Head(fifo["tx"]) = sent[Len(seen["tx"]) - Len(fifo["tx"]) + 1]
    BY <1>5 DEF Sides
  <2> QED
    BY <2>1, <2>2
<1>7. ~m_error'
  BY <1>1, <1>2, <1>6 DEF FifoOK, PacketEqual, ByteEqual
<1>8. FifoOK'
  <2>1. ASSUME NEW side \in Sides
        PROVE  /\ Len(seen'[side]) - Len(fifo'[side])
                      = Len(seen[side]) - Len(fifo[side]) + 1
               /\ Len(fifo'[side]) <= Len(seen'[side])
               /\ \A i \in 1 .. Len(fifo'[side]) : fifo'[side][i]
                     = seen'[side][Len(seen'[side]) - Len(fifo'[side]) + i]
    <3> DEFINE f == fifo[side]
               s == seen[side]
               g == Tail(f)
    <3>1. /\ Len(f) \in Nat /\ Len(s) \in Nat /\ Len(f) >= 1
          /\ Len(f) <= Len(s) /\ Len(g) = Len(f) - 1
          /\ \A i \in 1 .. Len(f) : f[i] = s[Len(s) - Len(f) + i]
          /\ \A i \in 1 .. Len(f) - 1 : g[i] = f[i + 1]
      BY <1>5
    <3>2. fifo'[side] = g /\ seen'[side] = s
      BY <1>2, <1>3
    <3> HIDE DEF f, s, g
    <3>3. /\ Len(s) - Len(g) = Len(s) - Len(f) + 1
          /\ Len(g) <= Len(s)
      BY <3>1
    <3>4. ASSUME NEW i \in 1 .. Len(g) PROVE g[i] = s[Len(s) - Len(g) + i]
      <4>1. i \in 1 .. Len(f) - 1 /\ i + 1 \in 1 .. Len(f)
            /\ Len(s) - Len(f) + (i + 1) = Len(s) - Len(g) + i
        BY <3>1
      <4> DEFINE j == i + 1
      <4>2. g[i] = f[j] /\ j \in 1 .. Len(f)
        BY <3>1, <4>1
      <4> HIDE DEF j
      <4>3. f[j] = s[Len(s) - Len(f) + j]
        BY <3>1, <4>2
      <4> QED
        BY <4>1, <4>2, <4>3 DEF j
    <3> QED
      BY <3>2, <3>3, <3>4 DEF f, s
  <2>2. Len(seen["rx"])' - Len(fifo["rx"])' = Len(seen["tx"])' - Len(fifo["tx"])'
    <3>1. Len(seen["rx"]) - Len(fifo["rx"]) = Len(seen["tx"]) - Len(fifo["tx"])
      BY <1>1 DEF FifoOK
    <3>2. /\ Len(seen'["rx"]) - Len(fifo'["rx"])
                = Len(seen["rx"]) - Len(fifo["rx"]) + 1
          /\ Len(seen'["tx"]) - Len(fifo'["tx"])
                = Len(seen["tx"]) - Len(fifo["tx"]) + 1
      BY <2>1 DEF Sides
    <3> QED
      BY <3>1, <3>2
  <2> QED
    BY <1>7, <2>1, <2>2 DEF FifoOK
<1>9. LocalsOK'
  <2>1. fifo' \in [Sides -> Seq(Reports)]
    <3>1. \A side \in Sides : Tail(fifo[side]) \in Seq(Reports)
      BY <1>5
    <3> QED
      BY <1>2, <3>1
  <2> QED
    BY <1>1, <1>3, <2>1 DEF LocalsOK
<1>10. SentOK' /\ SeenOK' /\ DesignOK' /\ ResetOK' /\ QuietOK'
  BY <1>1, <1>3, <1>4 DEF SentOK, SeenOK, DesignOK, ResetOK, QuietOK
<1>11. RxOK' /\ TxOK'
  BY <1>1, <1>3, <1>4 DEF RxOK, TxOK
<1> QED
  BY <1>8, <1>9, <1>10, <1>11 DEF Undisturbed

\* Nothing has been sent at the start.
LEMMA StartsUndisturbed ==
    ASSUME TestInit
    PROVE  Undisturbed
<1>1. /\ sequence = [step |-> "idle", round |-> 0, items |-> <<>>]
      /\ reset = [busy |-> FALSE, duration |-> 0, idle |-> 0]
      /\ rx = [RxLocals(NoItem, 0) EXCEPT !.busy = FALSE]
      /\ tx = [TxLocals(0) EXCEPT !.busy = FALSE]
      /\ next = [side \in Sides |-> 1]
      /\ rx_tvalid = FALSE /\ fsm_state = "IDLE" /\ rx_tready = FALSE
      /\ packets = [side \in Sides |-> NoPacket]
      /\ fifo = [side \in Sides |-> <<>>]
      /\ seen = [side \in Sides |-> <<>>]
      /\ m_error = FALSE /\ sent = <<>>
  BY DEF TestInit
<1>2. sequence.step = "idle" /\ sequence.items = <<>> /\ Len(sequence.items) = 0
  BY <1>1
<1>3. sequence.items \in Seq(TestItems)
  BY <1>2
<1>4. DataItems = <<>>
  <2>1. DataAmong(sequence.items)[0] = <<>>
    BY <1>3, DataStep
  <2> QED
    BY <1>2, <2>1 DEF DataItems
<1>5. Base = 0 /\ Len(DataItems) = 0 /\ Len(sent) = 0
  BY <1>1, <1>4 DEF Base
<1>6. rx \in RxRecords /\ ~rx.busy
  <2> DEFINE r == RxLocals(NoItem, 0)
  <2>1. r \in RxRecords
    <3>1. NoItem \in TestItems
      BY DEF NoItem, TestItems
    <3>2. TIMEOUT \in Int
      BY TestbenchAssumption
    <3> HIDE DEF NoItem
    <3> QED
      BY <3>1, <3>2 DEF RxLocals, RxRecords
  <2>2. rx = [r EXCEPT !.busy = FALSE]
    BY <1>1
  <2> HIDE DEF r
  <2> QED
    BY <2>1, <2>2 DEF RxRecords
<1>7. tx \in TxRecords /\ ~tx.busy
  <2> DEFINE r == TxLocals(0)
  <2>1. r \in TxRecords
    BY TestbenchAssumption DEF TxLocals, TxRecords
  <2>2. tx = [r EXCEPT !.busy = FALSE]
    BY <1>1
  <2> HIDE DEF r
  <2> QED
    BY <2>1, <2>2 DEF TxRecords
<1>8. \A side \in Sides : seen[side] = <<>> /\ fifo[side] = <<>>
                          /\ packets[side] = NoPacket
  BY <1>1
<1>9. LocalsOK
  <2>1. reset \in ResetRecords
    BY <1>1 DEF ResetRecords
  <2>2. seen \in [Sides -> Seq(Reports)] /\ fifo \in [Sides -> Seq(Reports)]
    <3>1. <<>> \in Seq(Reports)
      OBVIOUS
    <3> DEFINE T == Seq(Reports)
    <3>2. <<>> \in T
      BY <3>1
    <3> HIDE DEF T
    <3>3. seen \in [Sides -> T] /\ fifo \in [Sides -> T]
      BY <1>1, <3>2
    <3> QED
      BY <3>3 DEF T
  <2>3. next["rx"] \in Nat /\ next["tx"] \in Nat /\ next \in [Sides -> Nat]
    BY <1>1 DEF Sides
  <2> QED
    BY <1>1, <1>6, <1>7, <2>1, <2>2, <2>3 DEF LocalsOK
<1>10. SentOK
  <2>1. sequence \in [step : {"idle", "reset", "traffic"}, round : Nat,
                      items : Seq(TestItems)]
    BY <1>1, <1>3
  <2>2. \A i \in DOMAIN sequence.items :
          sequence.items[i].type = "DATA" => sequence.items[i].tdata # <<>>
    BY <1>2
  <2>3. sent \in Seq(Reports)
    BY <1>1
  <2> QED
    BY <1>3, <1>5, <2>1, <2>2, <2>3 DEF SentOK
<1>11. SeenOK
  BY <1>1, <1>8 DEF SeenOK, Within
<1>12. DesignOK
  BY <1>1, <1>8 DEF DesignOK, Sides
<1>13. ResetOK
  BY <1>1, <1>2 DEF ResetOK
<1>14. QuietOK
  BY <1>1, <1>2, <1>6, <1>7, <1>8 DEF QuietOK, Sides
<1>15. RxOK /\ TxOK
  BY <1>1, <1>2, <1>6, <1>8 DEF RxOK, TxOK, Sends, Sides
<1>16. FifoOK
  BY <1>1, <1>8 DEF FifoOK, Sides
<1> QED
  BY <1>9, <1>10, <1>11, <1>12, <1>13, <1>14, <1>15, <1>16 DEF Undisturbed

\* One action per step.
LEMMA TestInvStep ==
    ASSUME TestInv, [TestNext]_testVars
    PROVE  TestInv'
<1> SUFFICES ASSUME ~disturbed' PROVE Undisturbed'
  BY DEF TestInv
<1>1. CASE Phases
  <2>1. /\ ~disturbed
        /\ UNCHANGED <<sequence, reset, rx, tx, next, signals, design, checkers,
                       sent>>
    BY <1>1 DEF Phases, history
  <2> QED
    BY <2>1, Frame DEF TestInv
<1>2. CASE StartSequence
  <2>1. ~disturbed
    BY <1>2 DEF StartSequence
  <2> QED
    BY <1>2, <2>1, StartStep DEF TestInv
<1>3. CASE Fork
  <2>1. ~disturbed
    BY <1>3 DEF Fork, history
  <2> QED
    BY <1>3, <2>1, ForkStep DEF TestInv
<1>4. CASE StartRx
  <2>1. ~disturbed
    BY <1>4 DEF StartRx
  <2> QED
    BY <1>4, <2>1, StartRxStep DEF TestInv
<1>5. CASE StartTx
  <2>1. ~disturbed
    BY <1>5 DEF StartTx
  <2> QED
    BY <1>5, <2>1, StartTxStep DEF TestInv
<1>6. CASE ResetTraffic
  BY <1>6 DEF ResetTraffic
<1>7. CASE Join
  <2>1. ~disturbed
    BY <1>7 DEF Join, history
  <2> QED
    BY <1>7, <2>1, JoinStep DEF TestInv
<1>8. CASE Compare
  <2>1. ~disturbed
    BY <1>8 DEF Compare, history
  <2> QED
    BY <1>8, <2>1, CompareStep DEF TestInv
<1>9. CASE Clock
  <2>1. ~disturbed
    BY <1>9 DEF Clock
  <2> QED
    BY <1>9, <2>1, ClockInTraffic, ClockInReset DEF TestInv
<1>10. CASE EndRun \/ Extract \/ Report
  <2>1. /\ ~disturbed
        /\ UNCHANGED <<sequence, reset, rx, tx, next, signals, design, checkers,
                       sent>>
    BY <1>10 DEF EndRun, Extract, Report, history
  <2> QED
    BY <2>1, Frame DEF TestInv
<1>11. CASE UNCHANGED testVars
  <2>1. /\ ~disturbed
        /\ UNCHANGED <<sequence, reset, rx, tx, next, signals, design, checkers,
                       sent>>
    BY <1>11 DEF testVars, history
  <2> QED
    BY <2>1, Frame DEF TestInv
<1> QED
  BY <1>1, <1>2, <1>3, <1>4, <1>5, <1>6, <1>7, <1>8, <1>9, <1>10, <1>11 DEF TestNext

\* The invariant holds for every bus width, item, idle range and timeout.
THEOREM TestInvariance == TestSpec => []TestInv
<1>1. TestInit => TestInv
  BY StartsUndisturbed DEF TestInv
<1>2. TestInv /\ [TestNext]_testVars => TestInv'
  BY TestInvStep
<1> QED
  BY <1>1, <1>2, PTL DEF TestSpec

(***************************************************************************)
(* Both monitors report the packets of the items: it follows from SeenOK,  *)
(* and, between two rounds, from QuietOK and DesignOK.                     *)
(***************************************************************************)
THEOREM MonitorsAlwaysSeeItems == TestSpec => []MonitorSeesItems
<1>1. TestInv => MonitorSeesItems
  <2> SUFFICES ASSUME Undisturbed, NEW side \in Sides
               PROVE  /\ Within(seen[side], sent)
                      /\ sequence.step = "idle" => seen[side] = sent
    BY DEF TestInv, MonitorSeesItems
  <2>1. Within(seen[side], sent)
    BY DEF Undisturbed, SeenOK
  <2>2. ASSUME sequence.step = "idle" PROVE seen[side] = sent
    <3>1. fsm_state = "IDLE" /\ Len(seen["rx"]) = Len(sent)
      BY <2>2 DEF Undisturbed, QuietOK
    <3>2. seen["rx"] = seen["tx"]
      BY <3>1 DEF Undisturbed, DesignOK
    <3>3. seen[side] = seen["rx"]
      BY <3>2 DEF Sides
    <3>4. seen[side] \in Seq(Reports) /\ sent \in Seq(Reports)
      BY DEF Undisturbed, LocalsOK, SentOK
    <3>5. Len(seen[side]) >= Len(sent)
      <4>1. Len(sent) \in Nat
        BY <3>4, LenProperties
      <4> QED
        BY <3>1, <3>3, <4>1
    <3> QED
      BY <2>1, <3>4, <3>5, WithinWhole
  <2> QED
    BY <2>1, <2>2
<1> QED
  BY <1>1, TestInvariance, PTL

\* The scoreboard raises no false alarm: part of the invariant.
THEOREM NeverFalseAlarm == TestSpec => []NoFalseAlarm
<1>1. TestInv => NoFalseAlarm
  BY DEF TestInv, Undisturbed, FifoOK, NoFalseAlarm
<1> QED
  BY <1>1, TestInvariance, PTL

(***************************************************************************)
(* The driver does not touch a transfer that is offered and not accepted:  *)
(* while it is offered the driver is in its loop, out of reset, and each   *)
(* turn of the loop without tready is Stalled.                             *)
(***************************************************************************)
THEOREM DriverHoldsOffer == TestSpec => HoldsOffer
<1>1. ASSUME TestInv, [TestNext]_testVars, rx_tvalid, ~rx_tready, ~disturbed'
      PROVE  rx_tvalid' /\ rx_word' = rx_word
  <2>1. CASE disturbed
    <3>1. disturbed'
      BY <1>1, <2>1
      DEF TestNext, Phases, StartSequence, Fork, StartRx, StartTx, ResetTraffic,
          Join, Compare, Clock, EndRun, Extract, Report, history, testVars
    <3> QED
      BY <1>1, <3>1
  <2>2. CASE ~disturbed
    <3>1. /\ Sends(rx) /\ sequence.step = "traffic" /\ ~reset.busy /\ areset_n
      BY <1>1, <2>2 DEF TestInv, Undisturbed, RxOK, ResetOK
    <3>2. CASE Clock
      <4>1. RxTurn(rx, FALSE)
        <5>1. PICK rxGaveUp \in BOOLEAN, txGaveUp \in BOOLEAN :
                /\ IF rx.busy THEN RxTurn(rx, rxGaveUp)
                   ELSE rxGaveUp = FALSE /\ UNCHANGED <<rx, rx_tvalid, rx_word>>
                /\ disturbed' = (disturbed \/ rxGaveUp \/ txGaveUp)
          BY <3>2 DEF Clock
        <5>2. rxGaveUp = FALSE
          BY <1>1, <5>1
        <5> QED
          BY <3>1, <5>1, <5>2 DEF Sends
      <4>2. Stalled(rx)
        BY <1>1, <3>1, <4>1 DEF RxTurn, DataTurn, Sends
      <4> QED
        BY <1>1, <4>2 DEF Stalled
    <3>3. CASE StartRx
      BY <3>1, <3>3 DEF StartRx, Sends
    <3>4. CASE ResetTraffic
      BY <1>1, <3>4 DEF ResetTraffic
    <3>5. CASE \/ Phases \/ StartSequence \/ Fork \/ StartTx \/ Join \/ Compare
               \/ EndRun \/ Extract \/ Report \/ UNCHANGED testVars
      BY <1>1, <3>5
      DEF Phases, StartSequence, Fork, StartTx, Join, Compare, EndRun, Extract,
          Report, signals, testVars
    <3> QED
      BY <1>1, <3>2, <3>3, <3>4, <3>5 DEF TestNext
  <2> QED
    BY <2>1, <2>2
<1>2. TestInv /\ [TestNext]_testVars =>
        [rx_tvalid /\ ~rx_tready /\ ~disturbed'
             => rx_tvalid' /\ rx_word' = rx_word]_testVars
  BY <1>1
<1> QED
  BY <1>2, TestInvariance, PTL DEF TestSpec, HoldsOffer

-----------------------------------------------------------------------------
\* Before the run phase: what was built, and what it is bound to.

AgentBindings(agent) ==
    {<<Driver[agent], Sequencer[agent]>>}
        \cup (IF agent \in Watching THEN {<<Monitor[agent], agent>>} ELSE {})

ScoreboardBindings == {<<"rx_analysis_export", "rx_fifo">>,
                       <<"tx_analysis_export", "tx_fifo">>}

TestbenchBindings ==
    {<<"sequencer", Sequencer[agent]>> : agent \in Agents}
        \cup {<<"rx_agent", "rx_analysis_export">>,
              <<"tx_agent", "tx_analysis_export">>}

AllBindings ==
    {<<"rx_agent.driver", "rx_agent.sequencer">>, <<"rx_agent.monitor", "rx_agent">>,
     <<"tx_agent.driver", "tx_agent.sequencer">>, <<"tx_agent.monitor", "tx_agent">>,
     <<"reset_agent.driver", "reset_agent.sequencer">>,
     <<"rx_analysis_export", "rx_fifo">>, <<"tx_analysis_export", "tx_fifo">>,
     <<"sequencer", "rx_agent.sequencer">>, <<"sequencer", "tx_agent.sequencer">>,
     <<"sequencer", "reset_agent.sequencer">>,
     <<"rx_agent", "rx_analysis_export">>, <<"tx_agent", "tx_analysis_export">>}

\* A component that was built has created its parts.
PartsCreated ==
    /\ "test" \in created
    /\ "test" \in built => "testbench" \in created
    /\ "testbench" \in built => TestbenchParts \subseteq created
    /\ \A agent \in Agents : agent \in built => AgentParts(agent) \subseteq created

InterfacesKnown ==
    /\ vif \subseteq Agents
    /\ \A agent \in Agents : Driver[agent] \in built => agent \in vif
    /\ phase = "fatal" => vif # Agents

\* A component that was connected has made its bindings; there are no others.
BindingsMade ==
    /\ bindings \subseteq AllBindings
    /\ \A agent \in Agents : agent \in wired => AgentBindings(agent) \subseteq bindings
    /\ "scoreboard" \in wired => ScoreboardBindings \subseteq bindings
    /\ "testbench" \in wired => TestbenchBindings \subseteq bindings

\* A phase begins when the one before it is over.
InOrder ==
    /\ phase \notin {"build", "fatal"} => built = created
    /\ phase \notin {"build", "connect", "fatal"} => wired = built

PhaseInv == PartsCreated /\ InterfacesKnown /\ BindingsMade /\ InOrder

\* The parts of the agents.
LEMMA Names ==
    /\ Agents = {"rx_agent", "tx_agent", "reset_agent"}
    /\ Driver["rx_agent"] = "rx_agent.driver"
    /\ Driver["tx_agent"] = "tx_agent.driver"
    /\ Driver["reset_agent"] = "reset_agent.driver"
    /\ Sequencer["rx_agent"] = "rx_agent.sequencer"
    /\ Sequencer["tx_agent"] = "tx_agent.sequencer"
    /\ Sequencer["reset_agent"] = "reset_agent.sequencer"
    /\ Monitor["rx_agent"] = "rx_agent.monitor"
    /\ Monitor["tx_agent"] = "tx_agent.monitor"
    /\ Watching = {"rx_agent", "tx_agent"}
BY DEF Agents, Driver, Sequencer, Monitor, Watching

\* The bindings that the components make, one by one.
LEMMA Bindings ==
    /\ AgentBindings("rx_agent") = {<<"rx_agent.driver", "rx_agent.sequencer">>,
                                    <<"rx_agent.monitor", "rx_agent">>}
    /\ AgentBindings("tx_agent") = {<<"tx_agent.driver", "tx_agent.sequencer">>,
                                    <<"tx_agent.monitor", "tx_agent">>}
    /\ AgentBindings("reset_agent") =
           {<<"reset_agent.driver", "reset_agent.sequencer">>}
    /\ ScoreboardBindings = {<<"rx_analysis_export", "rx_fifo">>,
                             <<"tx_analysis_export", "tx_fifo">>}
    /\ TestbenchBindings = {<<"sequencer", "rx_agent.sequencer">>,
                            <<"sequencer", "tx_agent.sequencer">>,
                            <<"sequencer", "reset_agent.sequencer">>,
                            <<"rx_agent", "rx_analysis_export">>,
                            <<"tx_agent", "tx_analysis_export">>}
<1>1. AgentBindings("rx_agent") = {<<"rx_agent.driver", "rx_agent.sequencer">>,
                                   <<"rx_agent.monitor", "rx_agent">>}
  BY Names DEF AgentBindings
<1>2. AgentBindings("tx_agent") = {<<"tx_agent.driver", "tx_agent.sequencer">>,
                                   <<"tx_agent.monitor", "tx_agent">>}
  BY Names DEF AgentBindings
<1>3. AgentBindings("reset_agent") =
           {<<"reset_agent.driver", "reset_agent.sequencer">>}
  BY Names DEF AgentBindings
<1>4. {<<"sequencer", Sequencer[agent]>> : agent \in Agents} =
          {<<"sequencer", "rx_agent.sequencer">>,
           <<"sequencer", "tx_agent.sequencer">>,
           <<"sequencer", "reset_agent.sequencer">>}
  BY Names
<1> QED
  BY <1>1, <1>2, <1>3, <1>4 DEF ScoreboardBindings, TestbenchBindings

\* They are among all bindings, and there are no others.
LEMMA BindingsAmongAll ==
    /\ \A agent \in Agents : AgentBindings(agent) \subseteq AllBindings
    /\ ScoreboardBindings \subseteq AllBindings
    /\ TestbenchBindings \subseteq AllBindings
BY Bindings, Names DEF AllBindings

\* The build phase of a component, which creates its parts.
LEMMA BuildStep ==
    ASSUME PhaseInv, NEW c, NEW parts, Build(c, parts),
           c = "test" => "testbench" \in parts,
           c = "testbench" => TestbenchParts \subseteq parts,
           \A agent \in Agents : c = agent => AgentParts(agent) \subseteq parts,
           \A agent \in Agents : c = Driver[agent] => agent \in vif
    PROVE  PhaseInv'
<1>1. /\ phase = "build" /\ phase' = phase /\ vif' = vif /\ wired' = wired
      /\ bindings' = bindings
      /\ created' = created \cup parts /\ built' = built \cup {c}
  BY DEF Build
<1>2. PartsCreated'
  BY <1>1 DEF PhaseInv, PartsCreated
<1>3. InterfacesKnown'
  BY <1>1 DEF PhaseInv, InterfacesKnown
<1>4. BindingsMade' /\ InOrder'
  BY <1>1 DEF PhaseInv, BindingsMade, InOrder
<1> QED
  BY <1>2, <1>3, <1>4 DEF PhaseInv

\* The connect phase of a component, which makes its bindings.
LEMMA ConnectStep ==
    ASSUME PhaseInv, NEW c, NEW parts, NEW new, Connect(c, parts, new),
           new \subseteq AllBindings,
           \A agent \in Agents : c = agent => AgentBindings(agent) \subseteq new,
           c = "scoreboard" => ScoreboardBindings \subseteq new,
           c = "testbench" => TestbenchBindings \subseteq new
    PROVE  PhaseInv'
<1>1. /\ phase = "connect" /\ phase' = phase /\ vif' = vif
      /\ created' = created /\ built' = built
      /\ wired' = wired \cup {c} /\ bindings' = bindings \cup new
  BY DEF Connect
<1>2. PartsCreated' /\ InterfacesKnown' /\ InOrder'
  BY <1>1 DEF PhaseInv, PartsCreated, InterfacesKnown, InOrder
<1>3. BindingsMade'
  BY <1>1 DEF PhaseInv, BindingsMade
<1> QED
  BY <1>2, <1>3 DEF PhaseInv

\* One action of the phases per step.
LEMMA PhasesStep ==
    ASSUME PhaseInv, PhasesNext
    PROVE  PhaseInv'
<1>1. CASE BuildTest
  BY <1>1, BuildStep, Names DEF BuildTest
<1>2. CASE BuildTestbench
  BY <1>2, BuildStep, Names DEF BuildTestbench
<1>3. CASE BuildRxAgent
  BY <1>3, BuildStep, Names DEF BuildRxAgent
<1>4. CASE BuildTxAgent
  BY <1>4, BuildStep, Names DEF BuildTxAgent
<1>5. CASE BuildResetAgent
  BY <1>5, BuildStep, Names DEF BuildResetAgent
<1>6. CASE BuildRxDriver
  BY <1>6, BuildStep, Names DEF BuildRxDriver
<1>7. CASE BuildTxDriver
  BY <1>7, BuildStep, Names DEF BuildTxDriver
<1>8. CASE BuildResetDriver
  BY <1>8, BuildStep, Names DEF BuildResetDriver
<1>9. CASE BuildMonitor
  <2>1. PICK agent \in Watching : Build(Monitor[agent], {})
    BY <1>9 DEF BuildMonitor
  <2>2. Monitor[agent] \in {"rx_agent.monitor", "tx_agent.monitor"}
    BY <2>1, Names
  <2> QED
    BY <2>1, <2>2, BuildStep, Names
<1>10. CASE BuildScoreboard
  BY <1>10, BuildStep, Names DEF BuildScoreboard
<1>11. CASE BuildSequencer
  <2>1. PICK c \in {"sequencer"} \cup {Sequencer[agent] : agent \in Agents} :
               Build(c, {})
    BY <1>11 DEF BuildSequencer
  <2>2. c \in {"sequencer", "rx_agent.sequencer", "tx_agent.sequencer",
               "reset_agent.sequencer"}
    BY <2>1, Names
  <2> QED
    BY <2>1, <2>2, BuildStep, Names
<1>12. CASE Abort \/ EndBuild \/ EndConnect
  BY <1>12
  DEF Abort, EndBuild, EndConnect, PhaseInv, PartsCreated, InterfacesKnown,
      BindingsMade, InOrder
<1>13. CASE ConnectLeaf
  <2>1. PICK c \in {"sequencer"} \cup UNION {AgentParts(agent) : agent \in Agents} :
               Connect(c, {}, {})
    BY <1>13 DEF ConnectLeaf
  <2>2. c \notin Agents /\ c # "scoreboard" /\ c # "testbench"
    BY <2>1, Names DEF AgentParts
  <2> QED
    BY <2>1, <2>2, ConnectStep
<1>14. CASE ConnectScoreboard
  <2>1. ScoreboardBindings \subseteq AllBindings
    BY BindingsAmongAll
  <2>2. Connect("scoreboard", {}, ScoreboardBindings)
    BY <1>14 DEF ConnectScoreboard, ScoreboardBindings
  <2> QED
    BY <2>1, <2>2, ConnectStep, Names
<1>15. CASE ConnectRxAgent \/ ConnectTxAgent \/ ConnectResetAgent
  <2>1. \E agent \in Agents : Connect(agent, AgentParts(agent), AgentBindings(agent))
    BY <1>15, Names
    DEF ConnectRxAgent, ConnectTxAgent, ConnectResetAgent, AgentBindings
  <2>2. PICK agent \in Agents :
               Connect(agent, AgentParts(agent), AgentBindings(agent))
    BY <2>1
  <2>3. AgentBindings(agent) \subseteq AllBindings
    BY BindingsAmongAll
  <2>4. agent # "scoreboard" /\ agent # "testbench"
    BY Names
  <2> QED
    BY <2>2, <2>3, <2>4, ConnectStep
<1>16. CASE ConnectTestbench
  <2>1. TestbenchBindings \subseteq AllBindings
    BY BindingsAmongAll
  <2>2. Connect("testbench", TestbenchParts, TestbenchBindings)
    BY <1>16 DEF ConnectTestbench, TestbenchBindings
  <2> QED
    BY <2>1, <2>2, ConnectStep, Names
<1>17. CASE ConnectTest
  <2>1. Connect("test", {"testbench"}, {})
    BY <1>17 DEF ConnectTest
  <2> QED
    BY <2>1, ConnectStep, Names
<1> QED
  BY <1>1, <1>2, <1>3, <1>4, <1>5, <1>6, <1>7, <1>8, <1>9, <1>10, <1>11, <1>12,
     <1>13, <1>14, <1>15, <1>16, <1>17 DEF PhasesNext

\* What a component with one binding is bound to.
LEMMA BoundOnce ==
    ASSUME NEW from, NEW to, <<from, to>> \in bindings,
           \A b \in bindings : b[1] = from => b[2] = to
    PROVE  BoundTo({from}) = {to}
<1>1. to \in BoundTo({from})
  <2> DEFINE b == <<from, to>>
  <2>1. b \in bindings /\ b[1] \in {from} /\ b[2] = to
    OBVIOUS
  <2> HIDE DEF b
  <2> QED
    BY <2>1 DEF BoundTo
<1>2. ASSUME NEW x \in BoundTo({from}) PROVE x = to
  BY DEF BoundTo
<1> QED
  BY <1>1, <1>2

\* What the bindings of all components lead to.
LEMMA AllBound ==
    ASSUME bindings = AllBindings
    PROVE  /\ Receivers(Monitor["rx_agent"]) = {"rx_fifo"}
           /\ Receivers(Monitor["tx_agent"]) = {"tx_fifo"}
           /\ \A agent \in Agents :
                 /\ <<Driver[agent], Sequencer[agent]>> \in bindings
                 /\ Sequencer[agent] \in BoundTo({"sequencer"})
<1>1. BoundTo({"rx_agent.monitor"}) = {"rx_agent"}
  <2>1. <<"rx_agent.monitor", "rx_agent">> \in bindings
    BY DEF AllBindings
  <2>2. \A b \in bindings : b[1] = "rx_agent.monitor" => b[2] = "rx_agent"
    BY DEF AllBindings
  <2> QED
    BY <2>1, <2>2, BoundOnce
<1>2. BoundTo({"tx_agent.monitor"}) = {"tx_agent"}
  <2>1. <<"tx_agent.monitor", "tx_agent">> \in bindings
    BY DEF AllBindings
  <2>2. \A b \in bindings : b[1] = "tx_agent.monitor" => b[2] = "tx_agent"
    BY DEF AllBindings
  <2> QED
    BY <2>1, <2>2, BoundOnce
<1>3. BoundTo({"rx_agent"}) = {"rx_analysis_export"}
  <2>1. <<"rx_agent", "rx_analysis_export">> \in bindings
    BY DEF AllBindings
  <2>2. \A b \in bindings : b[1] = "rx_agent" => b[2] = "rx_analysis_export"
    BY DEF AllBindings
  <2> QED
    BY <2>1, <2>2, BoundOnce
<1>4. BoundTo({"tx_agent"}) = {"tx_analysis_export"}
  <2>1. <<"tx_agent", "tx_analysis_export">> \in bindings
    BY DEF AllBindings
  <2>2. \A b \in bindings : b[1] = "tx_agent" => b[2] = "tx_analysis_export"
    BY DEF AllBindings
  <2> QED
    BY <2>1, <2>2, BoundOnce
<1>5. BoundTo({"rx_analysis_export"}) = {"rx_fifo"}
  <2>1. <<"rx_analysis_export", "rx_fifo">> \in bindings
    BY DEF AllBindings
  <2>2. \A b \in bindings : b[1] = "rx_analysis_export" => b[2] = "rx_fifo"
    BY DEF AllBindings
  <2> QED
    BY <2>1, <2>2, BoundOnce
<1>6. BoundTo({"tx_analysis_export"}) = {"tx_fifo"}
  <2>1. <<"tx_analysis_export", "tx_fifo">> \in bindings
    BY DEF AllBindings
  <2>2. \A b \in bindings : b[1] = "tx_analysis_export" => b[2] = "tx_fifo"
    BY DEF AllBindings
  <2> QED
    BY <2>1, <2>2, BoundOnce
<1>7. ASSUME NEW agent \in Agents
      PROVE  /\ <<Driver[agent], Sequencer[agent]>> \in bindings
             /\ <<"sequencer", Sequencer[agent]>> \in bindings
  BY Names DEF AllBindings
<1>8. ASSUME NEW agent \in Agents
      PROVE  Sequencer[agent] \in BoundTo({"sequencer"})
  <2> DEFINE b == <<"sequencer", Sequencer[agent]>>
  <2>1. b \in bindings /\ b[1] \in {"sequencer"} /\ b[2] = Sequencer[agent]
    BY <1>7
  <2> HIDE DEF b
  <2> QED
    BY <2>1 DEF BoundTo
<1> QED
  BY <1>1, <1>2, <1>3, <1>4, <1>5, <1>6, <1>7, <1>8, Names DEF Receivers

(***************************************************************************)
(* The testbench is wired when the run phase begins: all components were   *)
(* built, each driver with its interface, and connected.                   *)
(***************************************************************************)
THEOREM TestbenchAlwaysWired == TestSpec => []Wired
<1>1. TestInit => PhaseInv
  BY Names
  DEF TestInit, PhasesInit, PhaseInv, PartsCreated, InterfacesKnown, BindingsMade,
      InOrder
<1>2. PhaseInv /\ [TestNext]_testVars => PhaseInv'
  <2> SUFFICES ASSUME PhaseInv, [TestNext]_testVars PROVE PhaseInv'
    OBVIOUS
  <2>1. CASE Phases
    BY <2>1, PhasesStep DEF Phases
  <2>2. CASE UNCHANGED phaseVars
    BY <2>2
    DEF phaseVars, PhaseInv, PartsCreated, InterfacesKnown, BindingsMade, InOrder
  <2>3. CASE EndRun \/ Extract \/ Report
    <3>1. /\ phase \in {"run", "extract", "report"}
          /\ phase' \in {"extract", "report", "stopped"}
          /\ vif' = vif /\ created' = created /\ built' = built
          /\ wired' = wired /\ bindings' = bindings
      BY <2>3 DEF EndRun, Extract, Report, InRun
    <3> QED
      BY <3>1
      DEF PhaseInv, PartsCreated, InterfacesKnown, BindingsMade, InOrder
  <2>4. CASE \/ StartSequence \/ Fork \/ StartRx \/ StartTx \/ ResetTraffic
             \/ Join \/ Compare \/ Clock \/ UNCHANGED testVars
    <3>1. UNCHANGED phaseVars
      BY <2>4
      DEF StartSequence, Fork, StartRx, StartTx, ResetTraffic, Join, Compare,
          Clock, testVars
    <3> QED
      BY <2>2, <3>1
  <2> QED
    BY <2>1, <2>3, <2>4 DEF TestNext
<1>3. PhaseInv => Wired
  <2> SUFFICES ASSUME PhaseInv, phase \notin {"build", "connect", "fatal"}
               PROVE  Wired
    BY DEF PhaseInv, InterfacesKnown, Wired
  <2>1. built = created /\ wired = created
    BY DEF PhaseInv, InOrder
  <2>2. "testbench" \in created /\ TestbenchParts \subseteq created
    BY <2>1 DEF PhaseInv, PartsCreated
  <2>3. Agents \subseteq created /\ "scoreboard" \in created
    BY <2>2 DEF TestbenchParts
  <2>4. \A agent \in Agents : Driver[agent] \in created
    BY <2>1, <2>3 DEF PhaseInv, PartsCreated, AgentParts
  <2>5. vif = Agents
    BY <2>1, <2>4 DEF PhaseInv, InterfacesKnown
  <2>6. bindings = AllBindings
    <3>1. /\ bindings \subseteq AllBindings
          /\ \A agent \in Agents : AgentBindings(agent) \subseteq bindings
          /\ ScoreboardBindings \subseteq bindings
          /\ TestbenchBindings \subseteq bindings
      BY <2>1, <2>2, <2>3 DEF PhaseInv, BindingsMade
    <3>2. /\ AgentBindings("rx_agent") \subseteq bindings
          /\ AgentBindings("tx_agent") \subseteq bindings
          /\ AgentBindings("reset_agent") \subseteq bindings
      BY <3>1, Names
    <3>3. AllBindings \subseteq bindings
      BY <3>1, <3>2, Bindings DEF AllBindings
    <3> QED
      BY <3>1, <3>3
  <2> QED
    BY <2>4, <2>5, <2>6, AllBound DEF Wired
<1> QED
  BY <1>1, <1>2, <1>3, PTL DEF TestSpec
=====
