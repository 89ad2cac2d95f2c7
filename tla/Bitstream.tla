------------------------------ MODULE Bitstream ------------------------------
(***************************************************************************)
(* logic::bitstream, the vector of bits in which the transactions of the   *)
(* testbench carry tid, tdest and tuser: an object that owns a buffer of   *)
(* bytes on the heap, with the proxies and the iterators that read and     *)
(* write single bits.  A byte has BITS bits (8 in the code), std::uintmax_t*)
(* has WORD bits (64 in the code).                                         *)
(*                                                                         *)
(* The objects and the heap are functions whose domains are the objects    *)
(* that are alive and the addresses that are allocated.  A step is one     *)
(* call of a member function; `result' names a function that reads and the *)
(* bits it returned, and is empty after one that modifies the object.      *)
(***************************************************************************)
EXTENDS Naturals, Sequences

CONSTANTS Objects, Addresses, Null, BITS, WORD,
          MaxSize   \* bound on the sizes the clients ask for

ASSUME BitstreamAssumption ==
    /\ BITS \in Nat \ {0}
    /\ WORD \in Nat \ {0}
    /\ MaxSize \in Nat
    /\ Null \notin Addresses

VARIABLES objs,   \* of each living object: its members m_bits and m_size
          heap,   \* of each allocated address: the bits of its buffer
          result

vars == <<objs, heap, result>>

Live == DOMAIN objs

Sizes == 0 .. MaxSize

Least(m, n) == IF m < n THEN m ELSE n

\* Number of bytes that hold n bits, and a buffer for n bits.
Bytes(n) == (n + (BITS - 1)) \div BITS

Buffer(n) == 0 .. Bytes(n) * BITS - 1

Zero(n) == [i \in Buffer(n) |-> FALSE]

\* What a client may hand over: a number of WORD bits, and memory of MaxSize.
Numbers == {[i \in 0 .. WORD - 1 |-> (i + k) % 2 = 0] : k \in 0 .. 1}

Memory == {[i \in 0 .. MaxSize - 1 |-> (i + k) % 2 = 0] : k \in 0 .. 1}

Bits(o) == heap[objs[o].m_bits]

-----------------------------------------------------------------------------

\* A bitstream b may be built where no object is alive.
Built(o, b) == [p \in Live \cup {o} |-> IF p = o THEN b ELSE objs[p]]

Empty == [m_bits |-> Null, m_size |-> 0]

\* The heap h with a new buffer at a, and without the one at p (delete []).
New(h, a, buffer) ==
    [b \in DOMAIN h \cup {a} |-> IF b = a THEN buffer ELSE h[b]]

Delete(h, p) == [b \in DOMAIN h \ {p} |-> h[b]]

\* Copying n bits' bytes out of a buffer of a bitstream that may be empty.
Copied(o, n, i) ==
    i \in Buffer(n) /\ (objs[o].m_bits # Null) /\ Bits(o)[i]

Construct(o) ==
    /\ objs' = Built(o, Empty)
    /\ result' = <<>>
    /\ UNCHANGED heap

ConstructSized(o, n) ==
    \E a \in Addresses \ DOMAIN heap :
        /\ objs' = Built(o, [m_bits |-> a, m_size |-> n])
        /\ heap' = New(heap, a, Zero(n))
        /\ result' = <<>>

\* Mutant: the source keeps its pointer.
MoveConstructShared(o, other) ==
    /\ objs' = Built(o, objs[other])
    /\ result' = <<>>
    /\ UNCHANGED heap

MoveConstruct(o, other) ==
    /\ objs' = [Built(o, objs[other]) EXCEPT ![other] = Empty]
    /\ result' = <<>>
    /\ UNCHANGED heap

CopyConstruct(o, other) ==
    \E a \in Addresses \ DOMAIN heap :
        LET n == objs[other].m_size IN
        /\ objs' = Built(o, [m_bits |-> a, m_size |-> n])
        /\ heap' = New(heap, a, [i \in Buffer(n) |-> Copied(other, n, i)])
        /\ result' = <<>>

Destroy(o) ==
    /\ objs' = [p \in Live \ {o} |-> objs[p]]
    /\ heap' = Delete(heap, objs[o].m_bits)
    /\ result' = <<>>

\* An object assigned to itself is left alone.
MoveAssign(o, other) ==
    /\ IF o = other
         THEN UNCHANGED <<objs, heap>>
         ELSE /\ heap' = Delete(heap, objs[o].m_bits)
              /\ objs' = [objs EXCEPT ![o] = objs[other], ![other] = Empty]
    /\ result' = <<>>

CopyAssign(o, other) ==
    /\ \/ o = other /\ UNCHANGED <<objs, heap>>
       \/ /\ o # other
          /\ \E a \in Addresses \ DOMAIN heap :
                LET n == objs[other].m_size IN
                /\ heap' = New(Delete(heap, objs[o].m_bits), a,
                               [i \in Buffer(n) |-> Copied(other, n, i)])
                /\ objs' = [objs EXCEPT ![o] = [m_bits |-> a, m_size |-> n]]
    /\ result' = <<>>

\* The new buffer is zeroed and then gets the whole bytes of the old bits:
\* the bits of the last old byte beyond m_size come along.
Resize(o, val) ==
    LET n == objs[o].m_size IN
    /\ \/ n = val /\ UNCHANGED <<objs, heap>>
       \/ /\ n # val
          /\ \E a \in Addresses \ DOMAIN heap :
                /\ heap' = New(Delete(heap, objs[o].m_bits), a,
                               [i \in Buffer(val) |-> Copied(o, Least(n, val), i)])
                /\ objs' = [objs EXCEPT ![o] = [m_bits |-> a, m_size |-> val]]
    /\ result' = <<>>

-----------------------------------------------------------------------------

\* The bits of the buffer of o become bits; an empty object has none.
Write(o, bits) ==
    /\ heap' = IF objs[o].m_bits = Null THEN heap
               ELSE [heap EXCEPT ![objs[o].m_bits] = bits]
    /\ result' = <<>>
    /\ UNCHANGED objs

\* The whole buffer is cleared, the bits beyond m_size too.
Clear(o) == Write(o, Zero(objs[o].m_size))

SetBit(o, i, value) ==
    /\ i < objs[o].m_size
    /\ Write(o, [Bits(o) EXCEPT ![i] = value])

\* Mutant: the last byte is not masked.
AssignNumberUnmasked(o, val, bits) ==
    LET n == Least(objs[o].m_size, bits) IN
    Write(o, [i \in Buffer(objs[o].m_size) |->
                 IF i \in Buffer(n) THEN i < WORD /\ val[i] ELSE Bits(o)[i]])

\* A number: whole bytes, then the masked low bits of the last byte.
AssignNumber(o, val, bits) ==
    LET n == Least(objs[o].m_size, bits) IN
    Write(o, [i \in Buffer(objs[o].m_size) |->
                 IF i < n THEN i < WORD /\ val[i] ELSE Bits(o)[i]])

\* Memory: whole bytes; the masked bits of a last, incomplete byte are those
\* of byte 0, in the source and in the destination.
Moved(n, to, from, i) ==
    IF i < (n \div BITS) * BITS \/ i < n % BITS THEN from[i] ELSE to[i]

AssignMemory(o, src, bits) ==
    LET n == Least(objs[o].m_size, bits) IN
    Write(o, [i \in Buffer(objs[o].m_size) |-> Moved(n, Bits(o), src, i)])

AssignBool(o, val) ==
    IF objs[o].m_size > 0
      THEN Write(o, [Bits(o) EXCEPT ![0] = val])
      ELSE result' = <<>> /\ UNCHANGED <<objs, heap>>

-----------------------------------------------------------------------------

Return(read, bits) == result' = <<read, bits>> /\ UNCHANGED <<objs, heap>>

Value(o, bits) ==
    LET n == Least(objs[o].m_size, bits)
    IN  Return("value", [j \in 1 .. WORD |-> j <= n /\ Bits(o)[j - 1]])

Copy(o, dst, bits) ==
    LET n == Least(objs[o].m_size, bits)
        to == [i \in 0 .. MaxSize - 1 |-> Moved(n, dst, Bits(o), i)]
    IN  Return("copy", [j \in 1 .. MaxSize |-> to[j - 1]])

ToBool(o) == Return("bool", <<objs[o].m_size > 0 /\ Bits(o)[0]>>)

\* The bytes of both, and zeros in the bytes only the longer one has.
Equal(o, other) ==
    LET common == Buffer(Least(objs[o].m_size, objs[other].m_size))
        longer == IF objs[o].m_size < objs[other].m_size THEN other ELSE o
    IN  Return("equal", <<(\A i \in common : Bits(o)[i] = Bits(other)[i])
                 /\ (\A i \in Buffer(objs[longer].m_size) \ common :
                        ~Bits(longer)[i])>>)

\* "TODO: Implement <"
Less(o, other) == Return("less", <<FALSE>>)

\* The bit an iterator refers to: an index below 0 refers to bit 0.
At(o, index) == Bits(o)[IF index > 0 THEN index ELSE 0]

\* for (auto bit : o), from begin() to end().
Forward(o) == Return("forward", [j \in 1 .. objs[o].m_size |-> At(o, j - 1)])

\* rbegin() to rend(): std::reverse_iterator refers to the bit before the one
\* it was given, which is m_size - 1 for rbegin() and -1 for rend().
Backward(o) ==
    Return("backward", [j \in 1 .. objs[o].m_size |->
               At(o, IF objs[o].m_size < j + 1 THEN 0
                                               ELSE objs[o].m_size - 1 - j)])

-----------------------------------------------------------------------------

Init ==
    /\ objs = [o \in {} |-> Empty]
    /\ heap = [a \in {} |-> Zero(0)]
    /\ result = <<>>

Lifetime ==
    \/ \E o \in Objects \ Live :
          \/ Construct(o)
          \/ \E n \in Sizes : ConstructSized(o, n)
          \/ \E other \in Live : MoveConstruct(o, other)
          \/ \E other \in Live : CopyConstruct(o, other)
    \/ \E o \in Live : Destroy(o)

Modify ==
    \E o \in Live :
        \/ \E other \in Live : MoveAssign(o, other)
        \/ \E other \in Live : CopyAssign(o, other)
        \/ \E n \in Sizes : Resize(o, n)
        \/ Clear(o)
        \/ \E i \in Sizes, value \in BOOLEAN : SetBit(o, i, value)
        \/ \E val \in Numbers, n \in Sizes : AssignNumber(o, val, n)
        \/ \E src \in Memory, n \in Sizes : AssignMemory(o, src, n)
        \/ \E val \in BOOLEAN : AssignBool(o, val)

Read ==
    \E o \in Live :
        \/ \E n \in 0 .. WORD : Value(o, n)
        \/ \E dst \in Memory, n \in Sizes : Copy(o, dst, n)
        \/ ToBool(o)
        \/ \E other \in Live : Equal(o, other)
        \/ \E other \in Live : Less(o, other)
        \/ Forward(o)
        \/ Backward(o)

Next == Lifetime \/ Modify \/ Read

Spec == Init /\ [][Next]_vars

-----------------------------------------------------------------------------

TypeOK ==
    /\ objs \in UNION {[S -> [m_bits : Addresses \cup {Null}, m_size : Nat]] :
                           S \in SUBSET Objects}
    /\ DOMAIN heap \subseteq Addresses
    /\ \A a \in DOMAIN heap : \E n \in Nat : heap[a] \in [Buffer(n) -> BOOLEAN]

(***************************************************************************)
(* Ownership: every buffer on the heap belongs to exactly one object, and  *)
(* every object has a buffer of its size, unless it has no bits.  So no    *)
(* buffer is lost, freed twice, shared or used after its release, whatever *)
(* the constructors, assignments and resize() do with m_bits.              *)
(***************************************************************************)
OwnedOnce ==
    /\ \A a \in DOMAIN heap : \E o \in Live :
          \A p \in Live : objs[p].m_bits = a <=> p = o
    /\ \A o \in Live :
          IF objs[o].m_bits = Null
            THEN objs[o].m_size = 0
            ELSE /\ objs[o].m_bits \in DOMAIN heap
                 /\ DOMAIN Bits(o) = Buffer(objs[o].m_size)

(***************************************************************************)
(* Refinement: a bit stream is a value.  A copy is independent of its      *)
(* source, and what is read is what was written (BitVector says where the  *)
(* code promises less).                                                    *)
(***************************************************************************)
Tidy(o) == \A i \in Buffer(objs[o].m_size) \ (0 .. objs[o].m_size - 1) :
               ~Bits(o)[i]

BitValue(o) ==
    [bits |-> [j \in 1 .. objs[o].m_size |-> Bits(o)[j - 1]],
     tidy |-> Tidy(o)]

Values == INSTANCE BitVector
          WITH vec <- [o \in Live |-> BitValue(o)], result <- result

RefinesValues == Values!Spec

=============================================================================
