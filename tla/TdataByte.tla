------------------------------ MODULE TdataByte ------------------------------
(***************************************************************************)
(* logic::axi4::stream::tdata_byte, a byte of a transfer and its type, and *)
(* the numbers in which the components write flags and bytes: a number is  *)
(* the natural number whose binary digits are the bits of a signal.        *)
(***************************************************************************)
EXTENDS Naturals, Sequences

TdataByte(data, type) == [type |-> type, data |-> data]

\* AMBA's names for the four values of the flags of a byte.
TypeOf(tkeep, tstrb) ==
    CASE tkeep /\ tstrb -> "DATA_BYTE"
      [] tkeep /\ ~tstrb -> "POSITION_BYTE"
      [] ~tkeep /\ tstrb -> "RESERVED"
      [] OTHER -> "NULL_BYTE"

Tkeep(byte) == byte.type \in {"DATA_BYTE", "POSITION_BYTE"}

Tstrb(byte) == byte.type \in {"DATA_BYTE", "RESERVED"}

\* Bytes are equal when data and type are, and are ordered by the data alone.
ByteEqual(byte, other) == byte.data = other.data /\ byte.type = other.type

\* The number whose digits, the lowest first, are the members of digits.
NumberOf(digits, base) ==
    LET Sum[i \in 0 .. Len(digits)] ==
            IF i = Len(digits) THEN 0 ELSE digits[i + 1] + base * Sum[i + 1]
    IN  Sum[0]

Flag(b) == IF b THEN 1 ELSE 0

=============================================================================
