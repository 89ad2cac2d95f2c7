------------------------------ MODULE BusSignal ------------------------------
(***************************************************************************)
(* A multi-bit signal of logic::axi4::stream::bus_if and the functions     *)
(* with which drivers and monitors write and read it: tid, tdest and tuser *)
(* are written and read as a whole, tkeep, tstrb and tdata one lane at a   *)
(* time.  The C++ type behind a signal depends on its width.               *)
(*                                                                         *)
(* Several lanes are written in one delta cycle, and an sc_signal shows    *)
(* only after the delta cycle what was written to it; the interface keeps  *)
(* the lanes of a signal in a member (m_tkeep, ...) for that reason.       *)
(***************************************************************************)
EXTENDS Naturals, Sequences

CONSTANTS UNSIGNED,   \* width of unsigned int: 32
          MaxWidth,   \* bound on the widths
          Data        \* the values of a byte lane

\* What the code takes for granted of its parameters.
Parameters == UNSIGNED \in Nat \ {0} /\ MaxWidth \in Nat

VARIABLES access,    \* "whole", "flags" or "bytes"
          width,     \* number of bits or lanes: a template parameter
          member,    \* m_tdata, m_tkeep or m_tstrb
          next,      \* the value written to the signal
          signal,    \* the value the signal shows
          written,   \* of each bit or lane: the value last asked for
          result     \* what was read, or nothing

vars == <<access, width, member, next, signal, written, result>>

Lanes == 0 .. width - 1

\* utils::bits<N>::type
Type == CASE width = 1 -> "bool"
          [] width > 1 /\ width <= UNSIGNED -> "uint32_t"
          [] width > UNSIGNED /\ width <= 2 * UNSIGNED -> "uint64_t"
          [] OTHER -> "sc_bv"

\* The mask is 1u << offset: shifting an unsigned int by its width or more is
\* undefined, so any bit may come back.
GetBool(value, i) ==
    IF Type = "uint64_t" /\ i >= UNSIGNED THEN BOOLEAN ELSE {value[i]}

Values == IF access = "bytes" THEN Data ELSE BOOLEAN

Init ==
    /\ access \in {"whole", "flags", "bytes"}
    /\ width \in 1 .. MaxWidth
    /\ signal = [i \in Lanes |-> IF access = "bytes" THEN 0 ELSE FALSE]
    /\ member = signal
    /\ next = signal
    /\ written = signal
    /\ result = <<>>

\* set_tid(), set_tdest(), set_tuser(): missing bits are zero, bits that do
\* not fit are dropped.
SetWhole(bits) ==
    /\ access = "whole"
    /\ next' = [i \in Lanes |-> i < Len(bits) /\ bits[i + 1]]
    /\ written' = [i \in Lanes |-> i < Len(bits) /\ bits[i + 1]]
    /\ result' = <<>>
    /\ UNCHANGED <<access, width, member, signal>>

\* Mutant: the other lanes are taken from the signal, not from the member.
SetLaneOfSignal(i, value) ==
    /\ access # "whole"
    /\ member' = [signal EXCEPT ![i] = value]
    /\ next' = member'
    /\ written' = [written EXCEPT ![i] = value]
    /\ result' = <<>>
    /\ UNCHANGED <<access, width, signal>>

\* set_tkeep(), set_tstrb(), set_tdata()
SetLane(i, value) ==
    /\ access # "whole"
    /\ member' = [member EXCEPT ![i] = value]
    /\ next' = member'
    /\ written' = [written EXCEPT ![i] = value]
    /\ result' = <<>>
    /\ UNCHANGED <<access, width, signal>>

\* The end of the delta cycle.
Update ==
    /\ signal' = next
    /\ result' = <<>>
    /\ UNCHANGED <<access, width, member, next, written>>

\* Reading all bits or lanes; a byte lane is lhs >> offset, for every type.
Get ==
    /\ result' \in {r \in [1 .. width -> Values] :
                       \A i \in Lanes :
                           r[i + 1] \in IF access = "bytes" THEN {signal[i]}
                                        ELSE GetBool(signal, i)}
    /\ UNCHANGED <<access, width, member, next, signal, written>>

Next ==
    \/ \E n \in 0 .. MaxWidth, b \in BOOLEAN :
          SetWhole([i \in 1 .. n |-> b = (i % 2 = 0)])
    \/ \E i \in Lanes, value \in Values : SetLane(i, value)
    \/ Update
    \/ Get

Spec == Init /\ [][Next]_vars

-----------------------------------------------------------------------------

(***************************************************************************)
(* Once a delta cycle has passed, a reader gets of every bit and lane the  *)
(* value last written to it: writes of several lanes in one delta cycle    *)
(* are not lost, and bits of an earlier value do not survive.  Flags and   *)
(* ids that need a 64-bit integer are exempt from UNSIGNED bits on, where  *)
(* utils::get_bool() shifts too far.                                       *)
(***************************************************************************)
ReadsLastWritten ==
    signal = next /\ result # <<>> =>
        \A i \in Lanes :
            \/ result[i + 1] = written[i]
            \/ access # "bytes" /\ Type = "uint64_t" /\ i >= UNSIGNED

=============================================================================
