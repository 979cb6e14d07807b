------------------------------- MODULE Varint -------------------------------
(***************************************************************************)
(* VarInts (rukkit-protocol, varint.rs): integers in groups of bits, low   *)
(* group first, one group to a byte.  VarLongs are the same in another     *)
(* width.                                                                  *)
(***************************************************************************)
EXTENDS Integers, Sequences

CONSTANTS
    Group,            \* bits of an integer in one byte (7 in the code)
    Base,             \* what they tell apart; a byte has one bit more, the flag
    MaxVarintBytes,   \* MAX_VARINT_BYTES
    Width             \* bits of the integers varints carry (32 in the code)

\* "A VarInt encodes at most 32 bits in 7-bit groups, so 5 bytes."
ASSUME VarintAssumption ==
    /\ Base = 2^Group
    /\ Group \in Nat \ {0} /\ MaxVarintBytes \in Nat \ {0} /\ Width \in Nat \ {0}
    /\ Width <= Group * MaxVarintBytes /\ Group * (MaxVarintBytes - 1) < Width

Byte == 0 .. 2 * Base - 1

Unsigned == 0 .. 2^Width - 1

Signed(v) == IF v < 2^(Width - 1) THEN v ELSE v - 2^Width

\* Mutated: the width is divided without its "- 1".
VarintLenTight(v) ==
    LET width == CHOOSE b \in 0 .. Width : v < 2^b /\ (b = 0 \/ v >= 2^(b - 1))
    IN  width \div Group + 1

\* varint_len: from the bits in use, with no encoding done.
VarintLen(v) ==
    LET width == CHOOSE b \in 0 .. Width : v < 2^b /\ (b = 0 \/ v >= 2^(b - 1))
    IN  (IF width = 0 THEN 0 ELSE width - 1) \div Group + 1

\* write_varint: low group first, every byte but the last flagged.
WriteVarint(v) ==
    LET groups[rest \in Unsigned] ==
            IF rest < Base THEN <<rest>> ELSE <<(rest % Base) + Base>> \o groups[rest \div Base]
    IN  groups[v]

\* What read_varint finds at the front of a buffer.
Incomplete == [kind |-> "eof", value |-> 0, used |-> 0]
TooLong == [kind |-> "too_long", value |-> 0, used |-> 0]

ReadVarint(bytes) ==
    LET limit == IF Len(bytes) < MaxVarintBytes THEN Len(bytes) ELSE MaxVarintBytes
        Ends(i) == bytes[i] < Base /\ \A j \in 1 .. i - 1 : bytes[j] >= Base
        value[i \in 0 .. limit] ==
            IF i = 0 THEN 0 ELSE value[i - 1] + (bytes[i] % Base) * 2^(Group * (i - 1))
    IN  IF \E i \in 1 .. limit : Ends(i)
        THEN LET last == CHOOSE i \in 1 .. limit : Ends(i)
             IN  [kind |-> "ok", value |-> Signed(value[last] % 2^Width), used |-> last]
        ELSE IF Len(bytes) < MaxVarintBytes THEN Incomplete ELSE TooLong
=============================================================================
