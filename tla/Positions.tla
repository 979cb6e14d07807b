------------------------------ MODULE Positions ------------------------------
(***************************************************************************)
(* Positions that are packed into one long (rukkit-protocol, types.rs).    *)
(* A long is the number its bits make without a sign, and a field of b     *)
(* bits is given by the 2^b values it has, so that the shifts and masks of *)
(* the code are products, quotients and remainders.                        *)
(***************************************************************************)
EXTENDS Integers

CONSTANTS
    XZSize,    \* values of a block's x and of its z (2^26 in the code)
    YSize,     \* values of its y (2^12)
    HalfSize   \* values of a chunk's x and of its z (2^32)

ASSUME PositionsAssumption ==
    \A size \in {XZSize, YSize, HalfSize} : size \in Nat \ {0} /\ size % 2 = 0

\* What a field of such a size can hold, in two's complement.
SignedRange(size) == -(size \div 2) .. size \div 2 - 1

\* The low bits of an integer, and the integer that has them: `(p << a) >> b`.
LowBits(v, size) == v % size

SignExtended(v, size) == IF v < size \div 2 THEN v ELSE v - size

\* The code's three coordinates are integers of 32 bits, more than a field holds.
BlockPos == [x : Int, y : Int, z : Int]

\* The positions there is room for.
PackedBlock == [x : SignedRange(XZSize), y : SignedRange(YSize), z : SignedRange(XZSize)]

\* BlockPos::encode: x in the highest bits, z, and y in the lowest.
EncodeBlock(p) ==
    LowBits(p.x, XZSize) * (XZSize * YSize) + LowBits(p.z, XZSize) * YSize + LowBits(p.y, YSize)

\* BlockPos::decode.
DecodeBlock(packed) ==
    [x |-> SignExtended(packed \div (XZSize * YSize), XZSize),
     y |-> SignExtended(LowBits(packed, YSize), YSize),
     z |-> SignExtended(LowBits(packed \div YSize, XZSize), XZSize)]

ChunkPos == [x : SignedRange(HalfSize), z : SignedRange(HalfSize)]

\* ChunkPos::to_long: z in the upper half, x in the lower.
EncodeChunk(c) == LowBits(c.z, HalfSize) * HalfSize + LowBits(c.x, HalfSize)

\* ChunkPos::from_long.
DecodeChunk(packed) ==
    [x |-> SignExtended(LowBits(packed, HalfSize), HalfSize),
     z |-> SignExtended(packed \div HalfSize, HalfSize)]
=============================================================================
