-------------------------- MODULE PacketReader_proofs --------------------------
(***************************************************************************)
(* Proofs about the packet reader and its fields.  Packing a position loses*)
(* nothing, for fields of every size: both ways round, and below zero as   *)
(* well as above.  For every set of layouts, limits and frames, what the   *)
(* reader keeps and reserves is bounded by the frame, and a frame it       *)
(* accepts is written again as it was read, but for the leniencies that    *)
(* NothingUnnoticed names.                                                 *)
(***************************************************************************)
EXTENDS PacketReader, Arithmetic

-----------------------------------------------------------------------------
(* Positions.                                                              *)

\* Sign extension undoes taking the low bits, of what a field can hold.
LEMMA SignedThereAndBack ==
    ASSUME NEW size \in Nat \ {0}, size % 2 = 0, NEW v \in SignedRange(size)
    PROVE  LowBits(v, size) \in 0 .. size - 1 /\ SignExtended(LowBits(v, size), size) = v
<1>1. PICK half \in Nat : size = 2 * half /\ size \div 2 = half
  BY SMT
<1>2. v \in Int /\ -half <= v /\ v <= half - 1
  BY <1>1 DEF SignedRange
<1>3. CASE v >= 0
  <2>1. (0 * size + v) % size = v
    BY <1>1, <1>2, <1>3, DivMod
  <2>2. LowBits(v, size) = v
    BY <1>2, <2>1 DEF LowBits
  <2> QED
    BY <1>1, <1>2, <1>3, <2>2 DEF SignExtended
<1>4. CASE v < 0
  <2>. DEFINE low == v + size
  <2>0. low \in 0 .. size - 1 /\ low >= half /\ v = (-1) * size + low
    BY <1>1, <1>2, <1>4
  <2>. HIDE DEF low
  <2>1. ((-1) * size + low) % size = low
    BY <2>0, DivMod
  <2>2. LowBits(v, size) = low
    BY <2>0, <2>1 DEF LowBits
  <2> QED
    BY <1>1, <1>2, <2>0, <2>2 DEF SignExtended
<1> QED
  BY <1>2, <1>3, <1>4

\* And the other way round.
LEMMA BitsThereAndBack ==
    ASSUME NEW size \in Nat \ {0}, size % 2 = 0, NEW b \in 0 .. size - 1
    PROVE  SignExtended(b, size) \in SignedRange(size) /\ LowBits(SignExtended(b, size), size) = b
<1>1. PICK half \in Nat : size = 2 * half /\ size \div 2 = half
  BY SMT
<1>2. (0 * size + b) % size = b /\ ((-1) * size + b) % size = b
  BY DivMod
<1>3. b % size = b /\ (b - size) % size = b
  BY <1>2
<1> QED
  BY <1>1, <1>3 DEF SignExtended, SignedRange, LowBits

\* Three digits, and the number they make.
LEMMA Digits ==
    ASSUME NEW x \in 0 .. XZSize - 1, NEW z \in 0 .. XZSize - 1, NEW y \in 0 .. YSize - 1,
           NEW n, n = x * (XZSize * YSize) + z * YSize + y
    PROVE  /\ n \div (XZSize * YSize) = x
           /\ (n \div YSize) % XZSize = z
           /\ n % YSize = y
<1>0. XZSize \in Nat \ {0} /\ YSize \in Nat \ {0}
  BY PositionsAssumption
<1>. DEFINE high == x * XZSize + z
            low == z * YSize + y
<1>1. high \in Int /\ n = high * YSize + y
  BY <1>0, SMT
<1>2. n \div YSize = high /\ n % YSize = y
  <2>. HIDE DEF high
  <2> QED
    BY <1>0, <1>1, DivMod
<1>3. high % XZSize = z
  BY <1>0, DivMod
<1>4. low \in 0 .. XZSize * YSize - 1 /\ XZSize * YSize \in Nat \ {0}
  <2>1. z * YSize <= (XZSize - 1) * YSize
    BY <1>0, SMT
  <2>2. (XZSize - 1) * YSize = XZSize * YSize - YSize
    BY <1>0, SMT
  <2>3. XZSize * YSize \in Nat /\ XZSize * YSize > 0 /\ z * YSize \in Nat
    BY <1>0, SMT
  <2> QED
    BY <1>0, <2>1, <2>2, <2>3, SMT
<1>5. n = x * (XZSize * YSize) + low
  BY <1>0, SMT
<1>6. n \div (XZSize * YSize) = x
  <2>. DEFINE d == XZSize * YSize
  <2>1. d \in Nat \ {0} /\ low \in 0 .. d - 1 /\ n = x * d + low /\ x \in Int
    BY <1>4, <1>5
  <2>. HIDE DEF d, low
  <2>2. (x * d + low) \div d = x
    BY <2>1, DivMod, Zenon
  <2>3. n \div d = x
    BY <2>1, <2>2, Zenon
  <2> QED
    BY <2>3 DEF d
<1>. HIDE DEF high
<1> QED
  BY <1>2, <1>3, <1>6

\* types.rs:5, BlockPos::encode and BlockPos::decode: a position comes back from the
\* long it is packed into exactly if each coordinate fits the bits it has there;
\* beyond them encode takes the low bits and says nothing.
THEOREM BlocksRoundTrip ==
    \A p \in BlockPos : DecodeBlock(EncodeBlock(p)) = p <=> p \in PackedBlock
<1> SUFFICES ASSUME NEW p \in BlockPos
             PROVE  DecodeBlock(EncodeBlock(p)) = p <=> p \in PackedBlock
  OBVIOUS
<1>. DEFINE x == LowBits(p.x, XZSize)
            y == LowBits(p.y, YSize)
            z == LowBits(p.z, XZSize)
<1>1. /\ XZSize \in Nat \ {0} /\ XZSize % 2 = 0 /\ YSize \in Nat \ {0} /\ YSize % 2 = 0
      /\ p.x \in Int /\ p.y \in Int /\ p.z \in Int /\ p = [x |-> p.x, y |-> p.y, z |-> p.z]
  BY PositionsAssumption DEF BlockPos
<1>2. x \in 0 .. XZSize - 1 /\ y \in 0 .. YSize - 1 /\ z \in 0 .. XZSize - 1
  BY <1>1, SMT DEF LowBits
<1>3. DecodeBlock(EncodeBlock(p)) = [x |-> SignExtended(x, XZSize), y |-> SignExtended(y, YSize),
                                     z |-> SignExtended(z, XZSize)]
  <2>. DEFINE n == EncodeBlock(p)
  <2>1. n = x * (XZSize * YSize) + z * YSize + y
    BY DEF EncodeBlock
  <2>. HIDE DEF x, y, z, n
  <2>2. n \div (XZSize * YSize) = x /\ (n \div YSize) % XZSize = z /\ n % YSize = y
    BY <1>2, <2>1, Digits
  <2>3. DecodeBlock(n) = [x |-> SignExtended(x, XZSize), y |-> SignExtended(y, YSize),
                          z |-> SignExtended(z, XZSize)]
    BY <2>2 DEF DecodeBlock, LowBits
  <2> QED
    BY <2>3 DEF n
<1>4. ASSUME p \in PackedBlock PROVE DecodeBlock(EncodeBlock(p)) = p
  <2>1. p.x \in SignedRange(XZSize) /\ p.y \in SignedRange(YSize) /\ p.z \in SignedRange(XZSize)
    BY <1>4 DEF PackedBlock
  <2>2. SignExtended(x, XZSize) = p.x /\ SignExtended(y, YSize) = p.y /\ SignExtended(z, XZSize) = p.z
    BY <1>1, <2>1, SignedThereAndBack
  <2> QED
    BY <1>1, <1>3, <2>2
<1>5. ASSUME DecodeBlock(EncodeBlock(p)) = p PROVE p \in PackedBlock
  <2>1. /\ SignExtended(x, XZSize) \in SignedRange(XZSize)
        /\ SignExtended(y, YSize) \in SignedRange(YSize)
        /\ SignExtended(z, XZSize) \in SignedRange(XZSize)
    BY <1>1, <1>2, BitsThereAndBack
  <2>. HIDE DEF x, y, z
  <2> QED
    BY <1>3, <1>5, <2>1 DEF PackedBlock
<1> QED
  BY <1>4, <1>5

\* And every long is the packed form of a position, its own: reading one and
\* writing it again gives the long that was read.
THEOREM LongsRoundTrip ==
    \A n \in 0 .. XZSize * (XZSize * YSize) - 1 :
        DecodeBlock(n) \in PackedBlock /\ EncodeBlock(DecodeBlock(n)) = n
<1> SUFFICES ASSUME NEW n \in 0 .. XZSize * (XZSize * YSize) - 1
             PROVE  DecodeBlock(n) \in PackedBlock /\ EncodeBlock(DecodeBlock(n)) = n
  OBVIOUS
<1>1. XZSize \in Nat \ {0} /\ XZSize % 2 = 0 /\ YSize \in Nat \ {0} /\ YSize % 2 = 0
  BY PositionsAssumption
<1>. DEFINE m == n \div YSize
            y == n % YSize
            x == m \div XZSize
            z == m % XZSize
            d == XZSize * YSize
<1>2. n \in Nat /\ d \in Nat \ {0} /\ n < XZSize * d
  BY <1>1, SMT
<1>3. m \in Nat /\ y \in 0 .. YSize - 1 /\ n = YSize * m + y
  BY <1>1, <1>2, SMT
<1>. HIDE DEF m
<1>4. x \in Nat /\ z \in 0 .. XZSize - 1 /\ m = XZSize * x + z
  BY <1>1, <1>3, SMT
<1>. HIDE DEF x, y, z
<1>5. n = x * d + z * YSize + y
  BY <1>1, <1>3, <1>4, SMT
<1>6. x \in 0 .. XZSize - 1
  <2> SUFFICES ASSUME x >= XZSize PROVE FALSE
    BY <1>1, <1>4
  <2>. HIDE DEF d
  <2>1. x * d >= XZSize * d
    BY <1>1, <1>2, <1>4, SMT
  <2>2. z * YSize >= 0
    BY <1>1, <1>4, SMT
  <2>3. x * d \in Int /\ z * YSize \in Int /\ XZSize * d \in Int
    BY <1>1, <1>2, <1>4, SMT
  <2> QED
    BY <1>2, <1>3, <1>5, <2>1, <2>2, <2>3
<1>7. n \div (XZSize * YSize) = x /\ (n \div YSize) % XZSize = z /\ n % YSize = y
  BY <1>3, <1>4, <1>5, <1>6, Digits
<1>8. DecodeBlock(n) = [x |-> SignExtended(x, XZSize), y |-> SignExtended(y, YSize),
                        z |-> SignExtended(z, XZSize)]
  BY <1>7 DEF DecodeBlock, LowBits
<1>9. /\ SignExtended(x, XZSize) \in SignedRange(XZSize)
      /\ SignExtended(y, YSize) \in SignedRange(YSize)
      /\ SignExtended(z, XZSize) \in SignedRange(XZSize)
      /\ LowBits(SignExtended(x, XZSize), XZSize) = x
      /\ LowBits(SignExtended(y, YSize), YSize) = y
      /\ LowBits(SignExtended(z, XZSize), XZSize) = z
  BY <1>1, <1>3, <1>4, <1>6, BitsThereAndBack
<1> QED
  BY <1>5, <1>8, <1>9 DEF PackedBlock, EncodeBlock

\* types.rs:69, ChunkPos::to_long is "the form used as a hash key for chunk maps": no
\* two chunks share a key, since from_long finds the chunk again.
THEOREM ChunksRoundTrip == \A c \in ChunkPos : DecodeChunk(EncodeChunk(c)) = c
<1> SUFFICES ASSUME NEW c \in ChunkPos PROVE DecodeChunk(EncodeChunk(c)) = c
  OBVIOUS
<1>. DEFINE x == LowBits(c.x, HalfSize)
            z == LowBits(c.z, HalfSize)
<1>1. /\ HalfSize \in Nat \ {0} /\ HalfSize % 2 = 0
      /\ c.x \in SignedRange(HalfSize) /\ c.z \in SignedRange(HalfSize) /\ c = [x |-> c.x, z |-> c.z]
  BY PositionsAssumption DEF ChunkPos
<1>2. /\ x \in 0 .. HalfSize - 1 /\ SignExtended(x, HalfSize) = c.x
      /\ z \in 0 .. HalfSize - 1 /\ SignExtended(z, HalfSize) = c.z
  BY <1>1, SignedThereAndBack
<1>3. EncodeChunk(c) = z * HalfSize + x
  BY DEF EncodeChunk
<1>. HIDE DEF x, z
<1>4. (z * HalfSize + x) \div HalfSize = z /\ (z * HalfSize + x) % HalfSize = x
  BY <1>1, <1>2, DivMod
<1>5. DecodeChunk(EncodeChunk(c)) = [x |-> SignExtended(x, HalfSize), z |-> SignExtended(z, HalfSize)]
  BY <1>3, <1>4 DEF DecodeChunk, LowBits
<1> QED
  BY <1>1, <1>2, <1>5

-----------------------------------------------------------------------------
(* The reader.                                                             *)

\* What reading a field may say of its length: it is within the bytes on hand.
Fits(r, bytes) == r.ok => r.used \in 0 .. Len(bytes)

LEMMA IntFits ==
    ASSUME NEW bytes \in Seq(Byte)
    PROVE  Fits(ReadInt(bytes), bytes)
<1> DEFINE limit == IF Len(bytes) < MaxVarintBytes THEN Len(bytes) ELSE MaxVarintBytes
           Ends(i) == bytes[i] < Base /\ \A j \in 1 .. i - 1 : bytes[j] >= Base
           last == CHOOSE i \in 1 .. limit : Ends(i)
<1>1. Len(bytes) \in Nat /\ limit \in Nat /\ limit <= Len(bytes)
  BY VarintAssumption
<1>2. CASE \E i \in 1 .. limit : Ends(i)
  <2>1. last \in 1 .. limit
    BY <1>2
  <2>2. ReadVarint(bytes).used = last
    BY <1>2 DEF ReadVarint
  <2>3. ReadInt(bytes).ok => ReadInt(bytes).used = last
    BY <2>2 DEF ReadInt, Taken, Refused
  <2> HIDE DEF last, limit
  <2> QED
    BY <1>1, <2>1, <2>3 DEF Fits
<1>3. CASE ~ \E i \in 1 .. limit : Ends(i)
  <2>1. ReadVarint(bytes) \in {Incomplete, TooLong}
    BY <1>3 DEF ReadVarint
  <2> QED
    BY <2>1 DEF ReadInt, Incomplete, TooLong, Refused, Fits
<1> QED
  BY <1>2, <1>3

LEMMA LengthFits ==
    ASSUME NEW bytes \in Seq(Byte), NEW max
    PROVE  /\ Fits(ReadLength(bytes, max), bytes)
           /\ ReadLength(bytes, max).ok => ReadLength(bytes, max).value \in Nat
<1>1. CASE ReadInt(bytes).ok /\ ReadInt(bytes).value \in Nat /\ ReadInt(bytes).value <= max
  <2>1. ReadLength(bytes, max) = ReadInt(bytes)
    BY <1>1 DEF ReadLength
  <2> QED
    BY <1>1, <2>1, IntFits
<1>2. CASE ~(ReadInt(bytes).ok /\ ReadInt(bytes).value \in Nat /\ ReadInt(bytes).value <= max)
  BY <1>2 DEF ReadLength, Refused, Fits
<1> QED
  BY <1>1, <1>2

LEMMA ByteArrayFits ==
    ASSUME NEW bytes \in Seq(Byte), NEW max
    PROVE  Fits(ReadByteArray(bytes, max), bytes)
<1> DEFINE n == ReadLength(bytes, max)
<1>1. Fits(n, bytes) /\ (n.ok => n.value \in Nat) /\ Len(bytes) \in Nat
  BY LengthFits
<1>2. CASE n.ok /\ n.used + n.value <= Len(bytes)
  <2>1. ReadByteArray(bytes, max).used = n.used + n.value
    BY <1>2 DEF ReadByteArray, Taken
  <2> HIDE DEF n
  <2> QED
    BY <1>1, <1>2, <2>1 DEF Fits
<1>3. CASE ~(n.ok /\ n.used + n.value <= Len(bytes))
  BY <1>3 DEF ReadByteArray, Refused, Fits
<1> QED
  BY <1>2, <1>3

LEMMA FixedFits ==
    ASSUME NEW bytes \in Seq(Byte), NEW n
    PROVE  Fits(ReadFixed(bytes, n), bytes)
BY DEF ReadFixed, Taken, Refused, Fits

\* Whatever a field is, reading it takes no more than there is.
LEMMA FieldFits ==
    ASSUME NEW bytes \in Seq(Byte), NbtFits(bytes), NEW type
    PROVE  /\ Fits(ReadField(type, bytes), bytes)
           /\ type.kind = "nbt" => ReadField(type, bytes).capacity \in 0 .. Len(bytes)
<1>0. Len(bytes) \in Nat /\ (bytes # <<>> => Len(bytes) >= 1)
  OBVIOUS
<1>1. Fits(ReadBool(bytes), bytes)
  BY <1>0 DEF ReadBool, Taken, Refused, Fits
<1>2. \A ids : Fits(ReadVarEnum(bytes, ids), bytes)
  BY IntFits DEF ReadVarEnum, Refused, Fits
<1>3. \A ids : Fits(ReadByteEnum(bytes, ids), bytes)
  BY <1>0 DEF ReadByteEnum, Taken, Refused, Fits
<1>4. \A max : Fits(ReadText(bytes, max), bytes)
  <2> TAKE max
  <2> DEFINE r == ReadByteArray(bytes, 3 * max)
  <2>1. Fits(r, bytes)
    BY ByteArrayFits
  <2>2. CASE r.ok /\ \E t \in TextsOf(r.value) : Len(t) <= max
    <3>1. ReadText(bytes, max).used = r.used
      BY <2>2 DEF ReadText, Taken
    <3> QED
      BY <2>1, <2>2, <3>1 DEF Fits
  <2>3. CASE ~(r.ok /\ \E t \in TextsOf(r.value) : Len(t) <= max)
    BY <2>3 DEF ReadText, Refused, Fits
  <2> QED
    BY <2>2, <2>3
<1>5. Fits(ReadPosition(bytes), bytes)
  <2> DEFINE r == ReadFixed(bytes, PositionBytes)
  <2>1. Fits(r, bytes)
    BY FixedFits
  <2>2. ReadPosition(bytes).ok => r.ok /\ ReadPosition(bytes).used = r.used
    BY DEF ReadPosition, Taken, Refused
  <2> QED
    BY <2>1, <2>2 DEF Fits
<1>6. Fits(ReadNbt(bytes), bytes) /\ ReadNbt(bytes).capacity \in 0 .. Len(bytes)
  BY DEF NbtFits, Fits
<1>7. Fits(Taken(bytes, Len(bytes)), bytes)
  BY <1>0 DEF Taken, Fits
<1>8. \/ ReadField(type, bytes) \in {ReadBool(bytes), ReadInt(bytes), ReadPosition(bytes),
                                   ReadNbt(bytes), Taken(bytes, Len(bytes))}
      \/ ReadField(type, bytes) = ReadFixed(bytes, type.limit)
      \/ ReadField(type, bytes) = ReadVarEnum(bytes, type.of)
      \/ ReadField(type, bytes) = ReadByteEnum(bytes, type.of)
      \/ ReadField(type, bytes) = ReadText(bytes, type.limit)
      \/ ReadField(type, bytes) = ReadByteArray(bytes, type.limit)
      \/ ReadField(type, bytes) = ReadLength(bytes, type.limit)
  BY Zenon DEF ReadField
<1>9. type.kind = "nbt" => ReadField(type, bytes) = ReadNbt(bytes)
  BY Zenon DEF ReadField
<1>10. Fits(ReadField(type, bytes), bytes)
  BY <1>1, <1>2, <1>3, <1>4, <1>5, <1>6, <1>7, <1>8, IntFits, LengthFits, ByteArrayFits, FixedFits
<1> QED
  BY <1>6, <1>9, <1>10, Zenon

-----------------------------------------------------------------------------
(* The invariant.                                                          *)

\* The bytes that are left are the end of the frame, and the two figures have their
\* types.
TypeOK ==
    /\ input \in Inputs
    /\ \E n \in 0 .. Len(input.bytes) : rest = SubSeq(input.bytes, n + 1, Len(input.bytes))
    /\ copied \in Nat
    /\ reserved \in Nat

IInv == TypeOK /\ MemoryBounded

LEMMA InitIInv == Init => IInv
<1> SUFFICES ASSUME Init PROVE IInv
  OBVIOUS
<1>1. input \in Inputs /\ rest = input.bytes /\ copied = 0 /\ reserved = 0
  BY DEF Init
<1>2. input.bytes \in Seq(Byte) /\ Len(input.bytes) \in Nat
  BY <1>1, PacketReaderAssumption
<1>3. rest = SubSeq(input.bytes, 0 + 1, Len(input.bytes))
  BY <1>1, <1>2, SubSeqFull
<1> QED
  BY <1>1, <1>2, <1>3 DEF IInv, TypeOK, MemoryBounded

\* What is left after a read.
LEMMA AfterIs ==
    ASSUME NEW n \in 0 .. Len(rest), rest \in Seq(Byte)
    PROVE  After(n) \in Seq(Byte) /\ Len(After(n)) = Len(rest) - n
BY DEF After

\* The end of what is left is an end of the frame.
LEMMA EndOfEnd ==
    ASSUME NEW all \in Seq(Byte), NEW k \in 0 .. Len(all),
           NEW n \in 0 .. Len(SubSeq(all, k + 1, Len(all)))
    PROVE  LET left == SubSeq(all, k + 1, Len(all))
           IN  /\ k + n \in 0 .. Len(all)
               /\ SubSeq(left, n + 1, Len(left)) = SubSeq(all, (k + n) + 1, Len(all))
<1>. DEFINE left == SubSeq(all, k + 1, Len(all))
            L == Len(all)
            one == SubSeq(left, n + 1, Len(left))
            two == SubSeq(all, (k + n) + 1, L)
<1>1. L \in Nat
  BY LenProperties
<1>2. left \in Seq(Byte) /\ Len(left) = L - k /\ \A i \in 1 .. L - k : left[i] = all[k + i]
  BY Cut
<1>. HIDE DEF left
<1>3. n \in 0 .. Len(left) /\ n \in 0 .. L - k
  BY <1>2 DEF left
<1>4. k + n \in 0 .. Len(all)
  BY <1>1, <1>3
<1>5. one \in Seq(Byte) /\ Len(one) = L - k - n /\ \A i \in 1 .. L - k - n : one[i] = left[n + i]
  <2>1. /\ one \in Seq(Byte)
        /\ Len(one) = Len(left) - n
        /\ \A i \in 1 .. Len(left) - n : one[i] = left[n + i]
    BY <1>2, <1>3, Cut
  <2>. HIDE DEF one, L
  <2> QED
    BY <1>2, <2>1
<1>6. two \in Seq(Byte) /\ Len(two) = L - (k + n) /\ \A i \in 1 .. L - (k + n) : two[i] = all[(k + n) + i]
  BY <1>4, Cut
<1>. HIDE DEF one, two, L
<1>7. L - k - n = L - (k + n)
  BY <1>1, <1>3
<1>8. ASSUME NEW i \in 1 .. L - (k + n)
      PROVE  one[i] = two[i]
  <2>1. n + i \in 1 .. L - k /\ k + (n + i) = (k + n) + i
    BY <1>1, <1>3
  <2> QED
    BY <1>2, <1>5, <1>6, <1>7, <2>1
<1>9. one = two
  BY <1>5, <1>6, <1>7, <1>8, SeqEqual
<1> QED
  BY <1>4, <1>9 DEF one, two, left, L

LEMMA NextIInv == IInv /\ [Next]_vars => IInv'
<1> SUFFICES ASSUME IInv, [Next]_vars PROVE IInv'
  OBVIOUS
<1>. DEFINE all == input.bytes
            Ends(s) == \E n \in 0 .. Len(all) : s = SubSeq(all, n + 1, Len(all))
<1>0. /\ input \in Inputs /\ Ends(rest) /\ copied \in Nat /\ reserved \in Nat
      /\ copied + Len(rest) <= Len(all) /\ reserved <= Len(all)
  BY DEF IInv, TypeOK, MemoryBounded
<1>1. all \in Seq(Byte) /\ Len(all) \in Nat /\ \A n \in 0 .. Len(all) : NbtFits(SubSeq(all, n + 1, Len(all)))
  BY <1>0, PacketReaderAssumption
<1>2. rest \in Seq(Byte) /\ Len(rest) \in Nat /\ Len(rest) <= Len(all) /\ NbtFits(rest)
  <2>1. PICK n \in 0 .. Len(all) : rest = SubSeq(all, n + 1, Len(all))
    BY <1>0
  <2>2. rest \in Seq(Byte) /\ Len(rest) = Len(all) - n
    BY <1>1, <2>1, Cut
  <2> QED
    BY <1>1, <2>1, <2>2
<1>3. ASSUME NEW n \in 0 .. Len(rest)
      PROVE  Ends(After(n)) /\ Len(After(n)) = Len(rest) - n
  <2>1. PICK k \in 0 .. Len(all) : rest = SubSeq(all, k + 1, Len(all))
    BY <1>0
  <2>2. k + n \in 0 .. Len(all) /\ SubSeq(rest, n + 1, Len(rest)) = SubSeq(all, (k + n) + 1, Len(all))
    BY <1>1, <2>1, EndOfEnd
  <2>3. Len(After(n)) = Len(rest) - n
    BY <1>2, AfterIs
  <2> QED
    BY <2>2, <2>3 DEF After
<1>4. ASSUME input' = input, Ends(rest'), copied' \in Nat, reserved' \in Nat,
             copied' + Len(rest') <= Len(all), reserved' <= Len(all)
      PROVE  IInv'
  BY <1>0, <1>4 DEF IInv, TypeOK, MemoryBounded
<1>. HIDE DEF Ends, all
<1>5. ASSUME NEW within, Reads(Found, within)
      PROVE  /\ input' = input
             /\ Ends(rest')
             /\ Found.used \in Nat
             /\ Len(rest') = Len(rest) - Found.used
             /\ Len(rest') \in Nat
  <2>1. Found.used \in 0 .. Len(rest)
    BY <1>2, <1>5, FieldFits DEF Reads, Found, Fits
  <2> QED
    BY <1>2, <1>3, <1>5, <2>1 DEF Reads
<1>6. ReservesNbt(Found) => reserved' \in Nat /\ reserved' <= Len(all)
  <2>1. Coming.type.kind = "nbt" => Found.capacity \in 0 .. Len(rest)
    BY <1>2, FieldFits DEF Found
  <2> QED
    BY <1>0, <1>1, <1>2, <2>1 DEF ReservesNbt, Larger
<1>7. CASE ReadId
  <2>1. Id.used \in 0 .. Len(rest)
    BY <1>2, <1>7, IntFits DEF ReadId, Id, Fits
  <2>2. input' = input /\ rest' = After(Id.used) /\ copied' = copied /\ reserved' = reserved
    BY <1>7 DEF ReadId
  <2> QED
    BY <1>0, <1>1, <1>2, <1>3, <1>4, <2>1, <2>2
<1>8. CASE ReadLeaf
  <2>1. PICK used \in {0, Found.used} : copied' = copied + used
    BY <1>8 DEF ReadLeaf, Kept
  <2>2. Reads(Found, <<>>) /\ ReservesNbt(Found)
    BY <1>8 DEF ReadLeaf
  <2>3. /\ input' = input /\ Ends(rest') /\ Found.used \in Nat
        /\ Len(rest') = Len(rest) - Found.used /\ Len(rest') \in Nat
    BY <1>5, <2>2
  <2>4. copied' \in Nat /\ copied' + Len(rest') <= Len(all)
    BY <1>0, <1>1, <1>2, <2>1, <2>3
  <2> QED
    BY <1>4, <1>6, <2>2, <2>3, <2>4
<1>9. CASE OpenArray
  <2> DEFINE within == Repeated(Found.value, Coming.type.of)
  <2>1. Reads(Found, within) /\ copied' = copied
    BY <1>9 DEF OpenArray
  <2>2. Found = ReadLength(rest, Coming.type.limit)
    BY <1>9, Zenon DEF OpenArray, Found, ReadField
  <2>3. Found.value \in Nat
    BY <1>2, <2>1, <2>2, LengthFits DEF Reads
  <2>4. reserved' \in {reserved, Found.value, Len(rest')} /\ reserved' \in Nat
        /\ (reserved' = reserved \/ reserved' <= Len(rest'))
    BY <1>0, <1>5, <1>9, <2>1, <2>3 DEF OpenArray, Larger
  <2>5. /\ input' = input /\ Ends(rest') /\ Found.used \in Nat
        /\ Len(rest') = Len(rest) - Found.used /\ Len(rest') \in Nat
    BY <1>5, <2>1
  <2>6. copied' \in Nat /\ copied' + Len(rest') <= Len(all)
    BY <1>0, <1>1, <1>2, <2>1, <2>5
  <2>7. reserved' <= Len(all)
    BY <1>0, <1>1, <1>2, <2>4, <2>5
  <2> QED
    BY <1>4, <2>4, <2>5, <2>6, <2>7
<1>10. CASE OpenOption
  <2>1. (\E within : Reads(Found, within)) /\ copied' = copied /\ reserved' = reserved
    BY <1>10 DEF OpenOption
  <2>2. /\ input' = input /\ Ends(rest') /\ Found.used \in Nat
        /\ Len(rest') = Len(rest) - Found.used /\ Len(rest') \in Nat
    BY <1>5, <2>1
  <2>3. copied' \in Nat /\ copied' + Len(rest') <= Len(all)
    BY <1>0, <1>1, <1>2, <2>1, <2>2
  <2> QED
    BY <1>0, <1>4, <2>1, <2>2, <2>3
<1>11. CASE RefuseField
  <2>1. ReservesNbt(Found) /\ input' = input /\ rest' = rest /\ copied' = copied
    BY <1>11 DEF RefuseField
  <2> QED
    BY <1>0, <1>4, <1>6, <2>1
<1>12. CASE IgnoreId \/ RefuseId \/ Finish \/ RefuseTrailing \/ UNCHANGED vars
  <2>1. input' = input /\ rest' = rest /\ copied' = copied /\ reserved' = reserved
    BY <1>12 DEF IgnoreId, RefuseId, Finish, RefuseTrailing, Stop, vars
  <2> QED
    BY <1>0, <1>4, <2>1
<1> QED
  BY <1>7, <1>8, <1>9, <1>10, <1>11, <1>12 DEF Next

\* reader.rs:246: the bytes that are kept of a frame and the elements that room is
\* made for are never more than the frame has bytes, whatever its layout, the
\* limits and the lengths it announces.
THEOREM MemoryIsBounded == Spec => []MemoryBounded
<1>1. Spec => []IInv
  BY InitIInv, NextIInv, PTL DEF Spec
<1>2. IInv => MemoryBounded
  BY DEF IInv
<1> QED
  BY <1>1, <1>2, PTL

-----------------------------------------------------------------------------
(* What is written again.                                                  *)

\* Two byte strings, one after the other.
LEMMA BytesJoined ==
    ASSUME NEW s \in Seq(Byte), NEW t \in Seq(Byte)
    PROVE  /\ s \o t \in Seq(Byte) /\ Len(s) \in Nat /\ Len(t) \in Nat
           /\ Len(s \o t) = Len(s) + Len(t)
           /\ \A i \in 1 .. Len(s) : (s \o t)[i] = s[i]
           /\ \A i \in 1 .. Len(t) : (s \o t)[Len(s) + i] = t[i]
<1>. DEFINE m == Len(s)
            n == Len(t)
            all == s \o t
<1>1. m \in Nat /\ n \in Nat
  BY LenProperties
<1>2. all \in Seq(Byte)
  BY ConcatProperties
<1>3. Len(all) = m + n
  BY ConcatProperties
<1>4. \A i \in 1 .. m + n : all[i] = IF i <= m THEN s[i] ELSE t[i - m]
  BY ConcatProperties
<1>. HIDE DEF m, n, all
<1>5. \A i \in 1 .. m : all[i] = s[i]
  BY <1>1, <1>4
<1>6. ASSUME NEW i \in 1 .. n
      PROVE  all[m + i] = t[i]
  <2>. DEFINE k == m + i
  <2>1. k \in 1 .. m + n /\ ~ k <= m /\ k - m = i
    BY <1>1
  <2>. HIDE DEF k
  <2>2. all[k] = t[i]
    BY <1>4, <2>1
  <2> QED
    BY <2>2 DEF k
<1> QED
  BY <1>1, <1>2, <1>3, <1>5, <1>6 DEF m, n, all

LEMMA FrontOfJoined ==
    ASSUME NEW s \in Seq(Byte), NEW t \in Seq(Byte)
    PROVE  SubSeq(s \o t, 1, Len(s \o t) - Len(t)) = s
<1>. DEFINE m == Len(s)
            all == s \o t
            front == SubSeq(all, 1, m)
<1>1. /\ all \in Seq(Byte) /\ m \in Nat /\ Len(t) \in Nat /\ Len(all) = m + Len(t)
      /\ \A i \in 1 .. m : all[i] = s[i]
  BY BytesJoined
<1>. HIDE DEF all, m
<1>2. Len(all) - Len(t) = m /\ m \in 0 .. Len(all)
  BY <1>1
<1>3. front \in Seq(Byte) /\ Len(front) = m /\ \A i \in 1 .. m : front[i] = all[i]
  BY <1>1, <1>2, Cut
<1>. HIDE DEF front
<1>4. front = s
  BY <1>1, <1>3, SeqEqual DEF m
<1> QED
  BY <1>2, <1>4 DEF front, all

LEMMA AlikeSelf ==
    ASSUME NEW s \in Seq(Byte)
    PROVE  WrittenAlike(s, s)
BY DEF WrittenAlike, SameAt

\* Some bytes are among others, behind the first n.
LieBehind(s, r, n) == n + Len(s) <= Len(r) /\ \A i \in 1 .. Len(s) : r[n + i] = s[i]

\* A padded varint stays one within a longer frame.
LEMMA PaddedWithin ==
    ASSUME NEW s \in Seq(Byte), NEW r \in Seq(Byte), NEW n \in Nat, LieBehind(s, r, n), Padded(s)
    PROVE  Padded(r)
<1>1. PICK i \in 1 .. Len(s) - 1 : s[i] >= Base /\ ~Adds(s[i + 1])
  BY DEF Padded
<1>. DEFINE k == n + i
            j == i + 1
<1>2. Len(s) \in Nat /\ Len(r) \in Nat /\ i \in 1 .. Len(s) /\ j \in 1 .. Len(s)
      /\ k \in 1 .. Len(r) - 1 /\ n + j = k + 1
  BY LenProperties DEF LieBehind
<1>3. r[k] = s[i] /\ r[n + j] = s[j]
  BY <1>2 DEF LieBehind
<1>4. n + j = k + 1
  BY <1>2
<1>5. r[k] >= Base /\ ~Adds(r[n + j])
  BY <1>1, <1>3, Zenon
<1>. HIDE DEF k, j
<1>6. ~Adds(r[k + 1])
  BY <1>4, <1>5, Zenon
<1> QED
  BY <1>2, <1>5, <1>6 DEF Padded

\* So does a byte that is the same.
LEMMA SameWithin ==
    ASSUME NEW a, NEW b, NEW s \in Seq(Byte), NEW r \in Seq(Byte), NEW n \in Nat,
           LieBehind(s, r, n), NEW i \in 1 .. Len(s), SameAt(a, s, i), b[n + i] = a[i]
    PROVE  SameAt(b, r, n + i)
<1>. DEFINE k == n + i
<1>1. Len(s) \in Nat /\ MaxVarintBytes \in Nat \ {0} /\ k \in Nat /\ i \in Nat /\ r[k] = s[i] /\ b[k] = a[i]
  <2>1. Len(s) \in Nat /\ MaxVarintBytes \in Nat \ {0}
    BY LenProperties, VarintAssumption
  <2>2. k \in Nat /\ i \in Nat
    BY <2>1
  <2>3. r[k] = s[i] /\ b[k] = a[i]
    BY Zenon DEF LieBehind
  <2> QED
    BY <2>1, <2>2, <2>3
<1>2. CASE a[i] = s[i] \/ (a[i] = 1 /\ s[i] > 1)
  <2>. HIDE DEF k
  <2>1. b[k] = r[k] \/ (b[k] = 1 /\ r[k] > 1)
    BY <1>1, <1>2, Zenon
  <2>2. SameAt(b, r, k)
    BY <2>1, Zenon DEF SameAt
  <2> QED
    BY <2>2 DEF k
<1>3. CASE i >= MaxVarintBytes /\ \A j \in i - MaxVarintBytes + 1 .. i - 1 : s[j] >= Base
  <2>1. k >= MaxVarintBytes
    BY <1>1, <1>3
  <2>2. ASSUME NEW h \in k - MaxVarintBytes + 1 .. k - 1
        PROVE  r[h] >= Base
    <3>. DEFINE j == h - n
    <3>1. j \in i - MaxVarintBytes + 1 .. i - 1 /\ j \in 1 .. Len(s) /\ n + j = h
      BY <1>1, <1>3
    <3>. HIDE DEF j
    <3>2. r[n + j] = s[j] /\ s[j] >= Base
      BY <1>3, <3>1 DEF LieBehind
    <3> QED
      BY <3>1, <3>2
  <2> QED
    BY <2>1, <2>2 DEF SameAt
<1> QED
  BY <1>2, <1>3 DEF SameAt

\* What is alike piece by piece is alike as a whole.
LEMMA AlikeJoined ==
    ASSUME NEW a \in Seq(Byte), NEW r \in Seq(Byte), WrittenAlike(a, r),
           NEW b \in Seq(Byte), NEW s \in Seq(Byte), WrittenAlike(b, s)
    PROVE  WrittenAlike(a \o b, r \o s)
<1>. DEFINE ab == a \o b
            rs == r \o s
            n == Len(r)
<1>1. /\ ab \in Seq(Byte) /\ Len(ab) = Len(a) + Len(b)
      /\ \A i \in 1 .. Len(a) : ab[i] = a[i]
      /\ \A i \in 1 .. Len(b) : ab[Len(a) + i] = b[i]
  BY BytesJoined
<1>2. /\ rs \in Seq(Byte) /\ Len(rs) = n + Len(s)
      /\ \A i \in 1 .. n : rs[i] = r[i]
      /\ \A i \in 1 .. Len(s) : rs[n + i] = s[i]
  BY BytesJoined
<1>3. Len(a) \in Nat /\ n \in Nat /\ Len(b) \in Nat /\ Len(s) \in Nat
      /\ Len(a) <= n /\ Len(b) <= Len(s)
  BY LenProperties DEF WrittenAlike
<1>. HIDE DEF ab, rs
<1>7. LieBehind(r, rs, 0) /\ LieBehind(s, rs, n)
  BY <1>2, <1>3 DEF LieBehind
<1>4. CASE Padded(r) /\ Len(a) < n
  <2>1. Padded(rs)
    BY <1>2, <1>4, <1>7, PaddedWithin
  <2> QED
    BY <1>1, <1>2, <1>3, <1>4, <2>1 DEF WrittenAlike, ab, rs
<1>5. CASE Padded(s) /\ Len(b) < Len(s)
  <2>1. Padded(rs)
    BY <1>2, <1>3, <1>5, <1>7, PaddedWithin
  <2> QED
    BY <1>1, <1>2, <1>3, <1>5, <2>1 DEF WrittenAlike, ab, rs
<1>6. CASE /\ Len(a) = n /\ \A i \in 1 .. n : SameAt(a, r, i)
           /\ Len(b) = Len(s) /\ \A i \in 1 .. Len(s) : SameAt(b, s, i)
  <2>1. ASSUME NEW i \in 1 .. n
        PROVE  SameAt(ab, rs, i)
    <3>. DEFINE z == 0
    <3>1. LieBehind(r, rs, z)
      BY <1>7
    <3>2. z \in Nat /\ z + i = i /\ ab[z + i] = a[i]
      BY <1>1, <1>3, <1>6
    <3>. HIDE DEF z
    <3>3. SameAt(ab, rs, z + i)
      BY <1>2, <1>6, <3>1, <3>2, SameWithin
    <3> QED
      BY <3>2, <3>3
  <2>2. ASSUME NEW i \in 1 .. Len(s)
        PROVE  SameAt(ab, rs, n + i)
    <3>1. ab[n + i] = b[i]
      BY <1>1, <1>6
    <3> QED
      BY <1>2, <1>3, <1>6, <1>7, <3>1, SameWithin
  <2>3. ASSUME NEW k \in 1 .. n + Len(s)
        PROVE  SameAt(ab, rs, k)
    <3>1. CASE k <= n
      BY <1>3, <2>1, <3>1
    <3>2. CASE ~ k <= n
      <4>. DEFINE i == k - n
      <4>1. i \in 1 .. Len(s) /\ k = n + i
        BY <1>3, <3>2
      <4>. HIDE DEF i
      <4> QED
        BY <2>2, <4>1
    <3> QED
      BY <3>1, <3>2
  <2>4. Len(ab) = Len(rs) /\ Len(rs) = n + Len(s)
    BY <1>1, <1>2, <1>6
  <2>5. \A k \in 1 .. Len(rs) : SameAt(ab, rs, k)
    BY <2>3, <2>4
  <2> QED
    BY <2>4, <2>5 DEF WrittenAlike, ab, rs
<1> QED
  BY <1>3, <1>4, <1>5, <1>6 DEF WrittenAlike

\* The groups of some bytes.
GroupsOf(bytes, k) == [i \in 1 .. k |-> bytes[i] % Base]

\* A byte is a group, and a flag or none.
LEMMA GroupAndFlag ==
    ASSUME NEW b \in Byte
    PROVE  /\ b % Base \in 0 .. Base - 1 /\ b \in Nat
           /\ b < Base => b = b % Base
           /\ b >= Base => b = (b % Base) + Base
<1>1. Base \in Nat \ {0} /\ b \in Nat /\ b < 2 * Base
  BY ByteIs, PlaceIs, SMT
<1>2. CASE b < Base
  <2>1. b % Base = b
    BY <1>1, <1>2, DivModSmall
  <2> QED
    BY <1>1, <1>2, <2>1
<1>3. CASE b >= Base
  <2>. DEFINE r == b - Base
  <2>1. r \in 0 .. Base - 1 /\ b = 1 * Base + r
    BY <1>1, <1>3
  <2>. HIDE DEF r
  <2>2. (1 * Base + r) % Base = r
    BY <1>1, <2>1, DivMod
  <2>3. b % Base = r
    BY <2>1, <2>2
  <2> QED
    BY <1>1, <1>3, <2>1, <2>3
<1> QED
  BY <1>1, <1>2, <1>3

\* What the k-th group of an integer can be, as far as there is room for it.
Room(k) == 2^(Width - Group * (k - 1))

\* The highest group of a number, and what an integer keeps of it.
LEMMA TopGroup ==
    ASSUME NEW k \in 1 .. MaxVarintBytes, NEW low \in Nat, low < Place(k), NEW e \in 0 .. Base - 1
    PROVE  /\ Room(k) \in Nat \ {0} /\ Place(k) * Room(k) = 2^Width
           /\ e % Room(k) \in Nat /\ e % Room(k) <= e
           /\ (low + e * Place(k)) % 2^Width = low + (e % Room(k)) * Place(k)
           /\ k < MaxVarintBytes => e % Room(k) = e
<1>. DEFINE g == Group * (k - 1)
            P == Place(k)
            Q == Room(k)
            f == e % Q
<1>1. /\ Group \in Nat \ {0} /\ Width \in Nat /\ MaxVarintBytes \in Nat \ {0} /\ k \in Nat \ {0}
      /\ Group * (MaxVarintBytes - 1) < Width
  BY VarintAssumption
<1>2. g \in Nat /\ g < Width /\ Width - g \in Nat
  <2>1. g <= Group * (MaxVarintBytes - 1) /\ g \in Nat
    BY <1>1, SMT
  <2>. DEFINE h == Group * (MaxVarintBytes - 1)
  <2>2. h \in Nat /\ h < Width /\ g <= h
    BY <1>1, <2>1, SMT
  <2>. HIDE DEF g, h
  <2> QED
    BY <1>1, <2>1, <2>2
<1>3. P \in Nat \ {0} /\ P = 2^g
  BY <1>1, PlaceIs DEF Place
<1>4. Q \in Nat \ {0}
  BY <1>2, TwoPositive DEF Room
<1>5. P * Q = 2^Width
  <2>. DEFINE h == Width - g
  <2>1. h \in Nat /\ g + h = Width
    BY <1>1, <1>2
  <2>. HIDE DEF h, g
  <2>2. 2^(g + h) = 2^g * 2^h
    BY <1>2, <2>1, TwoSum
  <2>3. Q = 2^h
    BY DEF h, g, Room
  <2> QED
    BY <1>3, <2>1, <2>2, <2>3
<1>6. Base \in Nat \ {0} /\ e \in Nat /\ e < Base
  BY PlaceIs
<1>. HIDE DEF P, Q
<1>7. f \in Nat /\ f <= e
  <2>. DEFINE q == e \div Q
  <2>1. q \in Nat /\ f \in 0 .. Q - 1 /\ e = q * Q + f
    BY <1>4, <1>6, DivModOf
  <2>. HIDE DEF q, f
  <2>2. q * Q \in Nat
    BY <1>4, <2>1, SMT
  <2>. DEFINE x == q * Q
  <2>3. x \in Nat /\ e = x + f /\ f \in Nat
    BY <1>4, <2>1, <2>2
  <2>. HIDE DEF x
  <2> QED
    BY <2>3
<1>8. (low + e * P) % 2^Width = low + f * P
  <2>. DEFINE n == e * P + low
  <2>0. low < P
    BY DEF P
  <2>00. P \in Nat \ {0} /\ e \in Int
    BY <1>3, <1>6
  <2>1. low \in 0 .. P - 1
    BY <2>0, <2>00
  <2>2. n \div P = e /\ n % P = low
    BY <2>00, <2>1, DivMod
  <2>3. n \in Nat /\ low + e * P = n
    BY <1>3, <1>6, SMT
  <2>. HIDE DEF n
  <2>4. n % (P * Q) = ((n \div P) % Q) * P + (n % P)
    BY <1>3, <1>4, <2>3, DivDiv
  <2>5. n % 2^Width = f * P + low
    BY <1>5, <2>2, <2>4
  <2>6. f * P + low = low + f * P
    BY <1>3, <1>7, SMT
  <2> QED
    BY <2>3, <2>5, <2>6
<1>9. ASSUME k < MaxVarintBytes
      PROVE  f = e
  <2>1. Group * k <= Group * (MaxVarintBytes - 1) /\ Group * k = g + Group
    BY <1>1, <1>9, SMT
  <2>. DEFINE h == Group * (MaxVarintBytes - 1)
              w == Width - g
  <2>2. h \in Nat /\ h < Width /\ g + Group <= h
    BY <1>1, <2>1, SMT
  <2>. HIDE DEF g, h
  <2>3. w \in Nat /\ Group <= w
    BY <1>1, <1>2, <2>2
  <2>4. 2^Group <= 2^w /\ Q = 2^w
    BY <1>1, <2>3, TwoMonotone DEF g, Q, Room
  <2>5. Base <= Q
    BY <2>4, BaseIs
  <2>6. e \in 0 .. Q - 1
    BY <1>4, <1>6, <2>5
  <2> QED
    BY <1>4, <2>6, DivModSmall
<1> QED
  BY <1>4, <1>5, <1>7, <1>8, <1>9 DEF P, Q
\* An integer is written again as the bytes it was read from, but for a last byte
\* that adds nothing, or has more bits than the integer.
LEMMA GroupsAgain ==
    ASSUME NEW k \in 1 .. MaxVarintBytes, NEW c \in Seq(Byte), Len(c) = k, Stops(c, k),
           NEW sum \in [0 .. k -> Nat], AddsUp(sum, GroupsOf(c, k), Group, k)
    PROVE  /\ sum[k] % 2^Width \in Unsigned
           /\ WrittenAlike(Groups(sum[k] % 2^Width), c)
<1>. DEFINE d == GroupsOf(c, k)
            P == Place(k)
            Q == Room(k)
            low == sum[k - 1]
            e == d[k]
            f == e % Q
            u == low + f * P
<1>1. /\ Group \in Nat \ {0} /\ Width \in Nat /\ MaxVarintBytes \in Nat \ {0} /\ k \in Nat \ {0}
      /\ k - 1 \in 0 .. k /\ k \in 0 .. k /\ Base \in Nat \ {0} /\ Base = 2^Group
  BY VarintAssumption, PlaceIs
<1>2. \A i \in 1 .. k : c[i] \in Byte
  BY ElementOfSeq
<1>3. d \in [1 .. k -> 0 .. Base - 1] /\ \A i \in 1 .. k : d[i] = c[i] % Base
  BY <1>2, GroupAndFlag DEF GroupsOf
<1>. HIDE DEF d
<1>4. \A n \in 0 .. k : sum[n] < 2^(Group * n)
  <2>1. d \in [1 .. k -> 0 .. 2^Group - 1] /\ AddsUp(sum, d, Group, k)
    BY <1>1, <1>3 DEF d
  <2> QED
    <3>1. HasDigits(sum, d, Group, k)
      BY <1>1, <2>1, DigitsOf, Zenon
    <3> QED
      BY <3>1 DEF HasDigits
<1>5. P \in Nat \ {0} /\ low \in Nat /\ low < P /\ e \in 0 .. Base - 1
  <2>1. P \in Nat \ {0}
    BY <1>1, PlaceIs
  <2>2. low \in Nat /\ e \in 0 .. Base - 1
    BY <1>1, <1>3
  <2>. DEFINE j == k - 1
  <2>3. j \in 0 .. k /\ P = 2^(Group * j)
    BY <1>1 DEF Place
  <2>. HIDE DEF j, P
  <2>4. sum[j] < P
    BY <1>4, <2>3
  <2> QED
    BY <2>1, <2>2, <2>4 DEF j
<1>6. sum[k] = low + e * P
  BY <1>1 DEF AddsUp, Place, d
<1>7. /\ Q \in Nat \ {0} /\ P * Q = 2^Width
      /\ f \in Nat /\ f <= e
      /\ (low + e * P) % 2^Width = u
      /\ k < MaxVarintBytes => f = e
  BY <1>5, TopGroup
<1>. HIDE DEF P, Q, low, e, f
<1>8. u \in Nat /\ u <= sum[k] /\ sum[k] \in Nat
  <2>1. e \in Nat /\ f * P <= e * P /\ f * P \in Nat /\ e * P \in Nat
    BY <1>1, <1>5, <1>7, SMT
  <2>. DEFINE x == f * P
              y == e * P
  <2>2. x \in Nat /\ y \in Nat /\ x <= y /\ u = low + x /\ sum[k] = low + y
    BY <1>6, <2>1
  <2>. HIDE DEF x, y, u
  <2> QED
    BY <1>5, <2>2
<1>9. sum[k] % 2^Width = u
  BY <1>6, <1>7
<1>. HIDE DEF u
<1>10. u \in Unsigned
  <2>1. 2^Width \in Nat \ {0}
    BY <1>1, TwoPositive
  <2>2. sum[k] % 2^Width \in 0 .. 2^Width - 1
    BY <1>8, <2>1, DivModOf
  <2> QED
    BY <1>9, <2>2 DEF Unsigned
<1>. DEFINE L == VarintLen(u)
<1>11. /\ L \in 1 .. MaxVarintBytes /\ u < Place(L + 1) /\ (L = 1 \/ u >= Place(L))
       /\ Groups(u) \in Seq(Byte) /\ Len(Groups(u)) = L
  BY <1>10, VarintLenIs, GroupsType
<1>. HIDE DEF L
<1>12. L <= k
  <2> SUFFICES ASSUME L > k PROVE FALSE
    BY <1>1, <1>11
  <2>. DEFINE k1 == k + 1
  <2>1. L # 1 /\ k1 <= L /\ L \in Nat \ {0} /\ k1 \in Nat \ {0}
    BY <1>1, <1>11
  <2>2. Place(k1) <= Place(L) /\ Place(k1) \in Nat /\ Place(L) \in Nat
    BY <2>1, PlaceIs
  <2>3. sum[k] < Place(k1)
    BY <1>1, <1>4 DEF Place
  <2>. HIDE DEF k1
  <2> QED
    BY <1>8, <1>11, <2>1, <2>2, <2>3
<1>13. CASE L < k
  <2>1. f = 0
    <3>. DEFINE L1 == L + 1
    <3>1. L1 \in Nat \ {0} /\ L1 <= k
      BY <1>1, <1>11, <1>13
    <3>2. Place(L1) <= P /\ Place(L1) \in Nat
      BY <1>1, <3>1, PlaceIs DEF P
    <3>3. u < P
      BY <1>5, <1>8, <1>11, <3>2
    <3> SUFFICES ASSUME f # 0 PROVE FALSE
      OBVIOUS
    <3>4. P <= f * P /\ f * P \in Nat
      BY <1>5, <1>7, SMT
    <3>. DEFINE x == f * P
    <3>5. u = low + x /\ P <= x /\ x \in Nat
      BY <3>4 DEF u
    <3>. HIDE DEF x
    <3> QED
      BY <1>5, <3>3, <3>5
  <2>2. ~Adds(c[k])
    <3>. DEFINE q == e \div Q
                g == Group * (k - 1)
                h == Group * (MaxVarintBytes - k)
                K == 2^h
                W == 2^Width
    <3>0. e \in Nat /\ Q \in Nat \ {0}
      BY <1>1, <1>5, <1>7
    <3>1. q \in Nat /\ e = q * Q + f
      BY <3>0, DivModOf DEF f
    <3>2. g \in Nat /\ h \in Nat /\ Group * (MaxVarintBytes - 1) = g + h
      BY <1>1, SMT
    <3>3. 2^(g + h) = P * K /\ K \in Nat
      <4>. HIDE DEF g, h
      <4>1. 2^(g + h) = 2^g * 2^h /\ 2^h \in Nat
        BY <3>2, TwoSum, TwoPositive
      <4> QED
        BY <4>1 DEF P, Place, g
    <3>4. W \in Nat \ {0} /\ P * Q = W
      BY <1>1, <1>7, TwoPositive
    <3>. HIDE DEF q, g, h, K, W
    <3>5. e * (P * K) = (q * K) * (P * Q)
      <4>1. e = q * Q
        BY <1>7, <2>1, <3>1, SMT
      <4> QED
        BY <1>5, <1>7, <3>1, <3>3, <4>1, SMT
    <3>6. q * K \in Int
      BY <3>1, <3>3, SMT
    <3>. DEFINE x == q * K
    <3>7. 0 \in 0 .. W - 1 /\ x \in Int
      BY <3>4, <3>6
    <3>. HIDE DEF x
    <3>8. (x * W + 0) % W = 0
      BY <3>4, <3>7, DivMod
    <3>9. e * 2^(Group * (MaxVarintBytes - 1)) = x * W + 0
      <4>1. 2^(Group * (MaxVarintBytes - 1)) = P * K
        BY <3>2, <3>3, Zenon
      <4>2. e * (P * K) = x * W
        BY <3>4, <3>5 DEF x
      <4>3. x * W \in Int
        BY <3>4, <3>7, SMT
      <4> QED
        BY <4>1, <4>2, <4>3
    <3>10. c[k] % Base = e
      BY <1>1, <1>3 DEF e
    <3> QED
      BY <3>8, <3>9, <3>10 DEF Adds, W
  <2>. DEFINE i == k - 1
  <2>3. i \in 1 .. Len(c) - 1 /\ i + 1 = k
    BY <1>1, <1>11, <1>13
  <2>4. c[i] >= Base
    BY <1>1, <2>3 DEF Stops
  <2>. HIDE DEF i
  <2>5. Padded(c)
    BY <2>2, <2>3, <2>4 DEF Padded
  <2> QED
    BY <1>9, <1>10, <1>11, <1>13, <2>5 DEF WrittenAlike
<1>14. CASE L = k
  <2>. DEFINE d2 == [d EXCEPT ![k] = f]
              sum2 == [sum EXCEPT ![k] = u]
  <2>0. f \in Nat /\ f <= e
    BY <1>7
  <2>1. f \in 0 .. Base - 1
    BY <1>1, <1>5, <2>0
  <2>2. d2 \in [1 .. k -> 0 .. 2^Group - 1] /\ sum2 \in [0 .. k -> Nat]
    BY <1>1, <1>3, <1>8, <2>1
  <2>3. AddsUp(sum2, d2, Group, k)
    <3>1. sum[0] = 0 /\ \A i \in 1 .. k : sum[i] = sum[i - 1] + d[i] * 2^(Group * (i - 1))
      BY DEF AddsUp, d
    <3>2. sum2[0] = 0
      BY <1>1, <3>1
    <3>3. ASSUME NEW i \in 1 .. k
          PROVE  sum2[i] = sum2[i - 1] + d2[i] * 2^(Group * (i - 1))
      <4>1. CASE i = k
        <5>1. sum2[k] = u /\ sum2[k - 1] = low /\ d2[k] = f
          BY <1>1, <1>3 DEF low
        <5> QED
          BY <4>1, <5>1 DEF u, P, Place
      <4>2. CASE i # k
        <5>1. sum2[i] = sum[i] /\ sum2[i - 1] = sum[i - 1] /\ d2[i] = d[i]
          BY <1>1, <1>3, <4>2
        <5> QED
          BY <3>1, <5>1
      <4> QED
        BY <4>1, <4>2
    <3> QED
      BY <3>2, <3>3 DEF AddsUp
  <2>4. ASSUME NEW i \in 1 .. k
        PROVE  Digit(u, i) = d2[i]
    <3>1. sum2[k] = u
      BY <1>1
    <3>. HIDE DEF d2, sum2
    <3>2. Group \in Nat /\ k \in Nat /\ k \in 0 .. k
      BY <1>1
    <3>3. HasDigits(sum2, d2, Group, k)
      BY <2>2, <2>3, <3>2, DigitsOf, Zenon
    <3>4. DigitAt(sum2[k], Weight(Group, i), 2^Group) = d2[i]
      BY <3>2, <3>3 DEF HasDigits
    <3> QED
      BY <1>1, <3>1, <3>4 DEF DigitAt, Weight, Digit, Place
  <2>5. ASSUME NEW i \in 1 .. k
        PROVE  SameAt(Groups(u), c, i)
    <3>1. Groups(u)[i] = IF i = k THEN Digit(u, i) ELSE Digit(u, i) + Base
      BY <1>14 DEF Groups, L
    <3>2. c[i] \in Byte /\ d[i] = c[i] % Base
      BY <1>2, <1>3
    <3>3. CASE i # k
      <4>1. d2[i] = d[i] /\ c[i] >= Base
        BY <1>1, <1>3, <3>3 DEF Stops
      <4>2. Groups(u)[i] = c[i]
        BY <2>4, <3>1, <3>2, <3>3, <4>1, GroupAndFlag
      <4> QED
        BY <4>2 DEF SameAt
    <3>4. CASE i = k /\ k < MaxVarintBytes
      <4>1. d2[k] = f /\ f = e /\ c[k] < Base
        BY <1>1, <1>3, <1>7, <3>4 DEF Stops
      <4>2. Groups(u)[k] = c[k]
        BY <2>4, <3>1, <3>2, <3>4, <4>1, GroupAndFlag DEF e
      <4> QED
        BY <3>4, <4>2 DEF SameAt
    <3>5. CASE i = k /\ k = MaxVarintBytes
      <4>1. i - MaxVarintBytes + 1 .. i - 1 = 1 .. k - 1 /\ i >= MaxVarintBytes
        BY <1>1, <3>5
      <4> QED
        BY <4>1 DEF SameAt, Stops
    <3> QED
      BY <1>1, <3>3, <3>4, <3>5
  <2> QED
    BY <1>9, <1>10, <1>11, <1>14, <2>5 DEF WrittenAlike
<1> QED
  BY <1>1, <1>11, <1>12, <1>13, <1>14

\* What read_varint takes for an integer is written again alike.
LEMMA VarintAgain ==
    ASSUME NEW bytes \in Seq(Byte), ReadVarint(bytes).kind = "ok"
    PROVE  /\ ReadVarint(bytes).used \in 1 .. Len(bytes)
           /\ \E u \in Unsigned :
                 /\ ReadVarint(bytes).value = Signed(u)
                 /\ WriteVarint(u) \in Seq(Byte)
                 /\ WrittenAlike(WriteVarint(u), SubSeq(bytes, 1, ReadVarint(bytes).used))
<1>. DEFINE limit == Limit(bytes)
            last == CHOOSE i \in 1 .. limit : Stops(bytes, i)
            c == SubSeq(bytes, 1, last)
<1>1. PICK sum \in [0 .. limit -> Nat] :
         /\ sum[0] = 0
         /\ \A i \in 1 .. limit : sum[i] = SumStep(bytes, i, sum[i - 1])
         /\ ReadVarint(bytes) =
               IF \E i \in 1 .. limit : Stops(bytes, i)
               THEN [kind |-> "ok", value |-> Signed(sum[last] % 2^Width), used |-> last]
               ELSE IF Len(bytes) < MaxVarintBytes THEN Incomplete ELSE TooLong
  BY ReadVarintIs
<1>2. \E i \in 1 .. limit : Stops(bytes, i)
  BY <1>1 DEF Incomplete, TooLong
<1>3. last \in 1 .. limit /\ Stops(bytes, last)
  BY <1>2
<1>4. ReadVarint(bytes).value = Signed(sum[last] % 2^Width) /\ ReadVarint(bytes).used = last
  BY <1>1, <1>2
<1>5. limit \in Nat /\ Len(bytes) \in Nat /\ limit <= Len(bytes) /\ limit <= MaxVarintBytes
      /\ MaxVarintBytes \in Nat
  BY LenProperties, VarintAssumption DEF Limit
<1>. HIDE DEF limit, last
<1>6. last \in 1 .. Len(bytes) /\ last \in 1 .. MaxVarintBytes /\ last \in 0 .. Len(bytes)
  BY <1>3, <1>5
<1>7. c \in Seq(Byte) /\ Len(c) = last /\ \A i \in 1 .. last : c[i] = bytes[i]
  BY <1>6, Cut
<1>. HIDE DEF c
<1>8. Stops(c, last)
  <2>1. c[last] = bytes[last] /\ \A j \in 1 .. last - 1 : c[j] = bytes[j]
    BY <1>6, <1>7
  <2> QED
    BY <1>3, <2>1 DEF Stops
<1>. DEFINE part == [i \in 0 .. last |-> sum[i]]
<1>9. part \in [0 .. last -> Nat] /\ part[last] = sum[last]
  BY <1>3, <1>5
<1>10. AddsUp(part, GroupsOf(c, last), Group, last)
  <2>1. part[0] = 0
    BY <1>1, <1>3, <1>5
  <2>2. ASSUME NEW i \in 1 .. last
        PROVE  part[i] = part[i - 1] + GroupsOf(c, last)[i] * 2^(Group * (i - 1))
    <3>1. i \in 1 .. limit /\ i \in 0 .. last /\ i - 1 \in 0 .. last
      BY <1>3, <1>5
    <3>2. part[i] = sum[i] /\ part[i - 1] = sum[i - 1] /\ GroupsOf(c, last)[i] = bytes[i] % Base
      BY <1>7, <3>1 DEF GroupsOf
    <3>3. sum[i] = sum[i - 1] + (bytes[i] % Base) * 2^(Group * (i - 1))
      BY <1>1, <3>1 DEF SumStep
    <3> QED
      BY <3>2, <3>3
  <2> QED
    BY <2>1, <2>2 DEF AddsUp
<1>. HIDE DEF part
<1>. DEFINE u == part[last] % 2^Width
<1>11. u \in Unsigned /\ WrittenAlike(Groups(u), c)
  BY <1>6, <1>7, <1>8, <1>9, <1>10, GroupsAgain
<1>12. ReadVarint(bytes).value = Signed(u)
  BY <1>4, <1>9
<1>. HIDE DEF u
<1>13. WriteVarint(u) = Groups(u) /\ Groups(u) \in Seq(Byte)
  BY <1>11, WriteVarintIs, GroupsType
<1> QED
  BY <1>4, <1>6, <1>11, <1>12, <1>13 DEF c

-----------------------------------------------------------------------------
(* Parts that are written one after another.                               *)

\* The parts up to each of them, joined.
Joins(f, parts) ==
    f[0] = <<>> /\ \A i \in 1 .. Len(parts) : f[i] = f[i - 1] \o parts[i]

LEMMA JoinsExist ==
    ASSUME NEW parts \in Seq(Seq(Byte))
    PROVE  \E f \in [0 .. Len(parts) -> Seq(Byte)] : Joins(f, parts)
<1>. DEFINE n == Len(parts)
            T == Seq(Byte)
            step == [i \in 1 .. n |-> [s \in T |-> s \o parts[i]]]
            none == <<>>
<1>1. n \in Nat /\ \A i \in 1 .. n : parts[i] \in T
  BY LenProperties, ElementOfSeq
<1>2. \A i \in 1 .. n : \A s \in T : s \o parts[i] \in T
  BY <1>1, ConcatProperties
<1>3. none \in T
  BY EmptySeq
<1>4. step \in [1 .. n -> [T -> T]]
  <2>. HIDE DEF T, n
  <2> QED
    BY <1>2
<1>5. PICK f \in [0 .. n -> T] : Computed(f, n, none, step)
  <2>. HIDE DEF step, T, n, none
  <2> QED
    BY <1>1, <1>3, <1>4, Recursion
<1>6. ASSUME NEW i \in 1 .. n
      PROVE  f[i] = f[i - 1] \o parts[i]
  <2>. HIDE DEF T, n
  <2>1. i - 1 \in 0 .. n
    BY <1>1
  <2>2. f[i - 1] \in T
    BY <2>1
  <2>3. f[i] = step[i][f[i - 1]]
    BY <1>5 DEF Computed
  <2> QED
    BY <2>2, <2>3
<1>7. f[0] = <<>>
  BY <1>5 DEF Computed
<1> QED
  BY <1>6, <1>7 DEF Joins

\* FlattenSeq finds the last of them.
LEMMA FlattenIs ==
    ASSUME NEW parts \in Seq(Seq(Byte)),
           NEW f \in [0 .. Len(parts) -> Seq(Byte)], Joins(f, parts)
    PROVE  FlattenSeq(parts) = f[Len(parts)]
<1>. DEFINE n == Len(parts)
            Value(g, i) == IF i = 1 THEN parts[i] ELSE g[i - 1] \o parts[i]
            Body(g) == [i \in 1 .. n |-> Value(g, i)]
            flat == CHOOSE g : g = Body(g)
            front == [i \in 1 .. n |-> f[i]]
<1>1. n \in Nat /\ \A i \in 1 .. n : parts[i] \in Seq(Byte)
  BY LenProperties, ElementOfSeq
<1>2. ASSUME NEW i \in 1 .. n
      PROVE  f[i] = IF i = 1 THEN parts[i] ELSE f[i - 1] \o parts[i]
  <2>1. f[i] = f[i - 1] \o parts[i] /\ f[0] = <<>>
    BY DEF Joins
  <2>2. <<>> \o parts[i] = parts[i]
    BY <1>1, ConcatEmptySeq
  <2>3. CASE i = 1
    <3>1. i - 1 = 0
      BY <2>3
    <3>2. f[i] = parts[i]
      BY <2>1, <2>2, <3>1, Zenon
    <3> QED
      BY <2>3, <3>2
  <2>4. CASE i # 1
    BY <2>1, <2>4
  <2> QED
    BY <2>3, <2>4
<1>. HIDE DEF n
<1>3. front = Body(front)
  <2>1. ASSUME NEW i \in 1 .. n
        PROVE  front[i] = Value(front, i)
    <3>1. i # 1 => i - 1 \in 1 .. n
      BY <1>1
    <3> QED
      BY <1>2, <3>1
  <2> QED
    BY <2>1
<1>4. flat = Body(flat)
  <2>. HIDE DEF Body, front
  <2> QED
    BY <1>3
<1>. HIDE DEF flat
<1>5. \A i \in 1 .. n : flat[i] = IF i = 1 THEN parts[i] ELSE flat[i - 1] \o parts[i]
  BY <1>4
<1>. DEFINE S == {k \in 0 .. n : k = 0 \/ flat[k] = f[k]}
<1>6. 0 \in S
  BY <1>1
<1>7. ASSUME NEW k \in 0 .. n - 1, k \in S
      PROVE  k + 1 \in S
  <2>. DEFINE j == k + 1
  <2>1. j \in 1 .. n /\ j - 1 = k /\ (j = 1 <=> k = 0) /\ j \in 0 .. n
    BY <1>1
  <2>. HIDE DEF j
  <2>2. flat[j] = f[j]
    BY <1>2, <1>5, <1>7, <2>1
  <2>3. j \in S
    BY <2>1, <2>2
  <2> QED
    BY <2>3 DEF j
<1>8. \A k \in 0 .. n : k \in S
  <2>. HIDE DEF S
  <2> QED
    BY <1>1, <1>6, <1>7, InductionUpTo
<1>9. CASE n = 0
  <2>1. FlattenSeq(parts) = parts /\ parts = <<>> /\ f[0] = <<>>
    BY <1>9, EmptySeq DEF FlattenSeq, n, Joins
  <2> QED
    BY <1>9, <2>1 DEF n
<1>10. CASE n # 0
  <2>1. n \in 0 .. n
    BY <1>1
  <2>2. flat[n] = f[n]
    BY <1>8, <1>10, <2>1
  <2>3. FlattenSeq(parts) = flat[n]
    BY <1>10 DEF FlattenSeq, n, flat
  <2> QED
    BY <2>2, <2>3 DEF n
<1> QED
  BY <1>9, <1>10

LEMMA FlattenType ==
    ASSUME NEW parts \in Seq(Seq(Byte))
    PROVE  FlattenSeq(parts) \in Seq(Byte)
<1>1. PICK f \in [0 .. Len(parts) -> Seq(Byte)] : Joins(f, parts)
  BY JoinsExist
<1>2. Len(parts) \in 0 .. Len(parts)
  BY LenProperties
<1> QED
  BY <1>1, <1>2, FlattenIs

\* One part more, at the end.
LEMMA FlattenAppend ==
    ASSUME NEW parts \in Seq(Seq(Byte)), NEW p \in Seq(Byte)
    PROVE  FlattenSeq(Append(parts, p)) = FlattenSeq(parts) \o p
<1>. DEFINE n == Len(parts)
            m == n + 1
            all == Append(parts, p)
<1>1. PICK f \in [0 .. n -> Seq(Byte)] : Joins(f, parts)
  BY JoinsExist
<1>2. /\ n \in Nat /\ m \in Nat /\ all \in Seq(Seq(Byte)) /\ Len(all) = m /\ all[m] = p
      /\ \A i \in 1 .. n : all[i] = parts[i]
  BY LenProperties, AppendProperties
<1>. DEFINE g == [i \in 0 .. m |-> IF i = m THEN f[n] \o p ELSE f[i]]
<1>3. f[n] \in Seq(Byte) /\ f[n] \o p \in Seq(Byte)
  <2>1. n \in 0 .. n
    BY <1>2
  <2>2. f[n] \in Seq(Byte)
    BY <2>1
  <2> QED
    BY <2>2, ConcatProperties
<1>4. FlattenSeq(parts) = f[n]
  BY <1>1, FlattenIs
<1>. HIDE DEF all
<1>5. Joins(g, all)
  <2>0. f[0] = <<>> /\ \A i \in 1 .. n : f[i] = f[i - 1] \o parts[i]
    BY <1>1 DEF Joins
  <2>1. g[0] = <<>>
    BY <1>2, <2>0
  <2>2. ASSUME NEW i \in 1 .. m
        PROVE  g[i] = g[i - 1] \o all[i]
    <3>1. CASE i = m
      <4>1. i \in 0 .. m /\ i - 1 = n /\ n \in 0 .. m /\ n # m
        BY <1>2, <3>1
      <4>2. g[i] = f[n] \o p /\ g[n] = f[n]
        BY <3>1, <4>1
      <4> QED
        BY <1>2, <3>1, <4>1, <4>2
    <3>2. CASE i # m
      <4>1. i \in 1 .. n /\ i \in 0 .. m /\ i - 1 \in 0 .. m /\ i - 1 # m
        BY <1>2, <3>2
      <4> QED
        BY <1>2, <2>0, <3>2, <4>1
    <3> QED
      BY <3>1, <3>2
  <2> QED
    BY <1>2, <2>1, <2>2 DEF Joins
<1>6. g \in [0 .. Len(all) -> Seq(Byte)]
  BY <1>2, <1>3
<1>7. g[m] = f[n] \o p
  BY <1>2
<1>. HIDE DEF g
<1>8. FlattenSeq(all) = g[Len(all)]
  BY <1>2, <1>5, <1>6, FlattenIs
<1> QED
  BY <1>2, <1>4, <1>7, <1>8 DEF all

\* One part more, in front.
LEMMA FlattenFront ==
    ASSUME NEW parts \in Seq(Seq(Byte)), NEW p \in Seq(Byte), NEW all \in Seq(Seq(Byte)),
           Len(all) = Len(parts) + 1, all[1] = p,
           \A i \in 1 .. Len(parts) : all[i + 1] = parts[i]
    PROVE  FlattenSeq(all) = p \o FlattenSeq(parts)
<1>. DEFINE n == Len(parts)
            m == n + 1
<1>1. PICK f \in [0 .. n -> Seq(Byte)] : Joins(f, parts)
  BY JoinsExist
<1>2. n \in Nat /\ m \in Nat /\ \A i \in 1 .. n : parts[i] \in Seq(Byte)
  BY LenProperties, ElementOfSeq
<1>. DEFINE g == [i \in 0 .. m |-> IF i = 0 THEN <<>> ELSE p \o f[i - 1]]
<1>4. FlattenSeq(parts) = f[n]
  BY <1>1, FlattenIs
<1>0. f[0] = <<>> /\ \A i \in 1 .. n : f[i] = f[i - 1] \o parts[i]
  BY <1>1 DEF Joins
<1>5. Joins(g, all)
  <2>1. g[0] = <<>>
    BY <1>2
  <2>2. ASSUME NEW i \in 1 .. m
        PROVE  g[i] = g[i - 1] \o all[i]
    <3>1. CASE i = 1
      <4>1. g[i] = p \o f[0] /\ g[i - 1] = <<>> /\ all[i] = p
        BY <1>2, <3>1
      <4>2. p \o <<>> = p /\ <<>> \o p = p
        BY ConcatEmptySeq
      <4> QED
        BY <1>0, <4>1, <4>2
    <3>2. CASE i # 1
      <4>. DEFINE j == i - 1
                  h == j - 1
      <4>1. i \in 0 .. m /\ j \in 1 .. n /\ j \in 0 .. m /\ h \in 0 .. n /\ i = j + 1 /\ i # 0 /\ j # 0
        BY <1>2, <3>2
      <4>2. g[i] = p \o f[j] /\ g[j] = p \o f[h]
        BY <4>1
      <4>3. all[i] = parts[j] /\ f[j] = f[h] \o parts[j] /\ parts[j] \in Seq(Byte) /\ f[h] \in Seq(Byte)
        BY <1>0, <1>2, <4>1
      <4>. HIDE DEF j, h, g
      <4>4. (p \o f[h]) \o parts[j] = p \o (f[h] \o parts[j])
        BY <4>3, BytesAssociate
      <4>5. g[i] = g[j] \o all[i]
        BY <4>2, <4>3, <4>4
      <4> QED
        BY <4>5 DEF j
    <3> QED
      BY <3>1, <3>2
  <2> QED
    BY <1>2, <2>1, <2>2 DEF Joins
<1>6. g \in [0 .. Len(all) -> Seq(Byte)]
  <2>1. ASSUME NEW i \in 0 .. m
        PROVE  g[i] \in Seq(Byte)
    <3>1. CASE i = 0
      BY <3>1, EmptySeq
    <3>2. CASE i # 0
      <4>1. i - 1 \in 0 .. n
        BY <1>2, <3>2
      <4>2. f[i - 1] \in Seq(Byte)
        BY <4>1
      <4>3. p \o f[i - 1] \in Seq(Byte)
        BY <4>2, ConcatProperties
      <4> QED
        BY <3>2, <4>3
    <3> QED
      BY <3>1, <3>2
  <2>2. g = [i \in 0 .. m |-> g[i]] /\ m = Len(all)
    OBVIOUS
  <2>. HIDE DEF g
  <2> QED
    BY <2>1, <2>2
<1>7. g[m] = p \o f[n]
  BY <1>2
<1>. HIDE DEF g
<1>8. FlattenSeq(all) = g[Len(all)]
  BY <1>5, <1>6, FlattenIs
<1> QED
  BY <1>4, <1>7, <1>8

-----------------------------------------------------------------------------
(* Texts.                                                                  *)

Chars == DOMAIN Utf8

LEMMA CodeIs ==
    ASSUME NEW c \in Chars
    PROVE  Utf8[c] \in Seq(Byte) /\ Len(Utf8[c]) \in Nat \ {0}
<1>1. Utf8[c] \in Seq(Byte) /\ Len(Utf8[c]) \in 1 .. 4
  BY FieldsAssumption, Zenon DEF Chars
<1>. DEFINE k == Len(Utf8[c])
<1>2. k \in Nat \ {0}
  <2>1. k \in 1 .. 4
    BY <1>1
  <2>. HIDE DEF k
  <2> QED
    BY <2>1
<1> QED
  BY <1>1, <1>2

\* The code of each character of a text.
Codes(text) == [n \in DOMAIN text |-> Utf8[text[n]]]

LEMMA CodesAre ==
    ASSUME NEW text \in Seq(Chars)
    PROVE  /\ Codes(text) \in Seq(Seq(Byte)) /\ Len(Codes(text)) = Len(text)
           /\ \A i \in 1 .. Len(text) : Codes(text)[i] = Utf8[text[i]]
<1>. DEFINE n == Len(text)
<1>1. n \in Nat /\ DOMAIN text = 1 .. n /\ \A i \in 1 .. n : text[i] \in Chars
  BY LenProperties, ElementOfSeq
<1>. HIDE DEF n
<1>2. \A i \in 1 .. n : Utf8[text[i]] \in Seq(Byte)
  BY <1>1, CodeIs
<1>3. Codes(text) \in [1 .. n -> Seq(Byte)] /\ \A i \in 1 .. n : Codes(text)[i] = Utf8[text[i]]
  BY <1>1, <1>2 DEF Codes
<1>4. Codes(text) \in Seq(Seq(Byte)) /\ Len(Codes(text)) = n
  BY <1>1, <1>3, SeqOfFunction
<1> QED
  BY <1>3, <1>4 DEF n

LEMMA TextBytesType ==
    ASSUME NEW text \in Seq(Chars)
    PROVE  TextBytes(text) \in Seq(Byte)
<1>1. TextBytes(text) = FlattenSeq(Codes(text))
  BY DEF TextBytes, Codes
<1> QED
  BY <1>1, CodesAre, FlattenType

\* No character has no bytes, and another one in front puts its own before them.
LEMMA TextBytesEmpty == TextBytes(<<>>) = <<>>
<1>1. <<>> \in Seq(Chars) /\ Len(<<>>) = 0
  BY EmptySeq
<1>2. Codes(<<>>) \in Seq(Seq(Byte)) /\ Len(Codes(<<>>)) = 0
  BY <1>1, CodesAre
<1>3. Codes(<<>>) = <<>>
  BY <1>2, EmptySeq
<1> QED
  BY <1>2, <1>3 DEF TextBytes, Codes, FlattenSeq

LEMMA TextBytesFront ==
    ASSUME NEW c \in Chars, NEW text \in Seq(Chars)
    PROVE  <<c>> \o text \in Seq(Chars) /\ TextBytes(<<c>> \o text) = Utf8[c] \o TextBytes(text)
<1>. DEFINE one == <<c>>
            all == one \o text
            n == Len(text)
<1>1. one \in Seq(Chars) /\ Len(one) = 1 /\ one[1] = c /\ n \in Nat
  BY LenProperties
<1>. HIDE DEF one
<1>2. all \in Seq(Chars)
  BY <1>1, ConcatProperties
<1>3. Len(all) = 1 + n
  BY <1>1, ConcatProperties
<1>4. \A i \in 1 .. 1 + n : all[i] = IF i <= 1 THEN one[i] ELSE text[i - 1]
  <2>1. \A i \in 1 .. Len(one) + Len(text) :
           all[i] = IF i <= Len(one) THEN one[i] ELSE text[i - Len(one)]
    BY <1>1, ConcatProperties
  <2> QED
    BY <1>1, <2>1
<1>. HIDE DEF all, n
<1>5. all[1] = c
  BY <1>1, <1>4
<1>6. ASSUME NEW i \in 1 .. n
      PROVE  all[i + 1] = text[i]
  <2>. DEFINE j == i + 1
  <2>1. j \in 1 .. 1 + n /\ ~ j <= 1 /\ j - 1 = i
    BY <1>1
  <2>. HIDE DEF j
  <2>2. all[j] = text[i]
    BY <1>4, <2>1
  <2> QED
    BY <2>2 DEF j
<1>7. /\ Codes(text) \in Seq(Seq(Byte)) /\ Len(Codes(text)) = n
      /\ \A i \in 1 .. n : Codes(text)[i] = Utf8[text[i]]
  BY CodesAre DEF n
<1>8. /\ Codes(all) \in Seq(Seq(Byte)) /\ Len(Codes(all)) = n + 1
      /\ \A i \in 1 .. n + 1 : Codes(all)[i] = Utf8[all[i]]
  BY <1>1, <1>2, <1>3, CodesAre
<1>9. Codes(all)[1] = Utf8[c]
  BY <1>1, <1>5, <1>8
<1>10. ASSUME NEW i \in 1 .. n
       PROVE  Codes(all)[i + 1] = Codes(text)[i]
  <2>. DEFINE j == i + 1
  <2>1. j \in 1 .. n + 1 /\ all[j] = text[i]
    BY <1>1, <1>6
  <2>. HIDE DEF j
  <2>2. Codes(all)[j] = Codes(text)[i]
    BY <1>7, <1>8, <2>1
  <2> QED
    BY <2>2 DEF j
<1>11. FlattenSeq(Codes(all)) = Utf8[c] \o FlattenSeq(Codes(text))
  <2>1. Utf8[c] \in Seq(Byte)
    BY CodeIs
  <2>. DEFINE p == Utf8[c]
              a == Codes(all)
              b == Codes(text)
  <2>2. a \in Seq(Seq(Byte)) /\ b \in Seq(Seq(Byte)) /\ p \in Seq(Byte) /\ Len(a) = Len(b) + 1
        /\ a[1] = p /\ \A i \in 1 .. Len(b) : a[i + 1] = b[i]
    BY <1>7, <1>8, <1>9, <1>10, <2>1
  <2>. HIDE DEF a, b, p
  <2>3. FlattenSeq(a) = p \o FlattenSeq(b)
    BY <2>2, FlattenFront
  <2> QED
    BY <2>3 DEF a, b, p
<1>12. TextBytes(all) = FlattenSeq(Codes(all)) /\ TextBytes(text) = FlattenSeq(Codes(text))
  BY DEF TextBytes, Codes
<1> QED
  BY <1>2, <1>11, <1>12 DEF all, one

\* A character's code stands at a place of some bytes.
CodeAt(bytes, c, i) ==
    /\ i + Len(Utf8[c]) - 1 <= Len(bytes)
    /\ SubSeq(bytes, i, i + Len(Utf8[c]) - 1) = Utf8[c]

\* The texts of the bytes from a place on, by those from later places on.
TextsFrom(g, bytes, i) ==
    IF i > Len(bytes) THEN {<<>>}
    ELSE UNION {{<<c>> \o t : t \in g[i + Len(Utf8[c])]} : c \in {d \in Chars : CodeAt(bytes, d, i)}}

\* Its first character, and one of those.
TextThere(x, g, bytes, i) ==
    \E c \in Chars : CodeAt(bytes, c, i) /\ \E t \in g[i + Len(Utf8[c])] : x = <<c>> \o t

LEMMA TextsFromIs ==
    ASSUME NEW bytes \in Seq(Byte), NEW g, NEW i \in 1 .. Len(bytes), NEW x
    PROVE  x \in TextsFrom(g, bytes, i) <=> TextThere(x, g, bytes, i)
<1>1. ~ i > Len(bytes)
  BY LenProperties
<1>2. TextsFrom(g, bytes, i) =
         UNION {{<<c>> \o t : t \in g[i + Len(Utf8[c])]} : c \in {d \in Chars : CodeAt(bytes, d, i)}}
  BY <1>1, Zenon DEF TextsFrom
<1>. DEFINE Part(c) == {<<c>> \o t : t \in g[i + Len(Utf8[c])]}
            There == {d \in Chars : CodeAt(bytes, d, i)}
<1>3. \A c : x \in Part(c) <=> \E t \in g[i + Len(Utf8[c])] : x = <<c>> \o t
  OBVIOUS
<1>4. \A c : c \in There <=> c \in Chars /\ CodeAt(bytes, c, i)
  OBVIOUS
<1>5. TextsFrom(g, bytes, i) = UNION {Part(c) : c \in There}
  BY <1>2
<1>. HIDE DEF Part, There
<1>6. x \in TextsFrom(g, bytes, i) <=> \E c \in There : x \in Part(c)
  BY <1>5
<1> QED
  BY <1>3, <1>4, <1>6, Zenon DEF TextThere

\* They depend on nothing else.
LEMMA TextsFromAgree ==
    ASSUME NEW bytes \in Seq(Byte), NEW g, NEW h, NEW i \in 1 .. Len(bytes) + 1,
           \A j \in i + 1 .. Len(bytes) + 1 : g[j] = h[j]
    PROVE  TextsFrom(g, bytes, i) = TextsFrom(h, bytes, i)
<1>. DEFINE m == Len(bytes)
<1>0. m \in Nat
  BY LenProperties
<1>1. CASE i = m + 1
  <2>1. i > Len(bytes)
    BY <1>0, <1>1
  <2> QED
    BY <2>1, Zenon DEF TextsFrom
<1>2. CASE i # m + 1
  <2>1. i \in 1 .. Len(bytes)
    BY <1>0, <1>2
  <2>2. ASSUME NEW c \in Chars, CodeAt(bytes, c, i)
        PROVE  g[i + Len(Utf8[c])] = h[i + Len(Utf8[c])]
    <3>. DEFINE k == Len(Utf8[c])
                j == i + k
    <3>1. k \in Nat \ {0} /\ i + k - 1 <= m
      BY <2>2, CodeIs DEF CodeAt
    <3>2. j \in i + 1 .. m + 1
      <4>. HIDE DEF k, m
      <4>1. i \in 1 .. m + 1
        BY DEF m
      <4> QED
        BY <1>0, <3>1, <4>1
    <3>. HIDE DEF j
    <3>3. g[j] = h[j]
      BY <3>2
    <3> QED
      BY <3>3 DEF j
  <2>3. ASSUME NEW x
        PROVE  x \in TextsFrom(g, bytes, i) <=> x \in TextsFrom(h, bytes, i)
    <3>1. x \in TextsFrom(g, bytes, i) <=> TextThere(x, g, bytes, i)
      BY <2>1, TextsFromIs, Zenon
    <3>2. x \in TextsFrom(h, bytes, i) <=> TextThere(x, h, bytes, i)
      BY <2>1, TextsFromIs, Zenon
    <3> QED
      BY <2>2, <3>1, <3>2, Zenon DEF TextThere
  <2> QED
    BY <2>3, Zenon
<1> QED
  BY <1>1, <1>2

\* The recursion of from_utf8 is well founded: it starts at the end.
LEMMA TextsOfFrom ==
    ASSUME NEW bytes \in Seq(Byte)
    PROVE  \E from : /\ TextsOf(bytes) = from[1]
                     /\ \A i \in 1 .. Len(bytes) + 1 : from[i] = TextsFrom(from, bytes, i)
<1>. DEFINE m == Len(bytes)
            Value(g, i) == TextsFrom(g, bytes, i)
            Body(g) == [i \in 1 .. m + 1 |-> Value(g, i)]
            from == CHOOSE g : g = Body(g)
<1>1. m \in Nat
  BY LenProperties
<1>2. TextsOf(bytes) = from[1]
  BY DEF TextsOf, TextsFrom, CodeAt, Chars
<1>3. ASSUME NEW g, NEW h, NEW i \in 1 .. m + 1, \A j \in i + 1 .. m + 1 : g[j] = h[j]
      PROVE  Value(g, i) = Value(h, i)
  BY <1>3, TextsFromAgree
<1>. HIDE DEF m, Value
<1>. DEFINE Places(k) == m + 1 - k .. m + 1
            Right(g, k) == \A i \in Places(k) : g[i] = Value(g, i)
            K == {k \in 0 .. m : \E g : Right(g, k)}
<1>4. 0 \in K
  <2>. DEFINE z == 0
              g == [i \in Places(z) |-> Value(<<>>, m + 1)]
  <2>1. z \in 0 .. m /\ Places(z) = {m + 1} /\ m + 1 \in 1 .. m + 1 /\ (m + 1) + 1 .. m + 1 = {}
    BY <1>1
  <2>2. g[m + 1] = Value(<<>>, m + 1)
    BY <2>1
  <2>. HIDE DEF g
  <2>3. Value(g, m + 1) = Value(<<>>, m + 1)
    BY <1>3, <2>1
  <2>4. Right(g, z)
    BY <2>1, <2>2, <2>3
  <2>. HIDE DEF z, Right
  <2>5. z \in K
    BY <2>1, <2>4
  <2> QED
    BY <2>5 DEF z
<1>5. ASSUME NEW k \in 0 .. m - 1, k \in K
      PROVE  k + 1 \in K
  <2>1. PICK g : Right(g, k)
    BY <1>5
  <2>. DEFINE n == m - k
              j == k + 1
              h == [i \in Places(j) |-> IF i = n THEN Value(g, n) ELSE g[i]]
  <2>2. /\ j \in 0 .. m /\ n \in 1 .. m + 1 /\ n \in Places(j) /\ n \notin Places(k)
        /\ \A i \in Places(j) : i # n => i \in Places(k)
        /\ \A i \in Places(k) : i \in Places(j)
        /\ \A i \in Places(j) : i \in 1 .. m + 1 /\ \A l \in i + 1 .. m + 1 : l \in Places(k)
    BY <1>1
  <2>3. \A i \in Places(k) : h[i] = g[i]
    BY <2>2
  <2>4. h[n] = Value(g, n) /\ \A i \in Places(k) : g[i] = Value(g, i)
    BY <2>1, <2>2
  <2>. HIDE DEF n, j, h, Places
  <2>5. ASSUME NEW i \in Places(j)
        PROVE  h[i] = Value(h, i)
    <3>1. h[i] = Value(g, i)
      BY <2>2, <2>3, <2>4
    <3>2. i \in 1 .. m + 1 /\ \A l \in i + 1 .. m + 1 : g[l] = h[l]
      BY <2>2, <2>3
    <3>3. Value(g, i) = Value(h, i)
      BY <1>3, <3>2
    <3> QED
      BY <3>1, <3>3
  <2>6. Right(h, j)
    BY <2>5
  <2>7. j \in K
    BY <2>2, <2>6
  <2> QED
    BY <2>7 DEF j
<1>6. \E g : Right(g, m)
  <2>. HIDE DEF K
  <2>1. \A k \in 0 .. m : k \in K
    BY <1>1, <1>4, <1>5, InductionUpTo
  <2> QED
    BY <1>1, <2>1 DEF K
<1>7. from = Body(from)
  <2>1. PICK g : Right(g, m)
    BY <1>6
  <2>. DEFINE h == [i \in 1 .. m + 1 |-> g[i]]
  <2>2. Places(m) = 1 .. m + 1
    BY <1>1
  <2>3. \A i \in 1 .. m + 1 : h[i] = Value(g, i)
    BY <2>1, <2>2
  <2>4. ASSUME NEW i \in 1 .. m + 1
        PROVE  h[i] = Value(h, i)
    <3>1. \A j \in i + 1 .. m + 1 : g[j] = h[j]
      <4>1. \A j \in i + 1 .. m + 1 : j \in 1 .. m + 1
        BY <1>1
      <4> QED
        BY <4>1
    <3>2. Value(g, i) = Value(h, i)
      <4>. HIDE DEF h
      <4> QED
        BY <1>3, <3>1
    <3> QED
      BY <2>3, <3>2
  <2>5. h = Body(h)
    <3>1. h = [i \in 1 .. m + 1 |-> h[i]]
      OBVIOUS
    <3>. HIDE DEF h
    <3> QED
      BY <2>4, <3>1
  <2>. HIDE DEF Body, h
  <2> QED
    BY <2>5
<1>. HIDE DEF from
<1>8. \A i \in 1 .. m + 1 : from[i] = Value(from, i)
  BY <1>7
<1> QED
  BY <1>2, <1>8 DEF m, Value

\* Every text that is found in some bytes is written as these bytes.
LEMMA TextsOfAre ==
    ASSUME NEW bytes \in Seq(Byte), NEW text \in TextsOf(bytes)
    PROVE  text \in Seq(Chars) /\ TextBytes(text) = bytes
<1>. DEFINE m == Len(bytes)
            End(i) == SubSeq(bytes, i, m)
<1>1. m \in Nat /\ \A i \in 1 .. m : bytes[i] \in Byte
  BY LenProperties, ElementOfSeq
<1>2. PICK from : /\ TextsOf(bytes) = from[1]
                  /\ \A i \in 1 .. m + 1 : from[i] = TextsFrom(from, bytes, i)
  BY TextsOfFrom
<1>. DEFINE Good(i) == \A t \in from[i] : t \in Seq(Chars) /\ TextBytes(t) = End(i)
            K == {k \in 0 .. m : \A i \in m + 1 - k .. m + 1 : Good(i)}
<1>3. Good(m + 1)
  <2>. DEFINE i == m + 1
  <2>1. i \in 1 .. m + 1 /\ i > Len(bytes) /\ i \in Int /\ m \in Int /\ m < i
    BY <1>1
  <2>. HIDE DEF i
  <2>2. from[i] = {<<>>}
    BY <1>2, <2>1 DEF TextsFrom
  <2>3. End(i) = <<>>
    <3>. HIDE DEF m
    <3> QED
      BY <2>1, SubSeqEmpty
  <2>4. <<>> \in Seq(Chars)
    BY EmptySeq
  <2>5. Good(i)
    BY <2>2, <2>3, <2>4, TextBytesEmpty
  <2> QED
    BY <2>5 DEF i
<1>4. ASSUME NEW i \in 1 .. m, \A j \in i + 1 .. m + 1 : Good(j)
      PROVE  Good(i)
  <2> SUFFICES ASSUME NEW t \in from[i]
               PROVE  t \in Seq(Chars) /\ TextBytes(t) = End(i)
    OBVIOUS
  <2>1. i \in 1 .. m + 1 /\ i \in 1 .. Len(bytes)
    BY <1>1
  <2>2. TextThere(t, from, bytes, i)
    <3>1. t \in TextsFrom(from, bytes, i)
      BY <1>2, <2>1
    <3> QED
      BY <2>1, <3>1, TextsFromIs, Zenon
  <2>3. PICK c \in Chars : CodeAt(bytes, c, i) /\ \E s \in from[i + Len(Utf8[c])] : t = <<c>> \o s
    BY <2>2, Zenon DEF TextThere
  <2>. DEFINE k == Len(Utf8[c])
              j == i + k
              l == j - 1
  <2>4. k \in Nat \ {0} /\ i + k - 1 <= m
    BY <2>3, CodeIs DEF CodeAt
  <2>5. j \in i + 1 .. m + 1 /\ l \in i - 1 .. m /\ m \in l .. m /\ l + 1 = j /\ l = i + k - 1
    <3>. HIDE DEF k, m
    <3> QED
      BY <1>1, <2>4
  <2>6. SubSeq(bytes, i, l) = Utf8[c]
    BY <2>3, <2>5, Zenon DEF CodeAt
  <2>7. PICK s \in from[j] : t = <<c>> \o s
    BY <2>3
  <2>8. SubSeq(bytes, i, l) \o SubSeq(bytes, l + 1, m) = SubSeq(bytes, i, m)
    <3>. HIDE DEF l, j, k
    <3> QED
      BY <2>1, <2>5, ConcatAdjacentSubSeq
  <2>. HIDE DEF j, k, l
  <2>9. s \in Seq(Chars) /\ TextBytes(s) = End(j)
    BY <1>4, <2>5
  <2>10. t \in Seq(Chars) /\ TextBytes(t) = Utf8[c] \o TextBytes(s)
    BY <2>7, <2>9, TextBytesFront
  <2> QED
    BY <2>5, <2>6, <2>8, <2>9, <2>10
<1>. HIDE DEF Good
<1>5. 0 \in K
  BY <1>1, <1>3
<1>6. ASSUME NEW k \in 0 .. m - 1, k \in K
      PROVE  k + 1 \in K
  <2>. DEFINE n == m - k
              j == k + 1
  <2>1. /\ j \in 0 .. m /\ n \in 1 .. m /\ m + 1 - j = n /\ m + 1 - k = n + 1
        /\ \A i \in n .. m + 1 : i = n \/ i \in n + 1 .. m + 1
    BY <1>1, <1>6
  <2>2. \A i \in n + 1 .. m + 1 : Good(i)
    BY <1>6, <2>1
  <2>. HIDE DEF n, j
  <2>3. Good(n)
    BY <1>4, <2>1, <2>2
  <2>4. \A i \in m + 1 - j .. m + 1 : Good(i)
    BY <2>1, <2>2, <2>3
  <2>5. j \in K
    BY <2>1, <2>4
  <2> QED
    BY <2>5 DEF j
<1>7. Good(1)
  <2>1. \A k \in 0 .. m : k \in K
    <3>. HIDE DEF K, m
    <3> QED
      BY <1>1, <1>5, <1>6, InductionUpTo
  <2>2. m \in 0 .. m /\ 1 \in m + 1 - m .. m + 1
    BY <1>1
  <2> QED
    BY <2>1, <2>2
<1>8. End(1) = bytes
  BY SubSeqFull
<1> QED
  BY <1>2, <1>7, <1>8 DEF Good

-----------------------------------------------------------------------------
(* Bytes in the other order, and positions.                                *)

\* Twice the other way round is as it was.
LEMMA BigEndianIs ==
    ASSUME NEW bytes \in Seq(Byte)
    PROVE  /\ BigEndian(bytes) \in Seq(Byte) /\ Len(BigEndian(bytes)) = Len(bytes)
           /\ BigEndian(BigEndian(bytes)) = bytes
<1>. DEFINE n == Len(bytes)
            back == BigEndian(bytes)
<1>1. n \in Nat /\ DOMAIN bytes = 1 .. n /\ bytes = [i \in 1 .. n |-> bytes[i]]
      /\ \A i \in 1 .. n : bytes[i] \in Byte
  BY LenProperties, ElementOfSeq
<1>2. back = [i \in 1 .. n |-> bytes[n + 1 - i]]
  BY <1>1 DEF BigEndian
<1>. HIDE DEF n, back
<1>3. \A i \in 1 .. n : n + 1 - i \in 1 .. n /\ n + 1 - (n + 1 - i) = i
  BY <1>1
<1>4. back \in [1 .. n -> Byte]
  BY <1>1, <1>2, <1>3
<1>5. back \in Seq(Byte) /\ Len(back) = n /\ DOMAIN back = 1 .. n
  BY <1>1, <1>4, SeqOfFunction
<1>6. BigEndian(back) = [i \in 1 .. n |-> back[n + 1 - i]]
  BY <1>5 DEF BigEndian
<1>7. ASSUME NEW i \in 1 .. n
      PROVE  back[n + 1 - i] = bytes[i]
  <2>. DEFINE j == n + 1 - i
  <2>1. j \in 1 .. n /\ n + 1 - j = i
    BY <1>3
  <2>. HIDE DEF j
  <2>2. back[j] = bytes[i]
    BY <1>2, <2>1
  <2> QED
    BY <2>2 DEF j
<1>8. BigEndian(back) = bytes
  BY <1>1, <1>6, <1>7
<1> QED
  BY <1>5, <1>8 DEF back, n

\* A byte, as a number below a power of two.
LEMMA ByteBitsAre == ByteBits \in Nat /\ 2^ByteBits = 2 * Base /\ Byte = 0 .. 2^ByteBits - 1
<1>1. Group \in Nat /\ Base = 2^Group /\ Base \in Nat
  BY VarintAssumption, PlaceIs
<1>2. 2^(Group + 1) = 2^Group * 2^1
  BY <1>1, TwoSum
<1>. DEFINE b == 2^(Group + 1)
<1>3. b = Base * 2
  BY <1>1, <1>2, TwoValues
<1>. HIDE DEF b
<1>4. b = 2 * Base
  BY <1>1, <1>3
<1>5. 2^ByteBits = 2 * Base
  BY <1>4 DEF b, ByteBits
<1> QED
  BY <1>1, <1>5 DEF Byte, ByteBits

LEMMA PositionBytesAre ==
    PositionBytes \in Nat /\ 2^(ByteBits * PositionBytes) = XZSize * XZSize * YSize
<1>1. \E n \in 1 .. 8 : 2^(ByteBits * n) = XZSize * XZSize * YSize
  BY FieldsAssumption, Zenon
<1>2. PositionBytes \in 1 .. 8 /\ 2^(ByteBits * PositionBytes) = XZSize * XZSize * YSize
  BY <1>1, Zenon DEF PositionBytes
<1>. DEFINE n == PositionBytes
<1>3. n \in Nat
  <2>1. n \in 1 .. 8
    BY <1>2
  <2>. HIDE DEF n
  <2> QED
    BY <2>1
<1> QED
  BY <1>2, <1>3

\* The number that some bytes make, and its bytes.
LEMMA LongOf ==
    ASSUME NEW k \in Nat, NEW d \in [1 .. k -> Byte]
    PROVE  \E sum \in [0 .. k -> Nat] : AddsUp(sum, d, ByteBits, k)
<1>. DEFINE w == [i \in 1 .. k |-> d[i] * 2^(ByteBits * (i - 1))]
<1>1. ASSUME NEW i \in 1 .. k
      PROVE  d[i] * 2^(ByteBits * (i - 1)) \in Nat
  <2>. DEFINE e == ByteBits * (i - 1)
              x == d[i]
              y == 2^e
  <2>1. e \in Nat
    BY ByteBitsAre, SMT
  <2>2. x \in Nat
    BY ByteIs
  <2>. HIDE DEF e
  <2>3. y \in Nat
    BY <2>1, TwoPositive
  <2>. HIDE DEF x, y
  <2>4. x * y \in Nat
    BY <2>2, <2>3, SMT
  <2> QED
    BY <2>4 DEF x, y, e
<1>2. w \in [1 .. k -> Nat]
  BY <1>1
<1>3. \A i \in 1 .. k : w[i] = d[i] * 2^(ByteBits * (i - 1))
  OBVIOUS
<1>. HIDE DEF w
<1>4. PICK f \in [0 .. k -> Nat] : f[0] = 0 /\ \A n \in 1 .. k : f[n] = f[n - 1] + w[n]
  BY <1>2, SumsExist
<1> QED
  BY <1>3, <1>4 DEF AddsUp

LEMMA LongIs ==
    ASSUME NEW k \in Nat, NEW d \in [1 .. k -> Byte], NEW sum, AddsUp(sum, d, ByteBits, k)
    PROVE  \A n \in 0 .. k : sum[n] \in Nat
<1>1. PICK f \in [0 .. k -> Nat] : AddsUp(f, d, ByteBits, k)
  BY LongOf
<1>. DEFINE S == {n \in 0 .. k : sum[n] = f[n]}
<1>2. 0 \in S
  BY <1>1 DEF AddsUp
<1>3. ASSUME NEW n \in 0 .. k - 1, n \in S
      PROVE  n + 1 \in S
  <2>. DEFINE j == n + 1
  <2>1. j \in 1 .. k /\ j - 1 = n /\ j \in 0 .. k
    BY <1>3
  <2>. HIDE DEF j
  <2>2. sum[j] = sum[n] + d[j] * 2^(ByteBits * (j - 1)) /\ f[j] = f[n] + d[j] * 2^(ByteBits * (j - 1))
    BY <1>1, <2>1, Zenon DEF AddsUp
  <2>3. sum[j] = f[j]
    BY <1>3, <2>2, Zenon
  <2>4. j \in S
    BY <2>1, <2>3
  <2> QED
    BY <2>4 DEF j
<1>4. \A n \in 0 .. k : n \in S
  <2>. HIDE DEF S
  <2> QED
    BY <1>2, <1>3, InductionUpTo
<1> QED
  BY <1>4

\* read_position, when there are enough bytes: the number they make, decoded.
LEMMA ReadPositionIs ==
    ASSUME NEW bytes \in Seq(Byte), ReadPosition(bytes).ok
    PROVE  /\ PositionBytes \in 0 .. Len(bytes)
           /\ ReadPosition(bytes).used = PositionBytes
           /\ \E sum \in [0 .. PositionBytes -> Nat] :
                 /\ AddsUp(sum, BigEndian(SubSeq(bytes, 1, PositionBytes)), ByteBits, PositionBytes)
                 /\ ReadPosition(bytes).value = DecodeBlock(sum[PositionBytes])
<1>. DEFINE N == PositionBytes
            r == ReadFixed(bytes, N)
            d == BigEndian(SubSeq(bytes, 1, N))
            Body(v, g) == [n \in 0 .. N |-> IF n = 0 THEN 0 ELSE g[n - 1] + v[n] * 2^(ByteBits * (n - 1))]
            Long(v) == CHOOSE g : g = Body(v, g)
            long == Long(d)
<1>1. ReadPosition(bytes) = IF r.ok THEN Taken(DecodeBlock(Long(r.value)[N]), r.used) ELSE Refused
  BY DEF ReadPosition
<1>2. r.ok
  BY <1>1 DEF Refused
<1>3. N \in 0 .. Len(bytes) /\ r.value = d /\ r.used = N
  BY <1>2 DEF ReadFixed, Taken, Refused
<1>4. ReadPosition(bytes).used = N /\ ReadPosition(bytes).value = DecodeBlock(long[N])
  <2>. HIDE DEF r, Long, d, N
  <2> QED
    BY <1>1, <1>2, <1>3 DEF Taken
<1>5. N \in Nat
  BY PositionBytesAre
<1>. HIDE DEF N
<1>6. d \in [1 .. N -> Byte]
  <2>1. SubSeq(bytes, 1, N) \in Seq(Byte) /\ Len(SubSeq(bytes, 1, N)) = N
    BY <1>3, Cut
  <2>2. d \in Seq(Byte) /\ Len(d) = N
    BY <2>1, BigEndianIs
  <2>. HIDE DEF d
  <2> QED
    BY <2>2
<1>. HIDE DEF d
<1>7. PICK f \in [0 .. N -> Nat] : AddsUp(f, d, ByteBits, N)
  BY <1>5, <1>6, LongOf
<1>8. f = Body(d, f)
  <2>1. ASSUME NEW n \in 0 .. N
        PROVE  f[n] = IF n = 0 THEN 0 ELSE f[n - 1] + d[n] * 2^(ByteBits * (n - 1))
    <3>1. CASE n = 0
      BY <1>7, <3>1 DEF AddsUp
    <3>2. CASE n # 0
      <4>1. n \in 1 .. N
        BY <1>5, <3>2
      <4>2. f[n] = f[n - 1] + d[n] * 2^(ByteBits * (n - 1))
        BY <1>7, <4>1, Zenon DEF AddsUp
      <4> QED
        BY <3>2, <4>2, Zenon
    <3> QED
      BY <3>1, <3>2
  <2>2. f = [n \in 0 .. N |-> f[n]]
    OBVIOUS
  <2> QED
    BY <2>1, <2>2, Zenon
<1>9. long = Body(d, long)
  <2>. HIDE DEF Body
  <2> QED
    BY <1>8
<1>. HIDE DEF long
<1>10. AddsUp(long, d, ByteBits, N)
  <2>1. \A n \in 0 .. N : long[n] = IF n = 0 THEN 0 ELSE long[n - 1] + d[n] * 2^(ByteBits * (n - 1))
    BY <1>9, Zenon
  <2>2. 0 \in 0 .. N /\ \A n \in 1 .. N : n \in 0 .. N /\ n # 0
    BY <1>5
  <2> QED
    BY <2>1, <2>2, Zenon DEF AddsUp
<1>11. long \in [0 .. N -> Nat]
  <2>1. \A n \in 0 .. N : long[n] \in Nat
    BY <1>5, <1>6, <1>10, LongIs
  <2>2. long = [n \in 0 .. N |-> long[n]]
    <3>1. DOMAIN Body(d, long) = 0 .. N /\ Body(d, long) = [n \in 0 .. N |-> Body(d, long)[n]]
      OBVIOUS
    <3>. HIDE DEF Body
    <3> QED
      BY <1>9, <3>1, Zenon
  <2> QED
    BY <2>1, <2>2
<1> QED
  BY <1>3, <1>4, <1>10, <1>11 DEF N, d

\* A position is written again as the bytes it was read from.
LEMMA PositionAgain ==
    ASSUME NEW bytes \in Seq(Byte), ReadPosition(bytes).ok
    PROVE  BigEndian(BytesOf(EncodeBlock(ReadPosition(bytes).value)))
              = SubSeq(bytes, 1, ReadPosition(bytes).used)
<1>. DEFINE N == PositionBytes
            front == SubSeq(bytes, 1, N)
            d == BigEndian(front)
<1>1. PICK sum \in [0 .. N -> Nat] :
         AddsUp(sum, d, ByteBits, N) /\ ReadPosition(bytes).value = DecodeBlock(sum[N])
  BY ReadPositionIs
<1>2. N \in 0 .. Len(bytes) /\ ReadPosition(bytes).used = N
  BY ReadPositionIs
<1>3. N \in Nat /\ N \in 0 .. N /\ 2^(ByteBits * N) = XZSize * XZSize * YSize
  BY PositionBytesAre
<1>4. front \in Seq(Byte) /\ Len(front) = N
  BY <1>2, Cut
<1>5. d \in Seq(Byte) /\ Len(d) = N /\ BigEndian(d) = front
  BY <1>4, BigEndianIs
<1>. HIDE DEF front, d
<1>. DEFINE long == sum[N]
<1>6. d \in [1 .. N -> 0 .. 2^ByteBits - 1]
  <2>1. d \in [1 .. N -> Byte]
    <3>. HIDE DEF N
    <3> QED
      BY <1>5
  <2> QED
    BY <2>1, ByteBitsAre, Zenon
<1>7. HasDigits(sum, d, ByteBits, N)
  <2>1. ByteBits \in Nat
    BY ByteBitsAre
  <2> QED
    BY <1>1, <1>3, <1>6, <2>1, DigitsOf, Zenon
<1>8. long < 2^(ByteBits * N) /\ \A i \in 1 .. N : DigitAt(long, Weight(ByteBits, i), 2^ByteBits) = d[i]
  BY <1>3, <1>7, Zenon DEF HasDigits
<1>9. long \in Nat
  <2>. HIDE DEF N
  <2> QED
    BY <1>3
<1>10. EncodeBlock(DecodeBlock(long)) = long
  <2>. HIDE DEF long
  <2>1. XZSize * XZSize * YSize = XZSize * (XZSize * YSize) /\ XZSize * (XZSize * YSize) \in Int
    BY PositionsAssumption, SMT
  <2>. DEFINE y == XZSize * (XZSize * YSize)
  <2>2. long < y /\ y \in Int
    BY <1>3, <1>8, <2>1, Zenon
  <2>. HIDE DEF y
  <2>3. long \in 0 .. y - 1
    BY <1>9, <2>2
  <2>4. long \in 0 .. XZSize * (XZSize * YSize) - 1
    BY <2>3 DEF y
  <2> QED
    BY <2>4, LongsRoundTrip, Zenon
<1>11. BytesOf(long) = d
  <2>1. BytesOf(long) = [n \in 1 .. N |-> DigitAt(long, Weight(ByteBits, n), 2^ByteBits)]
    BY Zenon DEF BytesOf, DigitAt, Weight
  <2>2. d = [n \in 1 .. N |-> d[n]]
    <3>1. d \in [1 .. N -> Byte]
      <4>. HIDE DEF N
      <4> QED
        BY <1>5
    <3> QED
      BY <3>1
  <2> QED
    BY <1>8, <2>1, <2>2, Zenon
<1> QED
  BY <1>1, <1>2, <1>5, <1>10, <1>11, Zenon DEF front

-----------------------------------------------------------------------------
(* Each kind of field.                                                     *)

\* What was taken from the front of some bytes is written again alike.
Again(kind, r, bytes) ==
    r.ok => /\ r.used \in 0 .. Len(bytes)
            /\ Written(kind, r.value) \in Seq(Byte)
            /\ WrittenAlike(Written(kind, r.value), SubSeq(bytes, 1, r.used))

LEMMA WrittenIs ==
    ASSUME NEW v
    PROVE  /\ Written("fixed", v) = BigEndian(v)
           /\ Written("bool", v) = <<IF v THEN 1 ELSE 0>>
           /\ Written("option", v) = <<IF v THEN 1 ELSE 0>>
           /\ Written("varint", v) = WriteVarint(v % 2^Width)
           /\ Written("varenum", v) = WriteVarint(v % 2^Width)
           /\ Written("array", v) = WriteVarint(v % 2^Width)
           /\ Written("byteenum", v) = <<v>>
           /\ Written("text", v) = WithLength(TextBytes(v))
           /\ Written("bytes", v) = WithLength(v)
           /\ Written("position", v) = BigEndian(BytesOf(EncodeBlock(v)))
           /\ Written("nbt", v) = v
BY DEF Written

LEMMA WrittenOther ==
    ASSUME NEW kind, NEW v,
           kind \notin {"fixed", "bool", "option", "varint", "varenum", "array", "byteenum", "text",
                        "bytes", "position"}
    PROVE  Written(kind, v) = v
BY DEF Written

\* The reader of each kind.
LEMMA ReadFieldIs ==
    ASSUME NEW type, NEW bytes
    PROVE  /\ type.kind = "fixed" => ReadField(type, bytes) = ReadFixed(bytes, type.limit)
           /\ type.kind \in {"bool", "option"} => ReadField(type, bytes) = ReadBool(bytes)
           /\ type.kind = "varint" => ReadField(type, bytes) = ReadInt(bytes)
           /\ type.kind = "varenum" => ReadField(type, bytes) = ReadVarEnum(bytes, type.of)
           /\ type.kind = "byteenum" => ReadField(type, bytes) = ReadByteEnum(bytes, type.of)
           /\ type.kind = "text" => ReadField(type, bytes) = ReadText(bytes, type.limit)
           /\ type.kind = "bytes" => ReadField(type, bytes) = ReadByteArray(bytes, type.limit)
           /\ type.kind = "array" => ReadField(type, bytes) = ReadLength(bytes, type.limit)
           /\ type.kind = "position" => ReadField(type, bytes) = ReadPosition(bytes)
           /\ type.kind = "nbt" => ReadField(type, bytes) = ReadNbt(bytes)
BY Zenon DEF ReadField

LEMMA ReadFieldOther ==
    ASSUME NEW type, NEW bytes,
           type.kind \notin {"fixed", "bool", "option", "varint", "varenum", "byteenum", "text",
                             "bytes", "array", "position", "nbt"}
    PROVE  ReadField(type, bytes) = Taken(bytes, Len(bytes))
BY Zenon DEF ReadField

LEMMA AgainSame ==
    ASSUME NEW kind, NEW r, NEW bytes \in Seq(Byte),
           r.ok => /\ r.used \in 0 .. Len(bytes)
                   /\ Written(kind, r.value) = SubSeq(bytes, 1, r.used)
    PROVE  Again(kind, r, bytes)
<1> SUFFICES ASSUME r.ok
             PROVE  /\ r.used \in 0 .. Len(bytes)
                    /\ Written(kind, r.value) \in Seq(Byte)
                    /\ WrittenAlike(Written(kind, r.value), SubSeq(bytes, 1, r.used))
  BY DEF Again
<1>. DEFINE n == r.used
            front == SubSeq(bytes, 1, n)
<1>1. n \in 0 .. Len(bytes) /\ Written(kind, r.value) = front
  OBVIOUS
<1>. HIDE DEF n
<1>2. front \in Seq(Byte)
  BY <1>1, Cut
<1>3. WrittenAlike(front, front)
  BY <1>2, AlikeSelf
<1> QED
  BY <1>1, <1>2, <1>3 DEF n

\* The sign is in the integer's bits.
LEMMA SignedBack ==
    ASSUME NEW u \in Unsigned
    PROVE  Signed(u) % 2^Width = u /\ (Signed(u) \in Nat => Signed(u) = u)
<1>. DEFINE a == 2^(Width - 1)
            W == 2^Width
<1>1. W \in Nat \ {0} /\ u \in 0 .. W - 1
  BY VarintAssumption, TwoPositive DEF Unsigned
<1>2. Signed(u) = u \/ Signed(u) = u - W
  BY DEF Signed
<1>. HIDE DEF W
<1>3. u - W < 0
  BY <1>1
<1>4. u % W = u
  BY <1>1, DivModSmall
<1>5. (u - W) % W = u
  <2>1. ((-1) * W + u) % W = u
    BY <1>1, DivMod
  <2>2. (-1) * W + u = u - W
    BY <1>1
  <2> QED
    BY <2>1, <2>2
<1>6. Signed(u) % W = u
  BY <1>2, <1>4, <1>5, Zenon
<1>7. Signed(u) \in Nat => Signed(u) = u
  BY <1>1, <1>2, <1>3
<1> QED
  BY <1>6, <1>7 DEF W

\* An integer that was read: its bits, and how they are written.
LEMMA IntRead ==
    ASSUME NEW bytes \in Seq(Byte), ReadInt(bytes).ok
    PROVE  /\ ReadInt(bytes).used \in 0 .. Len(bytes)
           /\ \E u \in Unsigned :
                 /\ ReadInt(bytes).value % 2^Width = u
                 /\ ReadInt(bytes).value \in Nat => ReadInt(bytes).value = u
                 /\ WriteVarint(u) \in Seq(Byte)
                 /\ WrittenAlike(WriteVarint(u), SubSeq(bytes, 1, ReadInt(bytes).used))
<1>. DEFINE r == ReadVarint(bytes)
<1>1. ReadInt(bytes) = IF r.kind = "ok" THEN Taken(r.value, r.used) ELSE Refused
  BY DEF ReadInt
<1>2. r.kind = "ok"
  BY <1>1 DEF Refused
<1>3. ReadInt(bytes).value = r.value /\ ReadInt(bytes).used = r.used
  BY <1>1, <1>2 DEF Taken
<1>4. /\ r.used \in 1 .. Len(bytes)
      /\ \E u \in Unsigned :
            /\ r.value = Signed(u)
            /\ WriteVarint(u) \in Seq(Byte)
            /\ WrittenAlike(WriteVarint(u), SubSeq(bytes, 1, r.used))
  BY <1>2, VarintAgain
<1>. HIDE DEF r
<1>5. r.used \in 0 .. Len(bytes)
  BY <1>4, LenProperties
<1>6. PICK u \in Unsigned :
         /\ r.value = Signed(u)
         /\ WriteVarint(u) \in Seq(Byte)
         /\ WrittenAlike(WriteVarint(u), SubSeq(bytes, 1, r.used))
  BY <1>4
<1>7. r.value % 2^Width = u /\ (r.value \in Nat => r.value = u)
  BY <1>6, SignedBack, Zenon
<1> QED
  BY <1>3, <1>5, <1>6, <1>7, Zenon

LEMMA IntAgain ==
    ASSUME NEW bytes \in Seq(Byte)
    PROVE  \A kind \in {"varint", "varenum", "array"} : Again(kind, ReadInt(bytes), bytes)
<1> SUFFICES ASSUME NEW kind \in {"varint", "varenum", "array"}, ReadInt(bytes).ok
             PROVE  Again(kind, ReadInt(bytes), bytes)
  BY DEF Again
<1>. DEFINE r == ReadInt(bytes)
<1>1. Written(kind, r.value) = WriteVarint(r.value % 2^Width)
  BY WrittenIs, Zenon
<1>2. PICK u \in Unsigned :
         /\ r.value % 2^Width = u
         /\ WriteVarint(u) \in Seq(Byte)
         /\ WrittenAlike(WriteVarint(u), SubSeq(bytes, 1, r.used))
  BY IntRead
<1>3. r.used \in 0 .. Len(bytes)
  BY IntRead
<1>. HIDE DEF r
<1>4. Again(kind, r, bytes)
  BY <1>1, <1>2, <1>3, Zenon DEF Again
<1> QED
  BY <1>4 DEF r

LEMMA LengthAgain ==
    ASSUME NEW bytes \in Seq(Byte), NEW max
    PROVE  Again("array", ReadLength(bytes, max), bytes)
<1>1. CASE ReadInt(bytes).ok /\ ReadInt(bytes).value \in Nat /\ ReadInt(bytes).value <= max
  <2>1. ReadLength(bytes, max) = ReadInt(bytes)
    BY <1>1 DEF ReadLength
  <2> QED
    BY <2>1, IntAgain
<1>2. CASE ~(ReadInt(bytes).ok /\ ReadInt(bytes).value \in Nat /\ ReadInt(bytes).value <= max)
  BY <1>2 DEF ReadLength, Refused, Again
<1> QED
  BY <1>1, <1>2

LEMMA VarEnumAgain ==
    ASSUME NEW bytes \in Seq(Byte), NEW ids
    PROVE  Again("varenum", ReadVarEnum(bytes, ids), bytes)
<1>1. CASE ReadInt(bytes).ok /\ ReadInt(bytes).value \in ids
  <2>1. ReadVarEnum(bytes, ids) = ReadInt(bytes)
    BY <1>1 DEF ReadVarEnum
  <2> QED
    BY <2>1, IntAgain
<1>2. CASE ~(ReadInt(bytes).ok /\ ReadInt(bytes).value \in ids)
  BY <1>2 DEF ReadVarEnum, Refused, Again
<1> QED
  BY <1>1, <1>2

\* Bytes behind their number: both are written as they were read.
LEMMA CountedAgain ==
    ASSUME NEW bytes \in Seq(Byte), NEW max, ReadByteArray(bytes, max).ok
    PROVE  LET r == ReadByteArray(bytes, max)
           IN  /\ r.used \in 0 .. Len(bytes) /\ r.value \in Seq(Byte)
               /\ WithLength(r.value) \in Seq(Byte)
               /\ WrittenAlike(WithLength(r.value), SubSeq(bytes, 1, r.used))
<1>. DEFINE r == ReadByteArray(bytes, max)
            n == ReadLength(bytes, max)
            int == ReadInt(bytes)
            m == Len(bytes)
<1>1. n.ok /\ n.used + n.value <= m
  BY DEF ReadByteArray, Refused
<1>2. r.value = SubSeq(bytes, n.used + 1, n.used + n.value) /\ r.used = n.used + n.value
  BY <1>1 DEF ReadByteArray, Taken
<1>3. n = int /\ int.ok /\ int.value \in Nat
  BY <1>1 DEF ReadLength, Refused
<1>4. int.used \in 0 .. m /\ m \in Nat
  BY <1>3, IntRead, LenProperties
<1>5. PICK u \in Unsigned :
         /\ int.value \in Nat => int.value = u
         /\ WriteVarint(u) \in Seq(Byte)
         /\ WrittenAlike(WriteVarint(u), SubSeq(bytes, 1, int.used))
  BY <1>3, IntRead
<1>. DEFINE a == int.used
            b == a + u
            front == SubSeq(bytes, 1, a)
            back == SubSeq(bytes, a + 1, b)
<1>6. u = int.value /\ u \in Nat
  BY <1>3, <1>5
<1>7. r.value = back /\ r.used = b /\ b <= m
  BY <1>1, <1>2, <1>3, <1>6, Zenon
<1>8. a \in Nat /\ a \in 0 .. m /\ b \in 0 .. m /\ b \in a .. m
  <2>1. a \in 0 .. m
    BY <1>4
  <2>. HIDE DEF a, m
  <2> QED
    BY <1>4, <1>6, <1>7, <2>1
<1>. HIDE DEF r, n, int, m, a
<1>9. front \in Seq(Byte) /\ Len(front) = a
  BY <1>8, Cut DEF m
<1>10. back \in Seq(Byte) /\ Len(back) = u
  <2>. DEFINE k == a + 1
  <2>1. k \in Int /\ b \in Int /\ \A i \in k .. b : bytes[i] \in Byte
    <3>1. \A i \in 1 .. m : bytes[i] \in Byte
      BY ElementOfSeq DEF m
    <3> QED
      BY <1>4, <1>6, <1>8, <3>1
  <2>2. (IF k <= b THEN b - k + 1 ELSE 0) = u
    BY <1>6, <1>8
  <2>. HIDE DEF k, b
  <2>3. SubSeq(bytes, k, b) \in Seq(Byte) /\ Len(SubSeq(bytes, k, b)) = IF k <= b THEN b - k + 1 ELSE 0
    BY <2>1, SubSeqProperties
  <2> QED
    BY <2>2, <2>3 DEF k, b
<1>11. front \o back = SubSeq(bytes, 1, b)
  <2>1. 1 \in 1 .. Len(bytes) + 1 /\ a \in 1 - 1 .. Len(bytes) /\ b \in a .. Len(bytes)
    BY <1>4, <1>8 DEF m
  <2>. HIDE DEF b
  <2> QED
    BY <2>1, ConcatAdjacentSubSeq
<1>. HIDE DEF front, back
<1>12. WithLength(back) = WriteVarint(u) \o back
  BY <1>10, Zenon DEF WithLength
<1>13. WriteVarint(u) \o back \in Seq(Byte)
  BY <1>5, <1>10, ConcatProperties
<1>14. WrittenAlike(WriteVarint(u), front)
  BY <1>5 DEF front, a
<1>15. WrittenAlike(WriteVarint(u) \o back, front \o back)
  <2>1. WrittenAlike(back, back)
    BY <1>10, AlikeSelf
  <2> QED
    BY <1>5, <1>9, <1>10, <1>14, <2>1, AlikeJoined
<1>16. b \in 0 .. Len(bytes)
  BY <1>8 DEF m
<1> QED
  BY <1>7, <1>10, <1>11, <1>12, <1>13, <1>15, <1>16, Zenon DEF r

LEMMA ByteArrayAgain ==
    ASSUME NEW bytes \in Seq(Byte), NEW max
    PROVE  Again("bytes", ReadByteArray(bytes, max), bytes)
<1> SUFFICES ASSUME ReadByteArray(bytes, max).ok
             PROVE  Again("bytes", ReadByteArray(bytes, max), bytes)
  BY DEF Again
<1>. DEFINE r == ReadByteArray(bytes, max)
<1>1. Written("bytes", r.value) = WithLength(r.value)
  BY WrittenIs, Zenon
<1> QED
  BY <1>1, CountedAgain, Zenon DEF Again

LEMMA TextAgain ==
    ASSUME NEW bytes \in Seq(Byte), NEW max
    PROVE  Again("text", ReadText(bytes, max), bytes)
<1> SUFFICES ASSUME ReadText(bytes, max).ok
             PROVE  Again("text", ReadText(bytes, max), bytes)
  BY DEF Again
<1>. DEFINE r == ReadByteArray(bytes, 3 * max)
            t == ReadText(bytes, max)
            text == CHOOSE x \in TextsOf(r.value) : TRUE
<1>1. r.ok /\ \E x \in TextsOf(r.value) : Len(x) <= max
  BY DEF ReadText, Refused
<1>2. t = Taken(text, r.used)
  BY <1>1 DEF ReadText
<1>3. t.value = text /\ t.used = r.used
  BY <1>2 DEF Taken
<1>4. text \in TextsOf(r.value)
  BY <1>1
<1>5. /\ r.used \in 0 .. Len(bytes) /\ r.value \in Seq(Byte)
      /\ WithLength(r.value) \in Seq(Byte)
      /\ WrittenAlike(WithLength(r.value), SubSeq(bytes, 1, r.used))
  BY <1>1, CountedAgain, Zenon
<1>. HIDE DEF r, text, t
<1>6. TextBytes(text) = r.value
  BY <1>4, <1>5, TextsOfAre
<1>7. Written("text", text) = WithLength(TextBytes(text))
  BY WrittenIs, Zenon
<1>8. Again("text", t, bytes)
  BY <1>3, <1>5, <1>6, <1>7, Zenon DEF Again
<1> QED
  BY <1>8 DEF t

LEMMA WrittenBool ==
    ASSUME NEW kind \in {"bool", "option"}
    PROVE  Written(kind, TRUE) = <<1>> /\ Written(kind, FALSE) = <<0>>
BY DEF Written

LEMMA BoolAgain ==
    ASSUME NEW bytes \in Seq(Byte)
    PROVE  \A kind \in {"bool", "option"} : Again(kind, ReadBool(bytes), bytes)
<1> SUFFICES ASSUME NEW kind \in {"bool", "option"}, ReadBool(bytes).ok
             PROVE  Again(kind, ReadBool(bytes), bytes)
  BY DEF Again
<1>. DEFINE r == ReadBool(bytes)
            b == bytes[1]
            front == SubSeq(bytes, 1, 1)
            again == Written(kind, r.value)
<1>1. bytes # <<>> /\ r = Taken(b # 0, 1)
  BY DEF ReadBool, Refused
<1>2. r.used = 1
  BY <1>1 DEF Taken
<1>3. Len(bytes) \in Nat \ {0} /\ 1 \in 0 .. Len(bytes) /\ 1 \in 1 .. Len(bytes)
  BY <1>1, EmptySeq
<1>4. b \in Byte /\ b \in Nat /\ 0 \in Byte /\ 1 \in Byte
  <2>1. b \in Byte
    BY <1>3, ElementOfSeq
  <2>2. Base \in Nat \ {0}
    BY PlaceIs
  <2>3. 0 \in Byte /\ 1 \in Byte
    BY <2>2 DEF Byte
  <2> QED
    BY <2>1, <2>3, ByteIs
<1>5. front \in Seq(Byte) /\ Len(front) = 1 /\ front[1] = b
  BY <1>3, Cut
<1>6. CASE b = 0
  <2>1. r = Taken(FALSE, 1)
    BY <1>1, <1>6
  <2>2. r.value = FALSE
    BY <2>1 DEF Taken
  <2>3. again = <<0>>
    BY <2>2, WrittenBool
  <2>4. again \in Seq(Byte) /\ Len(again) = 1 /\ again[1] = 0
    BY <1>4, <2>3
  <2> QED
    BY <1>2, <1>3, <1>5, <1>6, <2>4 DEF Again, WrittenAlike, SameAt
<1>7. CASE b # 0
  <2>1. r = Taken(TRUE, 1)
    BY <1>1, <1>7
  <2>2. r.value = TRUE
    BY <2>1 DEF Taken
  <2>3. again = <<1>>
    BY <2>2, WrittenBool
  <2>4. again \in Seq(Byte) /\ Len(again) = 1 /\ again[1] = 1
    BY <1>4, <2>3
  <2>5. b = 1 \/ b > 1
    BY <1>4, <1>7
  <2> QED
    BY <1>2, <1>3, <1>5, <2>4, <2>5 DEF Again, WrittenAlike, SameAt
<1> QED
  BY <1>6, <1>7

LEMMA FixedAgain ==
    ASSUME NEW bytes \in Seq(Byte), NEW n
    PROVE  Again("fixed", ReadFixed(bytes, n), bytes)
<1>. DEFINE r == ReadFixed(bytes, n)
<1>1. CASE ~ n \in 0 .. Len(bytes)
  BY <1>1 DEF ReadFixed, Refused, Again
<1>2. CASE n \in 0 .. Len(bytes)
  <2>. DEFINE front == SubSeq(bytes, 1, n)
  <2>1. r.value = BigEndian(front) /\ r.used = n
    BY <1>2 DEF ReadFixed, Taken
  <2>2. front \in Seq(Byte)
    BY <1>2, Cut
  <2>3. Written("fixed", r.value) = BigEndian(BigEndian(front))
    BY <2>1, WrittenIs, Zenon
  <2>. HIDE DEF front
  <2>4. Written("fixed", r.value) = front
    BY <2>2, <2>3, BigEndianIs
  <2>. HIDE DEF r
  <2>5. Again("fixed", r, bytes)
    BY <1>2, <2>1, <2>4, AgainSame DEF front
  <2> QED
    BY <2>5 DEF r
<1> QED
  BY <1>1, <1>2

LEMMA ByteEnumAgain ==
    ASSUME NEW bytes \in Seq(Byte), NEW ids
    PROVE  Again("byteenum", ReadByteEnum(bytes, ids), bytes)
<1>. DEFINE r == ReadByteEnum(bytes, ids)
            b == bytes[1]
            front == SubSeq(bytes, 1, 1)
<1>1. CASE ~(bytes # <<>> /\ b \in ids)
  BY <1>1 DEF ReadByteEnum, Refused, Again
<1>2. CASE bytes # <<>> /\ b \in ids
  <2>1. r.value = b /\ r.used = 1
    BY <1>2 DEF ReadByteEnum, Taken
  <2>2. Len(bytes) \in Nat \ {0} /\ 1 \in 0 .. Len(bytes)
    BY <1>2, EmptySeq
  <2>3. front \in Seq(Byte) /\ Len(front) = 1 /\ front[1] = b
    BY <2>2, Cut
  <2>4. front = <<b>>
    <3>. HIDE DEF front, b
    <3> QED
      BY <2>3
  <2>5. Written("byteenum", r.value) = front
    BY <2>1, <2>4, WrittenIs, Zenon
  <2>. HIDE DEF r
  <2>6. Again("byteenum", r, bytes)
    BY <2>1, <2>2, <2>5, AgainSame
  <2> QED
    BY <2>6 DEF r
<1> QED
  BY <1>1, <1>2

LEMMA PositionFieldAgain ==
    ASSUME NEW bytes \in Seq(Byte)
    PROVE  Again("position", ReadPosition(bytes), bytes)
<1>. DEFINE r == ReadPosition(bytes)
<1>1. r.ok => /\ r.used \in 0 .. Len(bytes)
              /\ BigEndian(BytesOf(EncodeBlock(r.value))) = SubSeq(bytes, 1, r.used)
  BY ReadPositionIs, PositionAgain, Zenon
<1>2. Written("position", r.value) = BigEndian(BytesOf(EncodeBlock(r.value)))
  BY WrittenIs, Zenon
<1>. HIDE DEF r
<1>3. Again("position", r, bytes)
  BY <1>1, <1>2, AgainSame
<1> QED
  BY <1>3 DEF r

\* Whatever a field is, unless it is NBT, what was read of it is written again alike.
LEMMA FieldAgain ==
    ASSUME NEW bytes \in Seq(Byte), NEW type, type.kind # "nbt"
    PROVE  Again(type.kind, ReadField(type, bytes), bytes)
<1>. DEFINE k == type.kind
            r == ReadField(type, bytes)
<1>1. CASE k = "fixed"
  BY <1>1, ReadFieldIs, FixedAgain, Zenon
<1>2. CASE k \in {"bool", "option"}
  BY <1>2, ReadFieldIs, BoolAgain, Zenon
<1>3. CASE k = "varint"
  BY <1>3, ReadFieldIs, IntAgain, Zenon
<1>4. CASE k = "varenum"
  BY <1>4, ReadFieldIs, VarEnumAgain, Zenon
<1>5. CASE k = "byteenum"
  BY <1>5, ReadFieldIs, ByteEnumAgain, Zenon
<1>6. CASE k = "text"
  BY <1>6, ReadFieldIs, TextAgain, Zenon
<1>7. CASE k = "bytes"
  BY <1>7, ReadFieldIs, ByteArrayAgain, Zenon
<1>8. CASE k = "array"
  BY <1>8, ReadFieldIs, LengthAgain, Zenon
<1>9. CASE k = "position"
  BY <1>9, ReadFieldIs, PositionFieldAgain, Zenon
<1>10. k # "nbt"
  OBVIOUS
<1>11. CASE k \notin {"fixed", "bool", "option", "varint", "varenum", "byteenum", "text",
                      "bytes", "array", "position", "nbt"}
  <2>1. r = Taken(bytes, Len(bytes))
    BY <1>11, ReadFieldOther, Zenon
  <2>2. r.value = bytes /\ r.used = Len(bytes)
    BY <2>1 DEF Taken
  <2>3. Written(k, r.value) = r.value
    BY <1>11, WrittenOther
  <2>4. SubSeq(bytes, 1, Len(bytes)) = bytes /\ Len(bytes) \in 0 .. Len(bytes)
    BY SubSeqFull, LenProperties
  <2>. HIDE DEF k, r
  <2>5. Again(k, r, bytes)
    BY <2>2, <2>3, <2>4, AgainSame
  <2> QED
    BY <2>5 DEF k, r
<1> QED
  BY <1>1, <1>2, <1>3, <1>4, <1>5, <1>6, <1>7, <1>8, <1>9, <1>10, <1>11, Zenon

-----------------------------------------------------------------------------
(* The packet.                                                             *)

\* What each field that was read is written as.
Parts(leaves) == [i \in DOMAIN leaves |-> Written(leaves[i].kind, leaves[i].value)]

LEMMA PartsAppend ==
    ASSUME NEW S, NEW leaves \in Seq(S), NEW leaf
    PROVE  /\ Append(leaves, leaf) \in Seq(S \cup {leaf})
           /\ Parts(Append(leaves, leaf)) = Append(Parts(leaves), Written(leaf.kind, leaf.value))
<1>. DEFINE n == Len(leaves)
            T == S \cup {leaf}
            more == Append(leaves, leaf)
            W(l) == Written(l.kind, l.value)
<1>1. n \in Nat /\ DOMAIN leaves = 1 .. n /\ \A i \in 1 .. n : leaves[i] \in S
  BY LenProperties, ElementOfSeq
<1>2. leaves \in [1 .. n -> T]
  BY <1>1, LenProperties
<1>3. leaves \in Seq(T)
  BY <1>1, <1>2, SeqOfFunction
<1>4. more \in Seq(T) /\ Len(more) = n + 1 /\ more[n + 1] = leaf
      /\ \A i \in 1 .. n : more[i] = leaves[i]
  <2>1. leaf \in T
    OBVIOUS
  <2>. HIDE DEF T
  <2> QED
    BY <1>3, <2>1, AppendProperties
<1>5. DOMAIN more = 1 .. n + 1
  BY <1>4, LenProperties
<1>. HIDE DEF more, T
<1>6. Parts(more) = [i \in 1 .. n + 1 |-> W(more[i])]
  BY <1>5, Zenon DEF Parts
<1>7. Parts(leaves) = [i \in 1 .. n |-> W(leaves[i])]
  BY <1>1, Zenon DEF Parts
<1>8. Append(Parts(leaves), W(leaf)) = [i \in 1 .. n + 1 |-> W(more[i])]
  <2>. DEFINE R == {W(leaves[i]) : i \in 1 .. n} \cup {W(leaf)}
              p == Parts(leaves)
              q == Append(p, W(leaf))
  <2>1. \A i \in 1 .. n : W(leaves[i]) \in R
    OBVIOUS
  <2>2. W(leaf) \in R
    OBVIOUS
  <2>. HIDE DEF W, R, n
  <2>3. p \in [1 .. n -> R] /\ \A i \in 1 .. n : p[i] = W(leaves[i])
    BY <1>7, <2>1
  <2>. HIDE DEF p
  <2>4. p \in Seq(R) /\ Len(p) = n
    BY <1>1, <2>3, SeqOfFunction
  <2>5. q \in Seq(R) /\ Len(q) = n + 1 /\ q[n + 1] = W(leaf) /\ \A i \in 1 .. n : q[i] = p[i]
    BY <2>2, <2>4, AppendProperties
  <2>6. DOMAIN q = 1 .. n + 1 /\ q = [i \in 1 .. n + 1 |-> q[i]]
    BY <2>5, LenProperties
  <2>. HIDE DEF q
  <2>7. ASSUME NEW i \in 1 .. n + 1
        PROVE  q[i] = W(more[i])
    <3>1. i \in 1 .. n \/ i = n + 1
      BY <1>1
    <3> QED
      BY <1>4, <2>3, <2>5, <3>1
  <2> QED
    BY <2>6, <2>7 DEF q, p
<1> QED
  BY <1>4, <1>6, <1>8 DEF more, T

\* What was read of all bytes, but for those that are left, is written again alike.
ReadAlike(leaves, left, all) ==
    /\ \E S : leaves \in Seq(S)
    /\ Parts(leaves) \in Seq(Seq(Byte))
    /\ \E read \in Seq(Byte) : all = read \o left /\ WrittenAlike(LeafBytes(leaves), read)

LEMMA ReadOn ==
    ASSUME NEW all, NEW left \in Seq(Byte), NEW leaves, ReadAlike(leaves, left, all),
           NEW r, NEW leaf, r.ok, Again(leaf.kind, r, left), leaf.value = r.value
    PROVE  ReadAlike(Append(leaves, leaf), SubSeq(left, r.used + 1, Len(left)), all)
<1>. DEFINE more == Append(leaves, leaf)
            n == r.used
            front == SubSeq(left, 1, n)
            back == SubSeq(left, n + 1, Len(left))
            w == Written(leaf.kind, leaf.value)
            old == LeafBytes(leaves)
<1>1. n \in 0 .. Len(left) /\ w \in Seq(Byte) /\ WrittenAlike(w, front)
  BY Zenon DEF Again
<1>. HIDE DEF n, w
<1>2. front \in Seq(Byte) /\ back \in Seq(Byte) /\ front \o back = left
  BY <1>1, Cut
<1>. HIDE DEF front, back
<1>3. PICK S : leaves \in Seq(S)
  BY DEF ReadAlike
<1>4. PICK read \in Seq(Byte) : all = read \o left /\ WrittenAlike(old, read)
  BY DEF ReadAlike
<1>5. Parts(leaves) \in Seq(Seq(Byte))
  BY DEF ReadAlike
<1>6. more \in Seq(S \cup {leaf}) /\ Parts(more) = Append(Parts(leaves), w)
  BY <1>3, PartsAppend DEF w
<1>7. Parts(more) \in Seq(Seq(Byte))
  <2>. DEFINE T == Seq(Byte)
              p == Parts(leaves)
  <2>1. w \in T /\ p \in Seq(T)
    BY <1>1, <1>5
  <2>. HIDE DEF T, p
  <2>2. Append(p, w) \in Seq(T)
    BY <2>1, AppendProperties
  <2> QED
    BY <1>6, <2>2 DEF T, p
<1>8. old = FlattenSeq(Parts(leaves)) /\ LeafBytes(more) = FlattenSeq(Parts(more))
  BY Zenon DEF LeafBytes, Parts
<1>9. old \in Seq(Byte) /\ LeafBytes(more) = old \o w
  BY <1>1, <1>5, <1>6, <1>8, FlattenType, FlattenAppend
<1>. HIDE DEF old, more
<1>10. WrittenAlike(old \o w, read \o front)
  BY <1>1, <1>2, <1>4, <1>9, AlikeJoined
<1>11. read \o front \in Seq(Byte)
  BY <1>2, ConcatProperties
<1>12. all = (read \o front) \o back
  <2>1. (read \o front) \o back = read \o (front \o back)
    BY <1>2, BytesAssociate
  <2> QED
    BY <1>2, <1>4, <2>1, Zenon
<1>13. WrittenAlike(LeafBytes(more), read \o front)
  BY <1>9, <1>10, Zenon
<1>14. ReadAlike(more, back, all)
  BY <1>6, <1>7, <1>11, <1>12, <1>13, Zenon DEF ReadAlike
<1> QED
  BY <1>14 DEF more, back, n

\* The inductive invariant: nothing is read before the id, nothing is left of a frame
\* that is accepted, and what was read so far is the front of it, written again alike
\* unless there was NBT in it.
AlikeInv ==
    /\ input \in Inputs /\ input.bytes \in Seq(Byte)
    /\ rest \in Seq(Byte)
    /\ at = "id" => got = <<>>
    /\ at = "done" => rest = <<>> \/ input.state \in DOMAIN Bare
    /\ \E read \in Seq(Byte) : input.bytes = read \o rest
    /\ \E S : got \in Seq(S)
    /\ NbtFree => ReadAlike(got, rest, input.bytes)

LEMMA AlikeInit == Init => AlikeInv
<1> SUFFICES ASSUME Init PROVE AlikeInv
  OBVIOUS
<1>1. /\ input \in Inputs /\ input.bytes \in Seq(Byte) /\ rest = input.bytes
      /\ at # "done" /\ got = <<>>
  <2>1. input \in Inputs /\ rest = input.bytes /\ at \in {"id", "body"} /\ got = <<>>
    BY DEF Init
  <2> QED
    BY <2>1, PacketReaderAssumption
<1>2. <<>> \in Seq({}) /\ <<>> \in Seq(Byte) /\ <<>> \in Seq(Seq(Byte)) /\ Len(<<>>) = 0
  BY EmptySeq
<1>3. Parts(<<>>) = <<>>
  BY DEF Parts
<1>4. LeafBytes(<<>>) = <<>>
  <2>1. LeafBytes(<<>>) = FlattenSeq(Parts(<<>>))
    BY Zenon DEF LeafBytes, Parts
  <2> QED
    BY <1>2, <1>3, <2>1 DEF FlattenSeq
<1>5. WrittenAlike(<<>>, <<>>)
  BY <1>2, AlikeSelf
<1>6. <<>> \o input.bytes = input.bytes
  BY <1>1, ConcatEmptySeq
<1>7. ReadAlike(<<>>, input.bytes, input.bytes)
  BY <1>2, <1>3, <1>4, <1>5, <1>6, Zenon DEF ReadAlike
<1> QED
  BY <1>1, <1>2, <1>6, <1>7, Zenon DEF AlikeInv

\* One more field is read, of the id or of the body.
LEMMA AlikeRead ==
    ASSUME AlikeInv, NEW r, NEW leaf, r.ok, r.used \in 0 .. Len(rest),
           leaf.kind # "nbt" => Again(leaf.kind, r, rest) /\ leaf.value = r.value,
           rest' = After(r.used), got' = Append(got, leaf), input' = input, at' = "body"
    PROVE  AlikeInv'
<1>. DEFINE n == r.used
            front == SubSeq(rest, 1, n)
            back == SubSeq(rest, n + 1, Len(rest))
<1>1. /\ input \in Inputs /\ input.bytes \in Seq(Byte) /\ rest \in Seq(Byte)
      /\ NbtFree => ReadAlike(got, rest, input.bytes)
  BY DEF AlikeInv
<1>2. rest' = back /\ n \in 0 .. Len(rest)
  BY DEF After
<1>3. front \in Seq(Byte) /\ back \in Seq(Byte) /\ front \o back = rest
  BY <1>1, <1>2, Cut
<1>4. PICK read \in Seq(Byte) : input.bytes = read \o rest
  BY DEF AlikeInv
<1>5. PICK S : got \in Seq(S)
  BY DEF AlikeInv
<1>6. \E more \in Seq(Byte) : input.bytes = more \o back
  <2>. HIDE DEF front, back
  <2>1. read \o front \in Seq(Byte) /\ (read \o front) \o back = read \o (front \o back)
    BY <1>3, BytesAssociate, ConcatProperties
  <2> QED
    BY <1>3, <1>4, <2>1
<1>7. Append(got, leaf) \in Seq(S \cup {leaf})
  BY <1>5, PartsAppend
<1>8. NbtFree' => NbtFree /\ leaf.kind # "nbt"
  <2> SUFFICES ASSUME NbtFree' PROVE NbtFree /\ leaf.kind # "nbt"
    OBVIOUS
  <2>. DEFINE k == Len(got)
              next == Append(got, leaf)
  <2>1. k \in Nat /\ DOMAIN got = 1 .. k
    BY <1>5, LenProperties
  <2>2. DOMAIN next = 1 .. k + 1 /\ next[k + 1] = leaf /\ \A i \in 1 .. k : next[i] = got[i]
    <3>1. leaf \in S \cup {leaf} /\ S \subseteq S \cup {leaf}
      OBVIOUS
    <3>. DEFINE T == S \cup {leaf}
    <3>2. got \in Seq(T) /\ leaf \in T
      BY <1>5, <3>1, SeqMonotonic
    <3>. HIDE DEF T
    <3>3. next \in Seq(T) /\ Len(next) = k + 1 /\ next[k + 1] = leaf /\ \A i \in 1 .. k : next[i] = got[i]
      BY <3>2, AppendProperties
    <3>. HIDE DEF next
    <3> QED
      BY <3>3, LenProperties
  <2>. HIDE DEF k, next
  <2>3. \A i \in 1 .. k + 1 : next[i].kind # "nbt"
    BY <2>2 DEF NbtFree, next
  <2>4. k + 1 \in 1 .. k + 1 /\ 1 .. k \subseteq 1 .. k + 1
    BY <2>1
  <2> QED
    BY <2>1, <2>2, <2>3, <2>4 DEF NbtFree
<1>9. ASSUME NbtFree'
      PROVE  ReadAlike(Append(got, leaf), back, input.bytes)
  <2>1. ReadAlike(got, rest, input.bytes) /\ Again(leaf.kind, r, rest) /\ leaf.value = r.value
    BY <1>1, <1>8, <1>9
  <2> QED
    BY <1>1, <2>1, ReadOn
<1>. HIDE DEF n, front, back
<1> QED
  BY <1>1, <1>2, <1>3, <1>6, <1>7, <1>9, Zenon DEF AlikeInv

LEMMA AlikeStep == AlikeInv /\ NbtFits(rest) /\ [Next]_vars => AlikeInv'
<1> SUFFICES ASSUME AlikeInv, NbtFits(rest), [Next]_vars PROVE AlikeInv'
  OBVIOUS
<1>0. rest \in Seq(Byte)
  BY DEF AlikeInv
<1>1. ASSUME NEW within, Reads(Found, within), at = "body"
      PROVE  AlikeInv'
  <2>. DEFINE leaf == [name |-> Coming.name, kind |-> Coming.type.kind, value |-> Found.value]
  <2>1. Found.ok /\ rest' = After(Found.used) /\ got' = Append(got, leaf) /\ input' = input /\ at' = "body"
    BY <1>1 DEF Reads
  <2>2. leaf.kind = Coming.type.kind /\ leaf.value = Found.value
    OBVIOUS
  <2>. HIDE DEF leaf
  <2>3. leaf.kind # "nbt" => Again(leaf.kind, Found, rest)
    BY <1>0, <2>2, FieldAgain DEF Found
  <2>4. Found.used \in 0 .. Len(rest)
    BY <1>0, <2>1, FieldFits DEF Found, Fits
  <2> QED
    BY <2>1, <2>2, <2>3, <2>4, AlikeRead
<1>2. CASE ReadId
  <2>. DEFINE leaf == [name |-> "id", kind |-> "varint", value |-> Id.value]
  <2>1. Id.ok /\ rest' = After(Id.used) /\ got' = <<leaf>> /\ input' = input /\ at = "id" /\ at' = "body"
    BY <1>2 DEF ReadId
  <2>2. leaf.kind = "varint" /\ leaf.value = Id.value
    OBVIOUS
  <2>3. got = <<>>
    BY <2>1 DEF AlikeInv
  <2>4. Append(got, leaf) = <<leaf>>
    BY <2>3
  <2>. HIDE DEF leaf
  <2>5. Again(leaf.kind, Id, rest)
    BY <1>0, <2>2, IntAgain DEF Id
  <2>6. Id.used \in 0 .. Len(rest)
    BY <2>1, <2>5, Zenon DEF Again
  <2> QED
    BY <2>1, <2>2, <2>4, <2>5, <2>6, AlikeRead
<1>3. CASE ReadLeaf \/ OpenArray \/ OpenOption
  <2>1. at = "body" /\ \E within : Reads(Found, within)
    BY <1>3 DEF ReadLeaf, OpenArray, OpenOption, Reading
  <2> QED
    BY <1>1, <2>1
<1>4. CASE IgnoreId \/ RefuseId \/ RefuseField \/ RefuseTrailing
  <2>1. at' \in {"ignored", "refused"} /\ input' = input /\ rest' = rest /\ got' = got
    BY <1>4 DEF IgnoreId, RefuseId, RefuseField, RefuseTrailing, Stop
  <2> QED
    BY <2>1 DEF AlikeInv, NbtFree
<1>5. CASE Finish
  <2>1. /\ at' = "done" /\ input' = input /\ rest' = rest /\ got' = got
        /\ rest = <<>> \/ input.state \in DOMAIN Bare
    BY <1>5 DEF Finish, Stop
  <2> QED
    BY <2>1 DEF AlikeInv, NbtFree
<1>6. CASE UNCHANGED vars
  BY <1>6 DEF vars, AlikeInv, NbtFree
<1> QED
  BY <1>2, <1>3, <1>4, <1>5, <1>6 DEF Next

\* The end of the frame that is left is one read_network can be relied on for.
LEMMA EndsFit == IInv => NbtFits(rest)
BY PacketReaderAssumption DEF IInv, TypeOK

\* packets/mod.rs:48: whatever the layouts, the limits and the bytes, of a frame that
\* is accepted nothing is left; and unless there was NBT in it, it is written again
\* for what was read of it, but for the three ways in which the readers of fields are
\* lenient.
THEOREM NothingGoesUnnoticed == Spec => []NothingUnnoticed
<1>1. AlikeInv => NothingUnnoticed
  <2> SUFFICES ASSUME AlikeInv, at = "done"
               PROVE  LET read == SubSeq(input.bytes, 1, Len(input.bytes) - Len(rest))
                      IN  /\ rest = <<>> \/ input.state \in DOMAIN Bare
                          /\ NbtFree => WrittenAlike(LeafBytes(got), read)
    BY DEF NothingUnnoticed
  <2>1. rest = <<>> \/ input.state \in DOMAIN Bare
    BY DEF AlikeInv
  <2>2. ASSUME NbtFree
        PROVE  WrittenAlike(LeafBytes(got), SubSeq(input.bytes, 1, Len(input.bytes) - Len(rest)))
    <3>1. PICK read \in Seq(Byte) :
             input.bytes = read \o rest /\ WrittenAlike(LeafBytes(got), read)
      BY <2>2 DEF AlikeInv, ReadAlike
    <3>2. rest \in Seq(Byte)
      BY DEF AlikeInv
    <3>3. SubSeq(input.bytes, 1, Len(input.bytes) - Len(rest)) = read
      BY <3>1, <3>2, FrontOfJoined
    <3> QED
      BY <3>1, <3>3, Zenon
  <2> QED
    BY <2>1, <2>2
<1>2. Spec => [](IInv /\ AlikeInv)
  <2>1. Init => IInv /\ AlikeInv
    BY InitIInv, AlikeInit
  <2>2. IInv /\ AlikeInv /\ [Next]_vars => IInv' /\ AlikeInv'
    BY NextIInv, AlikeStep, EndsFit
  <2> QED
    BY <2>1, <2>2, PTL DEF Spec
<1> QED
  BY <1>1, <1>2, PTL
=============================================================================
