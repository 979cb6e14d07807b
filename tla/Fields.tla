-------------------------------- MODULE Fields --------------------------------
(***************************************************************************)
(* The fields of packets (rukkit-protocol, writer.rs and reader.rs): how a *)
(* value of each kind is written, and what the reader takes from the front *)
(* of the bytes that are left.  The writer has no limits; the reader has   *)
(* one for everything that comes with a length.  A number of a fixed width *)
(* is the sequence of its bytes, lowest first: no packet computes with it. *)
(***************************************************************************)
EXTENDS Varint, Positions, SequencesExt

CONSTANTS
    Utf8,       \* external: the characters, and the bytes of each
    ReadNbt(_)  \* nbt::read_network (NbtBytes): what it takes from the front of some
                \* bytes.  The value is the bytes that write_network writes for the
                \* tag, capacity the largest vector that room was made for, whether
                \* or not the tag was read in the end.

\* A byte is a group of a varint and its flag.
ByteBits == Group + 1

ASSUME FieldsAssumption ==
    /\ \A c \in DOMAIN Utf8 : Utf8[c] \in Seq(Byte) /\ Len(Utf8[c]) \in 1 .. 4
    /\ \E n \in 1 .. 8 : 2^(ByteBits * n) = XZSize * XZSize * YSize

\* A field's type: its kind, the limit of the reader, the layout of its elements
\* or the ids it may have.
Type(kind, limit, of) == [kind |-> kind, limit |-> limit, of |-> of]

Fixed(bytes) == Type("fixed", bytes, <<>>)
U8 == Fixed(1)
I8 == Fixed(1)
U16 == Fixed(2)
I32 == Fixed(4)
I64 == Fixed(8)
F32 == Fixed(4)
F64 == Fixed(8)
Uuid == Fixed(16)
Bool == Type("bool", 0, <<>>)
VarInt == Type("varint", 0, <<>>)
VarEnum(ids) == Type("varenum", 0, ids)
ByteEnum(ids) == Type("byteenum", 0, ids)
Text(max) == Type("text", max, <<>>)
ByteArray(max) == Type("bytes", max, <<>>)
Position == Type("position", 0, <<>>)
Nbt == Type("nbt", 0, <<>>)
Rest == Type("rest", 0, <<>>)
Array(max, of) == Type("array", max, of)
Option(of) == Type("option", 0, of)
Trailing(of) == Type("trailing", 0, of)   \* written or left off, without a flag

Unlimited == 0   \* of the writer

Field(name, type) == [name |-> name, type |-> type]

-----------------------------------------------------------------------------
(* writer.rs.  Of an array the length is written here, of an option whether*)
(* it is there; what they hold are fields of their own.                    *)

TextBytes(text) == FlattenSeq([n \in DOMAIN text |-> Utf8[text[n]]])

WithLength(bytes) == WriteVarint(Len(bytes)) \o bytes

\* How many bytes a packed position has, and which.
PositionBytes == CHOOSE n \in 1 .. 8 : 2^(ByteBits * n) = XZSize * XZSize * YSize

BytesOf(long) ==
    [n \in 1 .. PositionBytes |-> (long \div 2^(ByteBits * (n - 1))) % 2^ByteBits]

\* put_i32, from_be_bytes and their like: the highest byte first.
BigEndian(bytes) == [n \in DOMAIN bytes |-> bytes[Len(bytes) + 1 - n]]

Written(kind, value) ==
    CASE kind = "fixed"                           -> BigEndian(value)
      [] kind \in {"bool", "option"}              -> <<IF value THEN 1 ELSE 0>>
      [] kind \in {"varint", "varenum", "array"}  -> WriteVarint(value % 2^Width)
      [] kind = "byteenum"                        -> <<value>>
      [] kind = "text"                            -> WithLength(TextBytes(value))
      [] kind = "bytes"                           -> WithLength(value)
      [] kind = "position"                        -> BigEndian(BytesOf(EncodeBlock(value)))
      [] OTHER                                    -> value   \* write_bytes, of a tag or the rest

-----------------------------------------------------------------------------
(* reader.rs.                                                              *)

Refused == [ok |-> FALSE, value |-> <<>>, used |-> 0]
Taken(value, used) == [ok |-> TRUE, value |-> value, used |-> used]

\* take_array, and the conversion that read_i32 and its like apply to it.
ReadFixed(bytes, n) ==
    IF n \in 0 .. Len(bytes) THEN Taken(BigEndian(SubSeq(bytes, 1, n)), n) ELSE Refused

\* read_bool: any byte but zero.
ReadBool(bytes) == IF bytes = <<>> THEN Refused ELSE Taken(bytes[1] # 0, 1)

\* PacketReader::read_varint.
ReadInt(bytes) ==
    LET r == ReadVarint(bytes) IN IF r.kind = "ok" THEN Taken(r.value, r.used) ELSE Refused

ReadVarEnum(bytes, ids) ==
    LET r == ReadInt(bytes) IN IF r.ok /\ r.value \in ids THEN r ELSE Refused

ReadByteEnum(bytes, ids) ==
    IF bytes # <<>> /\ bytes[1] \in ids THEN Taken(bytes[1], 1) ELSE Refused

\* read_length.
ReadLength(bytes, max) ==
    LET r == ReadInt(bytes) IN IF r.ok /\ r.value \in Nat /\ r.value <= max THEN r ELSE Refused

\* read_byte_array: a length, then that many bytes.
ReadByteArray(bytes, max) ==
    LET n == ReadLength(bytes, max)
    IN  IF n.ok /\ n.used + n.value <= Len(bytes)
        THEN Taken(SubSeq(bytes, n.used + 1, n.used + n.value), n.used + n.value)
        ELSE Refused

\* The text some bytes are, if they are one: std::str::from_utf8.
TextsOf(bytes) ==
    LET At(c, i) == i + Len(Utf8[c]) - 1 <= Len(bytes)
                    /\ SubSeq(bytes, i, i + Len(Utf8[c]) - 1) = Utf8[c]
        from[i \in 1 .. Len(bytes) + 1] ==
            IF i > Len(bytes) THEN {<<>>}
            ELSE UNION {{<<c>> \o t : t \in from[i + Len(Utf8[c])]} : c \in {d \in DOMAIN Utf8 : At(d, i)}}
    IN  from[1]

\* Mutated: a limit in characters is taken for one in bytes.
ReadTextTight(bytes, max) ==
    LET r == ReadByteArray(bytes, max)
    IN  IF r.ok /\ \E t \in TextsOf(r.value) : Len(t) <= max
        THEN Taken(CHOOSE t \in TextsOf(r.value) : TRUE, r.used)
        ELSE Refused

\* read_string: three bytes for each character that is allowed, and then the
\* characters are counted.
ReadText(bytes, max) ==
    LET r == ReadByteArray(bytes, 3 * max)
    IN  IF r.ok /\ \E t \in TextsOf(r.value) : Len(t) <= max
        THEN Taken(CHOOSE t \in TextsOf(r.value) : TRUE, r.used)
        ELSE Refused

ReadPosition(bytes) ==
    LET r == ReadFixed(bytes, PositionBytes)
        long[n \in 0 .. PositionBytes] ==
            IF n = 0 THEN 0 ELSE long[n - 1] + r.value[n] * 2^(ByteBits * (n - 1))
    IN  IF r.ok THEN Taken(DecodeBlock(long[PositionBytes]), r.used) ELSE Refused

\* What is relied on of read_network: a tag takes bytes that are there and is written
\* as bytes, and no vector is made for more elements than there are bytes.
NbtFits(bytes) ==
    LET r == ReadNbt(bytes)
    IN  /\ r.capacity \in 0 .. Len(bytes)
        /\ r.ok => r.used \in 0 .. Len(bytes) /\ r.value \in Seq(Byte)

ReadField(type, bytes) ==
    CASE type.kind = "fixed"              -> ReadFixed(bytes, type.limit)
      [] type.kind \in {"bool", "option"} -> ReadBool(bytes)
      [] type.kind = "varint"             -> ReadInt(bytes)
      [] type.kind = "varenum"            -> ReadVarEnum(bytes, type.of)
      [] type.kind = "byteenum"           -> ReadByteEnum(bytes, type.of)
      [] type.kind = "text"               -> ReadText(bytes, type.limit)
      [] type.kind = "bytes"              -> ReadByteArray(bytes, type.limit)
      [] type.kind = "array"              -> ReadLength(bytes, type.limit)
      [] type.kind = "position"           -> ReadPosition(bytes)
      [] type.kind = "nbt"                -> ReadNbt(bytes)
      [] OTHER                            -> Taken(bytes, Len(bytes))   \* read_remaining
=============================================================================
