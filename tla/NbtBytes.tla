------------------------------- MODULE NbtBytes -------------------------------
(***************************************************************************)
(* nbt::read_network on the bytes of a packet (rukkit-protocol, nbt.rs),   *)
(* for the fields of PacketReader: the whole tag at once, numbers in their *)
(* widths, and of the tag the bytes that write_network writes for it.      *)
(* NbtReader takes the same reader field by field, as a machine.           *)
(***************************************************************************)
EXTENDS ModifiedUtf8, SequencesExt

CONSTANTS
    MaxDepth,      \* MAX_DEPTH, 512 in the code
    MaxArrayLen    \* MAX_ARRAY_LEN, 2^24

\* Bytes of TAG_BYTE to TAG_DOUBLE, and of an element of each array.
NumberBytes == <<1, 2, 4, 8, 4, 8>>
ElementBytes == [t \in {7, 11, 12} |-> CASE t = 7 -> 1 [] t = 11 -> 4 [] t = 12 -> 8]

\* What was made of the front of some bytes, or that it failed; and the largest
\* vector that room was made for until then.
Parsed(value, used, capacity) == [ok |-> TRUE, value |-> value, used |-> used, capacity |-> capacity]
Broken == [ok |-> FALSE, value |-> <<>>, used |-> 0, capacity |-> 0]

\* One thing and what comes behind it.
Both(a, b) ==
    IF ~a.ok THEN a
    ELSE [ok |-> b.ok, value |-> a.value \o b.value, used |-> a.used + b.used,
          capacity |-> IF a.capacity > b.capacity THEN a.capacity ELSE b.capacity]

Behind(bytes, n) == SubSeq(bytes, n + 1, Len(bytes))

\* read_len, or -1 for its errors.
ArrayLen(bytes) ==
    IF Len(bytes) < 4 \/ bytes[1] >= 128 THEN -1
    ELSE LET n == ((bytes[1] * 256 + bytes[2]) * 256 + bytes[3]) * 256 + bytes[4]
         IN  IF n > MaxArrayLen THEN -1 ELSE n

\* Bytes, i32s and i64s: an array of bytes is there before room is made for it.
Elements(bytes, width) ==
    LET n == ArrayLen(bytes)
        there == (Len(bytes) - 4) \div width
    IN  CASE n < 0      -> Broken
          [] n <= there -> Parsed(SubSeq(bytes, 1, 4 + n * width), 4 + n * width, n)
          [] OTHER      -> [Broken EXCEPT !.capacity = IF width = 1 THEN 0 ELSE there]

\* read_modified_utf8: its characters.
Characters(bytes) ==
    LET n == 256 * bytes[1] + bytes[2]
        Of(text) == IF text.ok THEN Parsed(text.chars, n + 2, 0) ELSE Broken
    IN  IF Len(bytes) >= 2 /\ Len(bytes) >= n + 2
        THEN Of(Decoded(SubSeq(bytes, 3, n + 2))) ELSE Broken

\* write_modified_utf8.
CharacterBytes(chars) ==
    LET Of(written) == <<written[1] \div 256, written[1] % 256>> \o Tail(written)
    IN  Of(WrittenString(chars))

\* NbtCompound::insert: the value under a name that is there is replaced.
Inserted(entries, name, bytes) ==
    IF \E i \in DOMAIN entries : entries[i].name = name
    THEN [entries EXCEPT ![CHOOSE i \in DOMAIN entries : entries[i].name = name].bytes = bytes]
    ELSE Append(entries, [name |-> name, bytes |-> bytes])

RECURSIVE Payload(_, _, _), Items(_, _, _, _), Entries(_, _, _)

\* read_payload.
Payload(type, bytes, depth) ==
    IF depth > MaxDepth THEN Broken ELSE
    CASE type \in DOMAIN NumberBytes ->
            LET n == NumberBytes[type]
            IN  IF Len(bytes) >= n THEN Parsed(SubSeq(bytes, 1, n), n, 0) ELSE Broken
      [] type \in DOMAIN ElementBytes -> Elements(bytes, ElementBytes[type])
      [] type = 8 ->
            LET Of(text) == IF text.ok THEN [text EXCEPT !.value = CharacterBytes(@)] ELSE Broken
            IN  Of(Characters(bytes))
      [] type = 9 ->
            LET n == ArrayLen(Tail(bytes))
                room == IF n < Len(bytes) - 5 THEN n ELSE Len(bytes) - 5
            IN  IF bytes = <<>> \/ n < 0 \/ (bytes[1] = 0 /\ n > 0) THEN Broken
                ELSE Both(Parsed(SubSeq(bytes, 1, 5), 5, room),
                          Items(bytes[1], Behind(bytes, 5), n, depth + 1))
      [] type = 10 -> Entries(bytes, depth + 1, <<>>)
      [] OTHER -> Broken

Items(type, bytes, n, depth) ==
    IF n = 0 THEN Parsed(<<>>, 0, 0)
    ELSE LET From(item) == Both(item, Items(type, Behind(bytes, item.used), n - 1, depth))
         IN  From(Payload(type, bytes, depth))

\* The entries behind those that are known, up to TAG_END.
Entries(bytes, depth, known) ==
    LET Entry(name, item) == <<bytes[1]>> \o CharacterBytes(name.value) \o item.value
        Valued(name, item, used) ==
            Both([item EXCEPT !.value = <<>>, !.used = used],
                 Entries(Behind(bytes, used), depth, Inserted(known, name.value, Entry(name, item))))
        Read(name, item) == Valued(name, item, 1 + name.used + item.used)
        Named(name) ==
            IF name.ok THEN Read(name, Payload(bytes[1], Behind(bytes, 1 + name.used), depth))
            ELSE Broken
    IN  CASE bytes = <<>> -> Broken
          [] bytes # <<>> /\ bytes[1] = 0 ->
                Parsed(Append(FlattenSeq([i \in DOMAIN known |-> known[i].bytes]), 0), 1, 0)
          [] OTHER -> Named(Characters(Tail(bytes)))

ReadNetwork(bytes) ==
    IF bytes = <<>> \/ bytes[1] = 0 THEN Broken
    ELSE Both(Parsed(<<bytes[1]>>, 1, 0), Payload(bytes[1], Tail(bytes), 0))
=============================================================================
