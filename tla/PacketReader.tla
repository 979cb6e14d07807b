----------------------------- MODULE PacketReader -----------------------------
(***************************************************************************)
(* Reading one packet (rukkit-server, connection.rs, and rukkit-protocol,  *)
(* packets/mod.rs and reader.rs): the id, the fields of the layout that    *)
(* belongs to it, and the end of the frame.  decode_body is a sequence of  *)
(* reads that ends with the first error; here each read is a step, and the *)
(* fields still to be read are a list that arrays and options extend.      *)
(***************************************************************************)
EXTENDS Fields

CONSTANTS
    Known,      \* for each protocol state, the layouts of the ids it knows
    Ignoring,   \* the states that pass over other ids
    Bare,       \* layouts read by a decode_body alone, under names of their own:
                \* there is no id in front, and nobody looks at what follows
    Inputs      \* frames that arrive, each in a protocol state, or bytes for such a
                \* layout, and of each the packets that were written as these bytes

ASSUME PacketReaderAssumption ==
    \A i \in Inputs :
        /\ i.bytes \in Seq(Byte)
        /\ \A n \in 0 .. Len(i.bytes) : NbtFits(SubSeq(i.bytes, n + 1, Len(i.bytes)))

VARIABLES
    input,      \* the frame that arrived
    rest,       \* the bytes not read yet
    at,         \* "id", "body", "done", "ignored" or "refused"
    todo,       \* the fields that are still to be read
    got,        \* what has been read: name, kind and value of each field
    copied,     \* bytes that are kept in strings and vectors
    reserved    \* the largest capacity a vector of elements was made with

vars == <<input, rest, at, todo, got, copied, reserved>>

\* What goes to clients has no reader here.
Layouts == IF input.state \in DOMAIN Known THEN Known[input.state] ELSE <<>>

After(n) == SubSeq(rest, n + 1, Len(rest))

-----------------------------------------------------------------------------
(* split_id, and the match on the id.                                      *)

Id == ReadInt(rest)

ReadId ==
    /\ at = "id" /\ Id.ok /\ Id.value \in DOMAIN Layouts
    /\ at' = "body"
    /\ todo' = Layouts[Id.value]
    /\ rest' = After(Id.used)
    /\ got' = <<[name |-> "id", kind |-> "varint", value |-> Id.value]>>
    /\ UNCHANGED <<input, copied, reserved>>

Stop(why) == at' = why /\ UNCHANGED <<input, rest, todo, got, copied, reserved>>

IgnoreId ==
    /\ at = "id" /\ Id.ok /\ Id.value \notin DOMAIN Layouts /\ input.state \in Ignoring
    /\ Stop("ignored")

RefuseId ==
    /\ at = "id"
    /\ Id.ok => Id.value \notin DOMAIN Layouts /\ input.state \notin Ignoring
    /\ Stop("refused")

-----------------------------------------------------------------------------
(* decode_body.                                                            *)

Coming == Head(todo)

Reading == at = "body" /\ todo # <<>>

Found == ReadField(Coming.type, rest)

\* One field is read; what it holds comes before the fields behind it.
Reads(found, within) ==
    /\ found.ok
    /\ rest' = After(found.used)
    /\ todo' = within \o Tail(todo)
    /\ got' = Append(got, [name |-> Coming.name, kind |-> Coming.type.kind, value |-> found.value])
    /\ UNCHANGED <<input, at>>

\* What read_string, to_vec and read_network keep.
Kept(kind, used) == IF kind \in {"text", "bytes", "nbt", "rest"} THEN used ELSE 0

Larger(a, b) == IF a > b THEN a ELSE b

\* A tag makes room for its own lists and arrays, and may fail after that.
ReservesNbt(found) == reserved' = IF Coming.type.kind = "nbt" THEN Larger(reserved, found.capacity) ELSE reserved

ReadLeaf ==
    /\ Reading /\ Coming.type.kind \notin {"array", "option"}
    /\ Reads(Found, <<>>)
    /\ copied' = copied + Kept(Coming.type.kind, Found.used)
    /\ ReservesNbt(Found)

\* So many copies of a layout, one after another.
Repeated(n, of) == [i \in 1 .. n * Len(of) |-> of[((i - 1) % Len(of)) + 1]]

\* Mutated: the capacity is what the length announces.
OpenArrayEager ==
    /\ Reading /\ Coming.type.kind = "array"
    /\ Reads(Found, Repeated(Found.value, Coming.type.of))
    /\ reserved' = Larger(reserved, Found.value)
    /\ UNCHANGED copied

\* read_array: the capacity is capped by the bytes on hand.
OpenArray ==
    /\ Reading /\ Coming.type.kind = "array"
    /\ Reads(Found, Repeated(Found.value, Coming.type.of))
    /\ reserved' = Larger(reserved, IF Found.value > Len(rest') THEN Len(rest') ELSE Found.value)
    /\ UNCHANGED copied

\* read_option.
OpenOption ==
    /\ Reading /\ Coming.type.kind = "option"
    /\ Reads(Found, IF Found.value THEN Coming.type.of ELSE <<>>)
    /\ UNCHANGED <<copied, reserved>>

RefuseField ==
    /\ Reading /\ ~Found.ok
    /\ at' = "refused"
    /\ ReservesNbt(Found)
    /\ UNCHANGED <<input, rest, todo, got, copied>>

-----------------------------------------------------------------------------
(* expect_finished, which decode_exact adds to decode_body.                *)

\* Mutated: what follows the last field is not looked at.
FinishAnyway == at = "body" /\ todo = <<>> /\ Stop("done")

Finish ==
    /\ at = "body" /\ todo = <<>>
    /\ rest = <<>> \/ input.state \in DOMAIN Bare
    /\ Stop("done")

RefuseTrailing ==
    /\ at = "body" /\ todo = <<>>
    /\ rest # <<>> /\ input.state \notin DOMAIN Bare
    /\ Stop("refused")

Init ==
    /\ input \in Inputs
    /\ rest = input.bytes
    /\ IF input.state \in DOMAIN Bare THEN at = "body" /\ todo = Bare[input.state]
                                      ELSE at = "id" /\ todo = <<>>
    /\ got = <<>>
    /\ copied = 0
    /\ reserved = 0

Next ==
    \/ ReadId \/ IgnoreId \/ RefuseId
    \/ ReadLeaf \/ OpenArray \/ OpenOption \/ RefuseField
    \/ Finish \/ RefuseTrailing

Spec == Init /\ [][Next]_vars

-----------------------------------------------------------------------------
(* Properties.                                                             *)

\* reader.rs:8, "the bytes come from the network", and reader.rs:246, an absurd
\* length "cannot be turned into an allocation": whatever the lengths in a frame
\* announce, what is kept of it and what is reserved for it is no more than the
\* frame has bytes.
MemoryBounded ==
    /\ copied + Len(rest) <= Len(input.bytes)
    /\ reserved <= Len(input.bytes)

\* The bytes of fields that are written one after another.
LeafBytes(leaves) == FlattenSeq([i \in DOMAIN leaves |-> Written(leaves[i].kind, leaves[i].value)])

\* Whether the last byte of a varint, of so many groups, says anything.
Adds(b) == ((b % Base) * 2^(Group * (MaxVarintBytes - 1))) % 2^Width # 0

\* A varint in more bytes than it takes.
Padded(read) == \E i \in 1 .. Len(read) - 1 : read[i] >= Base /\ ~Adds(read[i + 1])

\* A byte that is written again as it was read; or that was taken for true; or the
\* last of a varint, which may have more bits than its integer.
SameAt(again, read, i) ==
    \/ again[i] = read[i]
    \/ again[i] = 1 /\ read[i] > 1
    \/ i >= MaxVarintBytes /\ \A j \in i - MaxVarintBytes + 1 .. i - 1 : read[j] >= Base

WrittenAlike(again, read) ==
    \/ Len(again) < Len(read) /\ Padded(read)
    \/ Len(again) = Len(read) /\ \A i \in 1 .. Len(read) : SameAt(again, read, i)

NbtFree == \A i \in DOMAIN got : got[i].kind # "nbt"

\* packets/mod.rs:48, "requires it to be consumed exactly": of a frame that is
\* accepted nothing is left, and what was taken is what would be written for what
\* was read, so that nothing in it went unnoticed.  The readers of fields are lenient
\* in three ways: a varint in more bytes than it takes, any byte but zero for true,
\* and the bits of a varint's last byte that its integer has no room for.  NBT has
\* leniencies of its own, of which NbtReader tells.  A bare layout leaves what follows.
NothingUnnoticed ==
    at = "done" =>
        LET read == SubSeq(input.bytes, 1, Len(input.bytes) - Len(rest))
        IN  /\ rest = <<>> \/ input.state \in DOMAIN Bare
            /\ NbtFree => WrittenAlike(LeafBytes(got), read)
=============================================================================
