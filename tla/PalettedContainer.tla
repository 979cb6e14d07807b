-------------------------- MODULE PalettedContainer --------------------------
(***************************************************************************)
(* The paletted container of a chunk section (rukkit-world, palette.rs).   *)
(* It has one of three representations:                                    *)
(*   Single     one id for every index: palette <<id>>, no storage         *)
(*   Indirect   a palette, and for each index the slot of its id in it     *)
(*   Direct     the ids themselves                                         *)
(* A write takes the narrowest step that makes room; only shrink and fill  *)
(* go back.  Slots count from 0, as in the code.                           *)
(***************************************************************************)
EXTENDS BitStorage, Varint, FiniteSets

CONSTANTS
    Volume,      \* kind.volume()
    MinBits,     \* kind.min_indirect_bits()
    MaxBits,     \* kind.max_indirect_bits()
    DirectBits,  \* width of a registry id
    Ids          \* the ids callers write

ASSUME PalettedContainerAssumption ==
    /\ Volume \in Nat \ {0}
    /\ MinBits \in Nat \ {0} /\ MaxBits \in Nat /\ DirectBits \in Nat
    /\ MinBits <= MaxBits
    /\ Ids \subseteq Nat

\* BitStorage::new accepts every width the container asks for.
ASSUME StorageAssumption ==
    \A width \in (MinBits .. MaxBits) \cup {DirectBits} : Representable(Volume, width)

\* What is written as a varint fits one: ids, the length of a palette, and how
\* many words there are.
ASSUME WireAssumption ==
    Ids \subseteq Unsigned /\ 2^MaxBits < 2^Width /\ Volume < 2^Width

Indices == 0 .. Volume - 1

VARIABLES
    form,      \* the variant of Repr
    palette,   \* the ids slots stand for
    bits,      \* width of the storage, 0 for Single
    slots,     \* the storage's entries: slots, or ids when Direct
    reply,     \* what the last write returned
    panicked   \* a write has panicked

vars == <<form, palette, bits, slots, reply, panicked>>

-----------------------------------------------------------------------------

\* PalettedContainer::get.
Get(i) == IF form = "Direct" THEN slots[i] ELSE palette[slots[i] + 1]

Content == [i \in Indices |-> Get(i)]

\* What BitStorage::set accepts at a width.
Fits(value, width) == value < 2^width

Named(v) == \E slot \in DOMAIN palette : palette[slot] = v

\* palette.iter().position, counting from 0; no id is in the palette twice.
SlotOf(v) == (CHOOSE slot \in DOMAIN palette : palette[slot] = v) - 1

\* bits_for and the kind's minimum: the least width a palette may have that
\* tells `count` ids apart.
Narrowest(width, count) ==
    /\ width \in MinBits .. MaxBits
    /\ count <= 2^width
    /\ width = MinBits \/ 2^(width - 1) < count

Becomes(f, p, b, s) == form' = f /\ palette' = p /\ bits' = b /\ slots' = s

BecomesSingle(v) == Becomes("Single", <<v>>, 0, [i \in Indices |-> 0])

-----------------------------------------------------------------------------
(* set, one action for each way it can go.                                 *)

SetSame(i, v) ==
    /\ form = "Single" /\ palette = <<v>>
    /\ reply' = v
    /\ UNCHANGED <<form, palette, bits, slots, panicked>>

SetStored(i, v) ==
    /\ form = "Direct"
    /\ Fits(v, DirectBits)
    /\ slots' = [slots EXCEPT ![i] = v]
    /\ reply' = Get(i)
    /\ UNCHANGED <<form, palette, bits, panicked>>

\* Mutated: the answer is the slot that was stored, not its id.
SetNamedAnsweringSlot(i, v) ==
    /\ form = "Indirect" /\ Named(v)
    /\ slots' = [slots EXCEPT ![i] = SlotOf(v)]
    /\ reply' = slots[i]
    /\ UNCHANGED <<form, palette, bits, panicked>>

SetNamed(i, v) ==
    /\ form = "Indirect" /\ Named(v)
    /\ slots' = [slots EXCEPT ![i] = SlotOf(v)]
    /\ reply' = Get(i)
    /\ UNCHANGED <<form, palette, bits, panicked>>

\* Mutated: the palette may grow one past what its slots can name.
SetPushedOnFull(i, v) ==
    /\ form = "Indirect" /\ ~Named(v) /\ Len(palette) <= 2^bits
    /\ palette' = Append(palette, v)
    /\ slots' = [slots EXCEPT ![i] = Len(palette) % 2^bits]
    /\ reply' = Get(i)
    /\ UNCHANGED <<form, bits, panicked>>

\* The palette has a free slot.
SetPushed(i, v) ==
    /\ form = "Indirect" /\ ~Named(v) /\ Len(palette) < 2^bits
    /\ palette' = Append(palette, v)
    /\ slots' = [slots EXCEPT ![i] = Len(palette)]
    /\ reply' = Get(i)
    /\ UNCHANGED <<form, bits, panicked>>

\* A second id: the old one keeps slot 0.
SetSecond(i, v) ==
    /\ form = "Single" /\ palette # <<v>>
    /\ Becomes("Indirect", Append(palette, v), MinBits, [slots EXCEPT ![i] = 1])
    /\ reply' = Get(i)
    /\ UNCHANGED panicked

Full(v) == form = "Indirect" /\ ~Named(v) /\ Len(palette) >= 2^bits

\* The palette is full and one more bit is still a palette's width.
SetWidened(i, v) ==
    /\ Full(v) /\ bits + 1 <= MaxBits
    /\ Becomes("Indirect", Append(palette, v), bits + 1, [slots EXCEPT ![i] = Len(palette)])
    /\ reply' = Get(i)
    /\ UNCHANGED panicked

\* Mutated: the slots are carried over as if they were ids.
SetInlinedSlots(i, v) ==
    /\ Full(v) /\ bits + 1 > MaxBits
    /\ Becomes("Direct", <<>>, DirectBits, [slots EXCEPT ![i] = v])
    /\ reply' = Get(i)
    /\ UNCHANGED panicked

\* Too varied for a palette, and every id fits the direct width.
SetInlined(i, v) ==
    /\ Full(v) /\ bits + 1 > MaxBits
    /\ Fits(v, DirectBits) /\ \A j \in Indices : Fits(Get(j), DirectBits)
    /\ Becomes("Direct", <<>>, DirectBits, [Content EXCEPT ![i] = v])
    /\ reply' = Get(i)
    /\ UNCHANGED panicked

\* An id does not fit the direct width.  A direct storage refuses it untouched;
\* a conversion has already taken the old representation out and left the
\* placeholder Single(v) in its place.
SetPanics(i, v) ==
    /\ \/ /\ form = "Direct" /\ ~Fits(v, DirectBits)
          /\ UNCHANGED <<form, palette, bits, slots>>
       \/ /\ Full(v) /\ bits + 1 > MaxBits
          /\ ~Fits(v, DirectBits) \/ \E j \in Indices : ~Fits(Get(j), DirectBits)
          /\ BecomesSingle(v)
    /\ panicked' = TRUE
    /\ UNCHANGED reply

Set(i, v) ==
    \/ SetSame(i, v) \/ SetStored(i, v) \/ SetNamed(i, v) \/ SetPushed(i, v)
    \/ SetSecond(i, v) \/ SetWidened(i, v) \/ SetInlined(i, v)

-----------------------------------------------------------------------------
(* fill and shrink.                                                        *)

Fill(v) ==
    /\ BecomesSingle(v)
    /\ UNCHANGED <<reply, panicked>>

Distinct == {Get(i) : i \in Indices}

FirstAt(v) == CHOOSE i \in Indices : Get(i) = v /\ \A j \in 0 .. i - 1 : Get(j) # v

\* `order` lists the distinct ids as for_each meets them.
ListsInOrder(order) ==
    /\ {order[n] : n \in DOMAIN order} = Distinct
    /\ \A m, n \in DOMAIN order : m < n => FirstAt(order[m]) < FirstAt(order[n])

SlotIn(order, v) == (CHOOSE n \in DOMAIN order : order[n] = v) - 1

\* All entries are equal: one id is enough.
ShrinkToSingle ==
    /\ form # "Single"
    /\ \E v \in Distinct : Distinct = {v} /\ BecomesSingle(v)
    /\ UNCHANGED <<reply, panicked>>

\* Mutated: the stored slots are kept although the palette is reordered.
ShrinkToPaletteInPlace(order, width) ==
    /\ form # "Single" /\ Cardinality(Distinct) > 1
    /\ ListsInOrder(order) /\ Narrowest(width, Len(order))
    /\ Becomes("Indirect", order, width,
               [i \in Indices |-> IF form = "Indirect" /\ slots[i] < Len(order) THEN slots[i]
                                  ELSE SlotIn(order, Get(i))])
    /\ UNCHANGED <<reply, panicked>>

\* Mutated: the width follows the old palette, unused ids included.
ShrinkKeepingWidth(order, width) ==
    /\ form # "Single" /\ Cardinality(Distinct) > 1
    /\ ListsInOrder(order) /\ Narrowest(width, Len(order))
    /\ Becomes("Indirect", order, IF form = "Indirect" /\ bits > MinBits THEN bits - 1 ELSE width,
               [i \in Indices |-> SlotIn(order, Get(i))])
    /\ UNCHANGED <<reply, panicked>>

\* A palette of exactly the ids in use, at the narrowest width for it, if there
\* is one.
ShrinkToPalette(order, width) ==
    /\ form # "Single" /\ Cardinality(Distinct) > 1
    /\ ListsInOrder(order) /\ Narrowest(width, Len(order))
    /\ Becomes("Indirect", order, width, [i \in Indices |-> SlotIn(order, Get(i))])
    /\ UNCHANGED <<reply, panicked>>

\* The vector shrink collects holds as many ids as the content has.
Lists == [1 .. Cardinality(Distinct) -> Distinct]

Shrink ==
    \/ ShrinkToSingle
    \/ \E order \in Lists, width \in MinBits .. MaxBits : ShrinkToPalette(order, width)

-----------------------------------------------------------------------------
(* The wire format: fields with their value and their width in bytes.      *)

ByteField(v) == [value |-> v, width |-> 1]
VarintField(v) == [value |-> v, width |-> VarintLen(v)]

\* The words of the storage, into which its entries were set one by one.
Packed ==
    LET set[n \in 0 .. Volume] == IF n = 0 THEN Zeroed(Volume, bits)
                                  ELSE BitSet(set[n - 1], n - 1, slots[n - 1])
    IN  set[Volume].data

\* write_cells: how many words, and the words.
CellFields ==
    LET words == Packed
        cells == CellsRequired(Volume, bits)
    IN  <<VarintField(cells)>> \o [cell \in 1 .. cells |-> [value |-> words[cell - 1], width |-> 8]]

\* PalettedContainer::write.
Written ==
    CASE form = "Single"   -> <<ByteField(0), VarintField(palette[1]), VarintField(0)>>
      [] form = "Indirect" -> <<ByteField(bits), VarintField(Len(palette))>>
                                \o [n \in DOMAIN palette |-> VarintField(palette[n])] \o CellFields
      [] form = "Direct"   -> <<ByteField(bits)>> \o CellFields

\* The bytes of some fields.
Length(fields) ==
    LET sum[n \in 0 .. Len(fields)] == IF n = 0 THEN 0 ELSE sum[n - 1] + fields[n].width
    IN  sum[Len(fields)]

\* What a client makes of the fields: the width says which of the three forms
\* they are in, and anything wider than a palette may be is direct.
ReadBack(fields) ==
    LET width == fields[1].value
        ids == fields[2].value
        Entries(n, w) == BitEntries([len |-> Volume, bits |-> w,
                            data |-> [cell \in 0 .. fields[n].value - 1 |-> fields[n + 1 + cell].value]])
    IN  CASE width = 0 -> [i \in Indices |-> fields[2].value]
          [] width \in 1 .. MaxBits ->
                [i \in Indices |-> fields[3 + Entries(3 + ids, width)[i]].value]
          [] OTHER -> Entries(2, DirectBits)

PaletteWidth == LET w[n \in 0 .. Len(palette)] == IF n = 0 THEN 0 ELSE w[n - 1] + VarintLen(palette[n])
                IN  w[Len(palette)]

CellsWidth == VarintLen(CellsRequired(Volume, bits)) + 8 * CellsRequired(Volume, bits)

\* Mutated: a palette's ids are taken to be one byte each.
WireLenShortIds ==
    CASE form = "Single"   -> 1 + VarintLen(palette[1]) + 1
      [] form = "Indirect" -> 1 + VarintLen(Len(palette)) + Len(palette) + CellsWidth
      [] form = "Direct"   -> 1 + CellsWidth

\* PalettedContainer::wire_len, which is computed without writing.
WireLen ==
    CASE form = "Single"   -> 1 + VarintLen(palette[1]) + 1
      [] form = "Indirect" -> 1 + VarintLen(Len(palette)) + PaletteWidth + CellsWidth
      [] form = "Direct"   -> 1 + CellsWidth

-----------------------------------------------------------------------------

Init ==
    /\ \E v \in Ids : form = "Single" /\ palette = <<v>>
    /\ bits = 0
    /\ slots = [i \in Indices |-> 0]
    /\ reply \in Ids
    /\ panicked = FALSE

Next ==
    \/ \E v \in Ids : Fill(v) \/ \E i \in Indices : Set(i, v) \/ SetPanics(i, v)
    \/ Shrink

Spec == Init /\ [][Next]_vars

-----------------------------------------------------------------------------
(* Properties.                                                             *)

TypeOK ==
    /\ form \in {"Single", "Indirect", "Direct"}
    /\ palette \in Seq(Ids)
    /\ bits \in Nat
    /\ slots \in [Indices -> Nat]
    /\ reply \in Ids
    /\ panicked \in BOOLEAN

\* Every slot names an entry of the palette, the palette has no more entries
\* than its width can name and no id twice, and its width is one a palette may
\* have: whatever sequence of writes, fills and shrinks came before.
RepresentationSound ==
    /\ form = "Single" => Len(palette) = 1 /\ bits = 0 /\ \A i \in Indices : slots[i] = 0
    /\ form = "Indirect" =>
         /\ \A i \in Indices : slots[i] < Len(palette)
         /\ Len(palette) <= 2^bits
         /\ \A m, n \in DOMAIN palette : palette[m] = palette[n] => m = n
         /\ MinBits <= bits /\ bits <= MaxBits
    /\ form = "Direct" => bits = DirectBits /\ \A i \in Indices : Fits(slots[i], bits)

Array == INSTANCE BlockArray WITH content <- Content, Regions <- {Indices}, Beyond <- {}

\* The container is an array of ids whatever its representation: a promotion or
\* a shrink loses no entry and moves none, and every write answers with the id
\* it replaced.  Only a write that panics may lose the content.
Stores == Array!Spec

\* palette.rs, module comment: promotion "never reverses on its own; shrink
\* recomputes the minimal representation".  A container gets narrower only with
\* its content unchanged, and then as narrow as that content allows, or when it
\* is filled (or a panic has left a placeholder).
NarrowsOnlyToFit ==
    [][bits' < bits =>
          \/ Content' = Content /\ Narrowest(bits', Cardinality(Distinct))
          \/ bits' = 0 /\ \E v \in Ids : Distinct' = {v}]_vars

\* wire_len, which is computed without writing, is the length of what write
\* produces, and a client that reads it back has the content: whichever form the
\* history has led to, the width byte names it, since direct ids are wider than
\* any palette's slots (as they are for both kinds in the code).
WireFaithful ==
    /\ Length(Written) = WireLen
    /\ MaxBits < DirectBits => ReadBack(Written) = Content

\* No write panics: not so for any ids, but for those that fit a registry.
NeverPanics == ~panicked
=============================================================================
