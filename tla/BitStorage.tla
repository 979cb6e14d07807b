----------------------------- MODULE BitStorage -----------------------------
(***************************************************************************)
(* Packed bit storage (rukkit-world, bitstorage.rs).  A storage is a record*)
(* of its length, the width of its entries and its words; a word holds     *)
(* WordBits \div bits entries and none straddles two words.  Shifts and    *)
(* masks are quotients and remainders by powers of two.                    *)
(***************************************************************************)
EXTENDS Naturals

CONSTANTS
    WordBits,   \* bits of a word (64 in the code)
    Scale       \* the reciprocal's scale (2^32 in the code)

ASSUME BitStorageAssumption ==
    /\ WordBits \in Nat \ {0}
    /\ Scale \in Nat \ {0}

PerWord(bits) == WordBits \div bits

\* cells_required: ceil(len / PerWord(bits)).
CellsRequired(len, bits) == (len + PerWord(bits) - 1) \div PerWord(bits)

\* Storages the constructor accepts: `index * error < Scale` for every index.
Representable(len, bits) ==
    /\ bits \in 1 .. WordBits \div 2
    /\ len < Scale \div WordBits

\* BitStorage::new.
Zeroed(len, bits) ==
    [len |-> len, bits |-> bits, data |-> [cell \in 0 .. CellsRequired(len, bits) - 1 |-> 0]]

\* reciprocal: ceil(Scale / d).
Reciprocal(d) == (Scale + d - 1) \div d

\* cell_of, by multiplication and a shift.
CellOf(s, index) == (index * Reciprocal(PerWord(s.bits))) \div Scale

Offset(s, index) == (index - CellOf(s, index) * PerWord(s.bits)) * s.bits

\* The field of `bits` bits at an offset of a word.
Field(word, offset, bits) == (word \div 2^offset) % 2^bits

\* BitStorage::get.
BitGet(s, index) == Field(s.data[CellOf(s, index)], Offset(s, index), s.bits)

\* Mutated: the old value is not masked out first.
BitSetOver(s, index, value) ==
    LET cell == CellOf(s, index)
        word == s.data[cell]
    IN  [s EXCEPT !.data[cell] = word + value * 2^Offset(s, index)]

\* BitStorage::set, for a value that fits.
BitSet(s, index, value) ==
    LET cell == CellOf(s, index)
        word == s.data[cell]
        offset == Offset(s, index)
    IN  [s EXCEPT !.data[cell] =
            word - Field(word, offset, s.bits) * 2^offset + value * 2^offset]

\* for_each: word by word, entry by entry.
BitEntries(s) ==
    [index \in 0 .. s.len - 1 |->
        Field(s.data[index \div PerWord(s.bits)], (index % PerWord(s.bits)) * s.bits, s.bits)]
=============================================================================
