----------------------------- MODULE Chunk_proofs -----------------------------
(***************************************************************************)
(* Bit storage: the reciprocal that it divides by is exact for every       *)
(* storage the constructor accepts, so that random access and a walk over  *)
(* the words see the same entries.  Rounding 1/d up to R/Scale makes R * d *)
(* exceed Scale by less than d; over an index that excess adds up to less  *)
(* than one scale, and the quotient is not carried over.                   *)
(*                                                                         *)
(* The column: sections and heights within them address every block of the *)
(* world exactly once (Addressed, Located), for any section size and floor,*)
(* so that the stack of sections implements one array of blocks, and what  *)
(* the generator fills by sections and layers is what block_at describes.  *)
(*                                                                         *)
(* Heightmaps: a storage is packed words (EntriesArePacked), so a write    *)
(* changes one entry of it (BitSetIs). What a scan knows after the rows    *)
(* from r up (Seen) is carried from row to row and over both early exits   *)
(* down to the floor (StackSeen), and the entries are then those heights   *)
(* (RecomputedIs). That makes HeightsPacked inductive: a write marks the   *)
(* map stale, and what leaves it fresh leaves the blocks alone.            *)
(***************************************************************************)
EXTENDS Chunk, Arithmetic

-----------------------------------------------------------------------------
(* Bit storage.                                                            *)

Words == 0 .. 2^WordBits - 1

Storages(len, bits) ==
    [len : {len}, bits : {bits}, data : [0 .. CellsRequired(len, bits) - 1 -> Words]]

\* What the constructor checks, as the lemmas on packed words ask for it.
LEMMA RepresentableIs ==
    ASSUME NEW bits \in Nat, NEW len \in Nat, Representable(len, bits)
    PROVE  /\ WordBits \in Nat \ {0} /\ Scale \in Nat \ {0}
           /\ bits \in 1 .. WordBits \div 2 /\ len < Scale \div WordBits
           /\ PerWord(bits) \in Nat \ {0}
           /\ Packings(WordBits, bits, len) = [0 .. CellsRequired(len, bits) - 1 -> Words]
<1>1. /\ WordBits \in Nat \ {0} /\ Scale \in Nat \ {0}
      /\ bits \in 1 .. WordBits \div 2 /\ len < Scale \div WordBits
  BY BitStorageAssumption DEF Representable
<1>2. PerWord(bits) \in Nat \ {0}
  <2>1. 0 \in 0 .. 1 - 1
    OBVIOUS
  <2> QED
    BY <1>1, <2>1, EntryPlace DEF PerWord
<1>. DEFINE d == PerWord(bits)
<1>3. Packings(WordBits, bits, len) = [0 .. (len + (d - 1)) \div d - 1 -> Words]
  BY DEF Packings, Words, PerWord
<1> QED
  BY <1>1, <1>2 DEF Packings, CellsRequired, PerWord, Words

\* bitstorage.rs, reciprocal and cell_of: "exact" for every index of every
\* storage that new accepts, and therefore the offset is that of the entry in
\* its word.
THEOREM CellExact ==
    ASSUME NEW bits \in Nat, NEW len \in Nat, Representable(len, bits),
           NEW s, s.bits = bits, NEW index \in 0 .. len - 1
    PROVE  /\ CellOf(s, index) = index \div PerWord(bits)
           /\ Offset(s, index) = (index % PerWord(bits)) * bits
<1>. DEFINE d == PerWord(bits)
            q == index \div d
            r == index % d
<1>1. /\ WordBits \in Nat \ {0} /\ Scale \in Nat \ {0}
      /\ bits \in 1 .. WordBits \div 2 /\ len < Scale \div WordBits
      /\ d \in Nat \ {0}
  BY RepresentableIs
<1>2. CellOf(s, index) = q
  BY <1>1, EntryByReciprocal DEF CellOf, Reciprocal, PerWord
<1>3. q \in Nat /\ r \in 0 .. d - 1 /\ index = q * d + r
  <2>1. index \in Nat
    OBVIOUS
  <2>. HIDE DEF d
  <2> QED
    BY <1>1, <2>1, DivModOf
<1>. HIDE DEF q, r
<1>4. index - q * d = r
  BY <1>1, <1>3, SMT
<1>5. Offset(s, index) = (index - q * d) * bits
  BY <1>2 DEF Offset
<1> QED
  BY <1>2, <1>4, <1>5 DEF q, r

\* bitstorage.rs, get and for_each: random access and the walk over the words
\* agree on every entry of every storage that new accepts.
THEOREM GetIsWalked ==
    ASSUME NEW s, s.bits \in Nat, s.len \in Nat, Representable(s.len, s.bits),
           NEW index \in 0 .. s.len - 1
    PROVE  BitGet(s, index) = BitEntries(s)[index]
<1>1. /\ CellOf(s, index) = index \div PerWord(s.bits)
      /\ Offset(s, index) = (index % PerWord(s.bits)) * s.bits
  BY CellExact
<1> QED
  BY <1>1 DEF BitGet, BitEntries

\* What a walk finds are the entries packed in the words.
LEMMA EntriesArePacked ==
    ASSUME NEW bits, NEW len, NEW s, s.bits = bits, s.len = len
    PROVE  \A j \in 0 .. len - 1 : BitEntries(s)[j] = PackedEntry(WordBits, bits, s.data, j)
BY DEF BitEntries, PackedEntry, WordField, Field, PerWord

\* A write into a storage changes the entry it names and no other.
LEMMA BitSetIs ==
    ASSUME NEW bits \in Nat, NEW len \in Nat, Representable(len, bits),
           NEW s \in Storages(len, bits), NEW i \in 0 .. len - 1, NEW v \in 0 .. 2^bits - 1
    PROVE  /\ BitSet(s, i, v) \in Storages(len, bits)
           /\ \A j \in 0 .. len - 1 :
                 BitEntries(BitSet(s, i, v))[j] = IF j = i THEN v ELSE BitEntries(s)[j]
<1>. DEFINE after == BitSet(s, i, v)
            put == PackedPut(WordBits, bits, s.data, i, v)
<1>1. /\ s.len = len /\ s.bits = bits
      /\ s.data \in [0 .. CellsRequired(len, bits) - 1 -> Words]
      /\ s.data \in Packings(WordBits, bits, len)
  BY RepresentableIs DEF Storages
<1>2. WordBits \in Nat \ {0} /\ bits \in 1 .. WordBits \div 2
  BY RepresentableIs
<1>3. after = [s EXCEPT !.data = put]
  <2>1. CellOf(s, i) = i \div PerWord(bits) /\ Offset(s, i) = (i % PerWord(bits)) * bits
    BY <1>1, CellExact
  <2>2. put = [s.data EXCEPT ![CellOf(s, i)] =
                  WordWith(s.data[CellOf(s, i)], Offset(s, i), bits, v)]
    BY <2>1 DEF PackedPut, PerWord
  <2> QED
    BY <1>1, <2>2 DEF BitSet, WordWith, WordField, Field
<1>4. put \in Packings(WordBits, bits, len)
  BY <1>1, <1>2, PackedPutIs
<1>5. \A j \in 0 .. len - 1 :
         PackedEntry(WordBits, bits, put, j) =
             IF j = i THEN v ELSE PackedEntry(WordBits, bits, s.data, j)
  BY <1>1, <1>2, PackedPutIs
<1>6. put \in [0 .. CellsRequired(len, bits) - 1 -> Words]
  BY <1>4, RepresentableIs
<1>. HIDE DEF after, put
<1>7. after \in Storages(len, bits) /\ after.bits = bits /\ after.len = len /\ after.data = put
  BY <1>3, <1>6 DEF Storages
<1>8. \A j \in 0 .. len - 1 : BitEntries(after)[j] = PackedEntry(WordBits, bits, put, j)
  BY <1>7, EntriesArePacked
<1>9. \A j \in 0 .. len - 1 : BitEntries(s)[j] = PackedEntry(WordBits, bits, s.data, j)
  BY <1>1, EntriesArePacked
<1> QED
  BY <1>5, <1>7, <1>8, <1>9 DEF after

\* A new storage holds nothing but zeros.
LEMMA ZeroedIs ==
    ASSUME NEW bits \in Nat, NEW len \in Nat, Representable(len, bits)
    PROVE  /\ Zeroed(len, bits) \in Storages(len, bits)
           /\ \A j \in 0 .. len - 1 : BitEntries(Zeroed(len, bits))[j] = 0
<1>. DEFINE zeros == [cell \in 0 .. CellsRequired(len, bits) - 1 |-> 0]
<1>1. WordBits \in Nat \ {0} /\ bits \in 1 .. WordBits \div 2
  BY RepresentableIs
<1>2. zeros \in Packings(WordBits, bits, len)
  BY <1>1, PackedZeros DEF CellsRequired, PerWord
<1>3. \A j \in 0 .. len - 1 : PackedEntry(WordBits, bits, zeros, j) = 0
  BY <1>1, PackedZeros DEF CellsRequired, PerWord
<1>4. zeros \in [0 .. CellsRequired(len, bits) - 1 -> Words]
  BY <1>2, RepresentableIs
<1>5. Zeroed(len, bits) = [len |-> len, bits |-> bits, data |-> zeros]
  BY DEF Zeroed
<1>. HIDE DEF zeros
<1>6. Zeroed(len, bits) \in Storages(len, bits)
  BY <1>4, <1>5 DEF Storages
<1>7. \A j \in 0 .. len - 1 :
         BitEntries(Zeroed(len, bits))[j] = PackedEntry(WordBits, bits, zeros, j)
  BY <1>5, EntriesArePacked
<1> QED
  BY <1>3, <1>6, <1>7

-----------------------------------------------------------------------------
(* Addressing.                                                             *)

\* A world is a whole number of sections.
LEMMA WorldOfSections ==
    /\ SectionCount \in Nat \ {0} /\ Height = SectionCount * Size
    /\ Size \in Nat \ {0} /\ MinY \in Int /\ MaxY = MinY + Height - 1
<1>1. Size \in Nat \ {0} /\ Height \in Nat \ {0} /\ Height % Size = 0 /\ MinY \in Int
  BY ChunkAssumption
<1>2. /\ Height \div Size \in Nat /\ Height % Size \in 0 .. Size - 1
      /\ Height = Size * (Height \div Size) + (Height % Size)
  BY <1>1, SMT
<1>. DEFINE k == Height \div Size
<1>3. k \in Nat /\ Height = Size * k
  BY <1>1, <1>2
<1>4. SectionCount = k
  BY DEF SectionCount
<1>. HIDE DEF k
<1>5. Height = k * Size /\ k # 0
  BY <1>1, <1>3, SMT
<1> QED
  BY <1>1, <1>3, <1>4, <1>5 DEF MaxY

\* Every height of the world lies at one height of one section ...
LEMMA Addressed ==
    ASSUME NEW y \in MinY .. MaxY
    PROVE  /\ y \in Int /\ Contains(y)
           /\ SectionOf(y) \in SectionIds /\ LocalY(y) \in LocalYs
           /\ y = MinY + SectionOf(y) * Size + LocalY(y)
<1>1. /\ Size \in Nat \ {0} /\ MinY \in Int /\ MaxY = MinY + Height - 1
      /\ SectionCount \in Nat \ {0} /\ Height = SectionCount * Size
  BY WorldOfSections
<1>. DEFINE n == y - MinY
            q == n \div Size
            r == n % Size
<1>0. Height \in Nat
  BY ChunkAssumption
<1>2. n \in Nat /\ n < Height /\ y \in Int /\ MinY <= y /\ y <= MaxY /\ y = MinY + n
  BY <1>0, <1>1, SMT
<1>. HIDE DEF n
<1>3. q \in Nat /\ r \in 0 .. Size - 1 /\ n = Size * q + r
  BY <1>1, <1>2, SMT
<1>4. SectionOf(y) = q /\ LocalY(y) = r
  BY DEF SectionOf, LocalY, n
<1>. HIDE DEF q, r
<1>5. q < SectionCount
  <2> SUFFICES ASSUME ~ q < SectionCount PROVE FALSE
    OBVIOUS
  <2>1. SectionCount * Size <= q * Size
    BY <1>1, <1>3, SMT
  <2> QED
    BY <1>1, <1>2, <1>3, <2>1, SMT
<1>6. n = q * Size + r
  BY <1>1, <1>3, SMT
<1>7. q * Size \in Nat /\ r \in Nat
  BY <1>1, <1>3, SMT
<1>8. y = MinY + q * Size + r
  BY <1>1, <1>2, <1>6, <1>7, SMT
<1>9. q \in SectionIds /\ r \in LocalYs
  BY <1>1, <1>3, <1>5, SMT DEF SectionIds, LocalYs
<1> QED
  BY <1>2, <1>4, <1>8, <1>9 DEF Contains

\* ... and no other height lies there.
LEMMA Located ==
    ASSUME NEW y \in MinY .. MaxY, NEW z \in MinY .. MaxY,
           SectionOf(y) = SectionOf(z), LocalY(y) = LocalY(z)
    PROVE  y = z
BY Addressed

\* A height of a section is one of the heights the generator looks at for it.
LEMMA WithinSection ==
    ASSUME NEW y \in MinY .. MaxY
    PROVE  LET base == MinY + SectionOf(y) * Size
           IN  y \in base .. base + Size - 1 /\ y = base + LocalY(y)
<1>1. y = MinY + SectionOf(y) * Size + LocalY(y) /\ LocalY(y) \in LocalYs /\ y \in Int
      /\ SectionOf(y) \in SectionIds
  BY Addressed
<1>. DEFINE b == MinY + SectionOf(y) * Size
<1>2. b \in Int
  <2>1. SectionOf(y) \in Nat /\ Size \in Nat /\ MinY \in Int
    BY <1>1, WorldOfSections, SMT DEF SectionIds
  <2>2. SectionOf(y) * Size \in Int
    BY <2>1, SMT
  <2> QED
    BY <2>1, <2>2
<1>3. y = b + LocalY(y)
  BY <1>1
<1>. HIDE DEF b
<1>4. Size \in Nat
  BY WorldOfSections
<1>5. y \in b .. b + Size - 1
  BY <1>1, <1>2, <1>3, <1>4 DEF LocalYs
<1> QED
  BY <1>3, <1>5 DEF b

-----------------------------------------------------------------------------
(* The column.                                                             *)

Sections == [SectionIds -> [LocalYs -> [ColumnIds -> Blocks]]]

\* What the column is made of, and that nothing has been written to it yet if the
\* count says so.
Column ==
    /\ sections \in Sections
    /\ generator \in {VoidGenerator} \cup FlatGenerators
    /\ reply \in Blocks
    /\ writes \in Nat
    /\ writes = 0 => sections = Generated(generator)

\* A flat generator has a block for every height.
LEMMA BlockAtType ==
    ASSUME NEW g \in FlatGenerators, NEW y \in Int
    PROVE  BlockAt(g, y) \in Blocks
<1>1. g.surface_y \in Int /\ g.dirt_depth \in Nat /\ MinY \in Int
  BY ChunkAssumption DEF FlatGenerators
<1> QED
  BY <1>1 DEF BlockAt, Blocks, Air

LEMMA UniformType == ASSUME NEW v \in Blocks PROVE Uniform(v) \in [LocalYs -> [ColumnIds -> Blocks]]
BY DEF Uniform, Layer

LEMMA GeneratedType ==
    ASSUME NEW g \in {VoidGenerator} \cup FlatGenerators
    PROVE  Generated(g) \in Sections
<1>1. ASSUME NEW index \in SectionIds, g.flat
      PROVE  GeneratedSection(g, index) \in [LocalYs -> [ColumnIds -> Blocks]]
  <2>1. g \in FlatGenerators
    BY <1>1 DEF VoidGenerator
  <2>. DEFINE base == MinY + index * Size
  <2>2. base \in Int
    <3>1. index \in Nat /\ Size \in Nat /\ MinY \in Int
      BY WorldOfSections, SMT DEF SectionIds
    <3>2. index * Size \in Int
      BY <3>1, SMT
    <3> QED
      BY <3>1, <3>2
  <2>. HIDE DEF base
  <2>3. BlockAt(g, base) \in Blocks
    BY <2>1, <2>2, BlockAtType
  <2>4. ASSUME NEW ly \in LocalYs PROVE Layer(BlockAt(g, base + ly)) \in [ColumnIds -> Blocks]
    <3>1. base + ly \in Int
      BY <2>2 DEF LocalYs
    <3>2. BlockAt(g, base + ly) \in Blocks
      BY <2>1, <3>1, BlockAtType
    <3> QED
      BY <3>2 DEF Layer
  <2>5. Uniform(BlockAt(g, base)) \in [LocalYs -> [ColumnIds -> Blocks]]
    BY <2>3, UniformType
  <2>6. [ly \in LocalYs |-> Layer(BlockAt(g, base + ly))] \in [LocalYs -> [ColumnIds -> Blocks]]
    BY <2>4
  <2> QED
    BY <2>5, <2>6, Zenon DEF GeneratedSection, base
<1>2. Uniform(Air) \in [LocalYs -> [ColumnIds -> Blocks]]
  BY UniformType DEF Air, Blocks
<1> QED
  BY <1>1, <1>2 DEF Generated, Sections

LEMMA InitColumn == Init => Column
BY GeneratedType DEF Init, Column, Air, Blocks

\* A write changes one block of one layer, and a fill one section.
LEMMA NextColumn == Column /\ [Next]_vars => Column'
<1> SUFFICES ASSUME Column, [Next]_vars PROVE Column'
  OBVIOUS
<1>1. ASSUME NEW c \in Touched, NEW y \in Ys, NEW v \in Written, SetBlock(c, y, v)
      PROVE  Column'
  <2>1. c \in ColumnIds /\ v \in Blocks
    BY ChunkAssumption, WrittenAssumption DEF ColumnIds
  <2>2. y \in MinY .. MaxY
    BY <1>1, WorldOfSections DEF SetBlock, Contains, Ys
  <2>3. SectionOf(y) \in SectionIds /\ LocalY(y) \in LocalYs
    BY <2>2, Addressed
  <2>4. sections' \in Sections
    BY <1>1, <2>1, <2>3 DEF SetBlock, Column, Sections
  <2>5. Block(c, y) \in Blocks
    BY <2>1, <2>3 DEF Block, Column, Sections, Blocks, Air
  <2>6. writes' \in Nat /\ writes' # 0
    BY <1>1 DEF SetBlock, Counted, Column
  <2> QED
    BY <1>1, <2>4, <2>5, <2>6 DEF SetBlock, Column
<1>2. ASSUME NEW c \in Touched, NEW y \in Ys, NEW v \in Written, SetOutside(c, y, v)
      PROVE  Column'
  BY <1>2 DEF SetOutside, Counted, Column, Air, Blocks
<1>3. ASSUME NEW index \in SectionIds, NEW v \in Written, FillSection(index, v)
      PROVE  Column'
  <2>1. Uniform(v) \in [LocalYs -> [ColumnIds -> Blocks]]
    BY UniformType, WrittenAssumption
  <2> QED
    BY <1>3, <2>1 DEF FillSection, Counted, Column, Sections
<1>4. CASE RecomputeHeightmaps \/ UNCHANGED vars
  BY <1>4 DEF RecomputeHeightmaps, vars, Column
<1> QED
  BY <1>1, <1>2, <1>3, <1>4 DEF Next

LEMMA ColumnInvariance == Spec => []Column
BY InitColumn, NextColumn, PTL DEF Spec

\* What a write shows of itself: one cell, and the block that was there.
LEMMA WriteReachesOneCell ==
    ASSUME Column, NEW c \in Touched, NEW y \in Ys, NEW v \in Written, SetBlock(c, y, v)
    PROVE  /\ <<c, y>> \in Cells /\ v \in Blocks
           /\ Map!Set(<<c, y>>, v)
<1>1. c \in ColumnIds /\ v \in Blocks /\ y \in MinY .. MaxY
  BY ChunkAssumption, WrittenAssumption, WorldOfSections
     DEF ColumnIds, SetBlock, Contains, Ys
<1>2. <<c, y>> \in Cells
  BY <1>1 DEF Cells
<1>3. SectionOf(y) \in SectionIds /\ LocalY(y) \in LocalYs
  BY <1>1, Addressed
<1>4. sections' = [sections EXCEPT ![SectionOf(y)][LocalY(y)][c] = v]
      /\ reply' = Block(c, y)
  BY <1>1 DEF SetBlock
<1>5. ASSUME NEW d \in ColumnIds, NEW z \in MinY .. MaxY
      PROVE  Block(d, z)' = IF <<d, z>> = <<c, y>> THEN v ELSE Block(d, z)
  <2>1. Contains(z) /\ SectionOf(z) \in SectionIds /\ LocalY(z) \in LocalYs
    BY Addressed
  <2>2. Block(d, z)' = sections'[SectionOf(z)][LocalY(z)][d]
        /\ Block(d, z) = sections[SectionOf(z)][LocalY(z)][d]
    BY <2>1, Zenon DEF Block, Contains
  <2>3. sections'[SectionOf(z)][LocalY(z)][d] =
          IF SectionOf(z) = SectionOf(y) /\ LocalY(z) = LocalY(y) /\ d = c
          THEN v ELSE sections[SectionOf(z)][LocalY(z)][d]
    BY <1>1, <1>3, <1>4, <2>1 DEF Column, Sections
  <2>4. SectionOf(z) = SectionOf(y) /\ LocalY(z) = LocalY(y) => z = y
    BY <1>1, Located
  <2>5. <<d, z>> = <<c, y>> <=> d = c /\ z = y
    OBVIOUS
  <2> QED
    BY <2>2, <2>3, <2>4, <2>5, Zenon
<1>6. ASSUME NEW cell \in Cells
      PROVE  Content'[cell] = IF cell = <<c, y>> THEN v ELSE Content[cell]
  <2>1. /\ cell[1] \in ColumnIds /\ cell[2] \in MinY .. MaxY
        /\ cell = <<cell[1], cell[2]>>
    BY DEF Cells
  <2>2. Content'[cell] = Block(cell[1], cell[2])' /\ Content[cell] = Block(cell[1], cell[2])
    BY DEF Content
  <2> QED
    BY <1>5, <2>1, <2>2
<1>7. Content' = [Content EXCEPT ![<<c, y>>] = v]
  <2>1. Content' = [cell \in Cells |-> Content'[cell]] /\ Content = [cell \in Cells |-> Content[cell]]
    BY DEF Content
  <2> QED
    BY <1>2, <1>6, <2>1
<1>8. Content[<<c, y>>] = Block(c, y)
  BY <1>2 DEF Content
<1> QED
  BY <1>1, <1>2, <1>4, <1>7, <1>8, Zenon DEF Map!Set

\* What a fill shows of itself: the cells of one section.
LEMMA FillReachesOneSection ==
    ASSUME Column, NEW index \in SectionIds, NEW v \in Written, FillSection(index, v)
    PROVE  v \in Blocks /\ Map!Fill(SectionCells(index), v)
<1>1. v \in Blocks /\ sections' = [sections EXCEPT ![index] = Uniform(v)] /\ reply' = reply
  BY WrittenAssumption DEF FillSection
<1>2. ASSUME NEW cell \in Cells
      PROVE  Content'[cell] = IF cell \in SectionCells(index) THEN v ELSE Content[cell]
  <2>. DEFINE d == cell[1]
              z == cell[2]
  <2>1. d \in ColumnIds /\ z \in MinY .. MaxY
    BY DEF Cells
  <2>2. Content'[cell] = Block(d, z)' /\ Content[cell] = Block(d, z)
    BY DEF Content
  <2>3. cell \in SectionCells(index) <=> SectionOf(z) = index
    BY DEF SectionCells
  <2>. HIDE DEF d, z
  <2>4. Contains(z) /\ SectionOf(z) \in SectionIds /\ LocalY(z) \in LocalYs
    BY <2>1, Addressed
  <2>5. Block(d, z)' = sections'[SectionOf(z)][LocalY(z)][d]
        /\ Block(d, z) = sections[SectionOf(z)][LocalY(z)][d]
    BY <2>4, Zenon DEF Block, Contains
  <2>6. Uniform(v)[LocalY(z)][d] = v
    BY <2>1, <2>4 DEF Uniform, Layer
  <2>7. sections'[SectionOf(z)] = IF SectionOf(z) = index THEN Uniform(v) ELSE sections[SectionOf(z)]
    BY <1>1, <2>4 DEF Column, Sections
  <2> QED
    BY <2>2, <2>3, <2>5, <2>6, <2>7
<1>3. Content' = [cell \in Cells |-> IF cell \in SectionCells(index) THEN v ELSE Content[cell]]
  <2>1. Content' = [cell \in Cells |-> Content'[cell]]
    BY DEF Content
  <2> QED
    BY <1>2, <2>1
<1> QED
  BY <1>1, <1>3, Zenon DEF Map!Fill

\* chunk.rs, section_of and set_block: a stack of sections is one array of blocks
\* over absolute heights, for any section size, floor and height; a write reaches
\* the block it names in whichever section, and no other.
THEOREM ColumnStores == Spec => StoresBlocks
<1>1. Init => Map!Init
  <2> SUFFICES ASSUME Init PROVE Map!Init
    OBVIOUS
  <2>1. Column
    BY InitColumn
  <2>2. ASSUME NEW cell \in Cells PROVE Block(cell[1], cell[2]) \in Blocks
    <3>1. cell[1] \in ColumnIds /\ cell[2] \in MinY .. MaxY
      BY DEF Cells
    <3>2. SectionOf(cell[2]) \in SectionIds /\ LocalY(cell[2]) \in LocalYs
      BY <3>1, Addressed
    <3> QED
      BY <2>1, <3>1, <3>2 DEF Block, Column, Sections, Blocks, Air
  <2>3. Content \in [Cells -> Blocks]
    BY <2>2 DEF Content
  <2> QED
    BY <2>1, <2>3 DEF Column, Map!Init
<1>2. Column /\ [Next]_vars => [Map!Next]_<<Content, reply>>
  <2> SUFFICES ASSUME Column, [Next]_vars
               PROVE  Map!Next \/ UNCHANGED <<Content, reply>>
    OBVIOUS
  <2>1. ASSUME NEW c \in Touched, NEW y \in Ys, NEW v \in Written, SetBlock(c, y, v)
        PROVE  Map!Next
    BY <2>1, WriteReachesOneCell, Zenon DEF Map!Next
  <2>2. ASSUME NEW index \in SectionIds, NEW v \in Written, FillSection(index, v)
        PROVE  Map!Next
    <3>1. SectionCells(index) \in {SectionCells(i) : i \in SectionIds}
      OBVIOUS
    <3> QED
      BY <2>2, <3>1, FillReachesOneSection, Zenon DEF Map!Next
  <2>3. ASSUME UNCHANGED <<sections, reply>> PROVE UNCHANGED <<Content, reply>>
    BY <2>3, Zenon DEF Content, Block
  <2>4. CASE RecomputeHeightmaps \/ UNCHANGED vars
    BY <2>3, <2>4, Zenon DEF RecomputeHeightmaps, vars
  <2>5. ASSUME NEW c \in Touched, NEW y \in Ys, NEW v \in Written, SetOutside(c, y, v)
        PROVE  Map!Next
    <3>1. UNCHANGED Content
      BY <2>5, Zenon DEF SetOutside, Content, Block
    <3>2. reply' = Air
      BY <2>5 DEF SetOutside
    <3>3. Map!Miss(Air)
      BY <3>1, <3>2, Zenon DEF Map!Miss
    <3> QED
      BY <3>3, Zenon DEF Map!Next
  <2> QED
    BY <2>1, <2>2, <2>4, <2>5, Zenon DEF Next
<1> QED
  BY <1>1, <1>2, ColumnInvariance, PTL DEF Spec, StoresBlocks, Map!Spec

\* generator.rs, generate: a section that is the same all through is filled in one
\* step, and every block is still the one block_at names for its height.
THEOREM ColumnsGenerated == Spec => []GeneratedAsDescribed
<1>1. Column => GeneratedAsDescribed
  <2>1. SUFFICES ASSUME Column, writes = 0, generator.flat,
                        NEW c \in ColumnIds, NEW y \in MinY .. MaxY
                 PROVE  Block(c, y) = BlockAt(generator, y)
    BY DEF GeneratedAsDescribed
  <2>. DEFINE base == MinY + SectionOf(y) * Size
              section == GeneratedSection(generator, SectionOf(y))
  <2>2. Contains(y) /\ SectionOf(y) \in SectionIds /\ LocalY(y) \in LocalYs
    BY Addressed
  <2>3. y \in base .. base + Size - 1 /\ y = base + LocalY(y)
    BY WithinSection
  <2>4. Block(c, y) = section[LocalY(y)][c]
    <3>1. sections[SectionOf(y)] = section
      BY <2>1, <2>2 DEF Column, Generated
    <3> QED
      BY <2>2, <3>1, Zenon DEF Block
  <2>. HIDE DEF base
  <2>5. CASE \A z \in base .. base + Size - 1 : BlockAt(generator, z) = BlockAt(generator, base)
    <3>1. section = Uniform(BlockAt(generator, base))
      BY <2>5, Zenon DEF GeneratedSection, base
    <3> QED
      BY <2>1, <2>2, <2>3, <2>4, <2>5, <3>1 DEF Uniform, Layer
  <2>6. CASE ~ \A z \in base .. base + Size - 1 : BlockAt(generator, z) = BlockAt(generator, base)
    <3>1. section = [ly \in LocalYs |-> Layer(BlockAt(generator, base + ly))]
      BY <2>6, Zenon DEF GeneratedSection, base
    <3> QED
      BY <2>1, <2>2, <2>3, <2>4, <3>1 DEF Layer
  <2> QED
    BY <2>5, <2>6
<1> QED
  BY <1>1, ColumnInvariance, PTL

-----------------------------------------------------------------------------
(* Heightmaps.                                                             *)

\* The block of a column at a row counted from the floor.
RowBlock(stack, c, k) == stack[k \div Size][k % Size][c]

Unresolved(heights) == {c \in ColumnIds : heights[c] = 0}

\* What a scan knows once it has looked at the rows from r up: the highest block
\* of each column among them, and how many columns have none there.
Seen(scan, stack, r) ==
    /\ scan \in [heights : [ColumnIds -> 0 .. Height], unresolved : Nat]
    /\ scan.unresolved = Cardinality(Unresolved(scan.heights))
    /\ \A c \in Unresolved(scan.heights) :
          \A k \in Nat : r <= k /\ k < Height => RowBlock(stack, c, k) = Air
    /\ \A c \in ColumnIds \ Unresolved(scan.heights) :
          /\ scan.heights[c] > r
          /\ RowBlock(stack, c, scan.heights[c] - 1) # Air
          /\ \A k \in Nat : scan.heights[c] <= k /\ k < Height => RowBlock(stack, c, k) = Air

\* The width the heightmap has is one its heights fit.
LEMMA HeightsFit == HeightmapBits \in Nat /\ Height + 1 <= 2^HeightmapBits
<1>. DEFINE Fits(b) == Height + 1 <= 2^b
            Narrowest(b) == Fits(b) /\ (b = 1 \/ 2^(b - 1) < Height + 1)
            S == {n \in Nat : n + 1 <= 2^n}
            R == {n \in Nat : n = 0 \/ ~Fits(n) \/ \E b \in 1 .. n : Narrowest(b)}
<1>1. Height \in Nat \ {0}
  BY WorldOfSections
<1>2. \A n \in Nat : n \in S
  <2>1. 0 \in S
    BY TwoValues
  <2>2. \A n \in Nat : n \in S => n + 1 \in S
    <3> SUFFICES ASSUME NEW n \in Nat, n \in S PROVE n + 1 \in S
      OBVIOUS
    <3>1. 2 * 2^n <= 2^(n + 1)
      BY TwoMonotone
    <3>2. 2^n \in Nat /\ 2^(n + 1) \in Nat /\ n + 1 <= 2^n
      BY TwoPositive
    <3> QED
      BY <3>1, <3>2
  <2>. HIDE DEF S
  <2> QED
    BY <2>1, <2>2, Induction
<1>3. \A n \in Nat : n \in R
  <2>1. 0 \in R
    OBVIOUS
  <2>2. \A n \in Nat : n \in R => n + 1 \in R
    <3> SUFFICES ASSUME NEW n \in Nat, n \in R PROVE n + 1 \in R
      OBVIOUS
    <3>1. 2^n \in Nat
      BY TwoPositive
    <3>2. CASE n # 0 /\ Fits(n)
      BY <3>2
    <3>3. CASE (n = 0 \/ ~Fits(n)) /\ Fits(n + 1)
      <4>1. (n + 1) - 1 = n
        OBVIOUS
      <4>2. Narrowest(n + 1)
        BY <1>1, <3>1, <3>3, <4>1
      <4> QED
        BY <4>2
    <3>4. CASE ~Fits(n + 1)
      BY <3>4
    <3> QED
      BY <3>2, <3>3, <3>4
  <2>. HIDE DEF R
  <2> QED
    BY <2>1, <2>2, Induction
<1>4. Fits(Height + 1)
  <2>1. Height + 1 \in S /\ 2^(Height + 1) \in Nat
    BY <1>1, <1>2, TwoPositive
  <2> QED
    BY <1>1, <2>1
<1>5. \E b \in 1 .. Height + 1 : Narrowest(b)
  <2>1. Height + 1 \in R
    BY <1>1, <1>3
  <2> QED
    BY <1>1, <1>4, <2>1
<1>6. HeightmapBits \in 1 .. Height + 1 /\ Narrowest(HeightmapBits)
  BY <1>5, Zenon DEF HeightmapBits
<1> QED
  BY <1>1, <1>6

LEMMA UnresolvedFinite ==
    ASSUME NEW heights PROVE IsFiniteSet(Unresolved(heights)) /\ Cardinality(Unresolved(heights)) \in Nat
<1>1. IsFiniteSet(ColumnIds)
  BY FS_Interval, ChunkAssumption DEF ColumnIds
<1>2. Unresolved(heights) \in SUBSET ColumnIds
  BY DEF Unresolved
<1> QED
  BY <1>1, <1>2, FS_Subset, FS_CardinalityType

\* Once no column is left there is nothing more to see: the early exits.
LEMMA NothingLeft ==
    ASSUME NEW stack, NEW scan, NEW r \in Nat, NEW p \in Nat, p <= r,
           Seen(scan, stack, r), scan.unresolved = 0
    PROVE  Seen(scan, stack, p)
<1>1. Unresolved(scan.heights) = {}
  BY UnresolvedFinite, FS_EmptySet DEF Seen
<1>2. \A c \in ColumnIds : scan.heights[c] \in Nat
  BY WorldOfSections DEF Seen
<1> QED
  BY <1>1, <1>2 DEF Seen

\* One row.
LEMMA RowSeen ==
    ASSUME NEW stack, NEW scan, NEW index \in SectionIds, NEW ly \in LocalYs,
           Seen(scan, stack, (index * Size + ly) + 1)
    PROVE  Seen(ScanRow(scan, stack, index, ly), stack, index * Size + ly)
<1>. DEFINE r == index * Size + ly
            hit == {c \in ColumnIds : scan.heights[c] = 0 /\ stack[index][ly][c] # Air}
            next == [c \in ColumnIds |-> IF c \in hit THEN r + 1 ELSE scan.heights[c]]
<1>1. r \in Nat /\ r < Height /\ r \div Size = index /\ r % Size = ly
  <2>1. index \in Nat /\ ly \in 0 .. Size - 1 /\ Size \in Nat \ {0} /\ index < SectionCount
        /\ SectionCount \in Nat
    BY WorldOfSections DEF SectionIds, LocalYs
  <2>2. r \div Size = index /\ r % Size = ly
    <3>1. index \in Int /\ ly \in 0 .. Size - 1 /\ Size \in Nat \ {0}
      BY <2>1
    <3> QED
      BY <3>1, DivMod
  <2>3. (index + 1) * Size <= SectionCount * Size /\ (index + 1) * Size = index * Size + Size
        /\ index * Size \in Nat
    BY <2>1, SMT
  <2> QED
    BY <2>1, <2>2, <2>3, WorldOfSections
<1>2. \A c : RowBlock(stack, c, r) = stack[index][ly][c]
  BY <1>1 DEF RowBlock
<1>. HIDE DEF r
<1>3. CASE scan.unresolved = 0
  <2>1. ScanRow(scan, stack, index, ly) = scan
    BY <1>3 DEF ScanRow
  <2> QED
    BY <1>1, <1>3, <2>1, NothingLeft DEF r
<1>4. CASE scan.unresolved # 0
  <2>1. ScanRow(scan, stack, index, ly)
          = [heights |-> next, unresolved |-> scan.unresolved - Cardinality(hit)]
    BY <1>4 DEF ScanRow, r
  <2>. HIDE DEF next
  <2>2. /\ scan.heights \in [ColumnIds -> 0 .. Height] /\ Height \in Nat
        /\ scan.unresolved = Cardinality(Unresolved(scan.heights))
    BY WorldOfSections DEF Seen
  <2>3. next \in [ColumnIds -> 0 .. Height]
    BY <1>1, <2>2 DEF next
  <2>4. hit \subseteq Unresolved(scan.heights) /\ Unresolved(next) = Unresolved(scan.heights) \ hit
    BY <1>1, <2>2 DEF Unresolved, next
  <2>5. /\ Cardinality(Unresolved(next)) = Cardinality(Unresolved(scan.heights)) - Cardinality(hit)
        /\ Cardinality(Unresolved(next)) \in Nat
    <3>. DEFINE U == Unresolved(scan.heights)
                D == U \ hit
    <3>1. IsFiniteSet(U) /\ IsFiniteSet(D) /\ IsFiniteSet(hit)
      BY <2>4, UnresolvedFinite, FS_Subset
    <3>2. U = D \cup hit /\ D \cap hit = {}
      BY <2>4
    <3>3. Cardinality(D) \in Nat /\ Cardinality(hit) \in Nat /\ Cardinality(U) \in Nat
      BY <3>1, FS_CardinalityType
    <3>. HIDE DEF U, D, hit
    <3>4. Cardinality(U) = Cardinality(D) + Cardinality(hit)
      <4>1. Cardinality(D \cup hit) = Cardinality(D) + Cardinality(hit) - Cardinality(D \cap hit)
        BY <3>1, FS_Union
      <4>2. Cardinality(D \cap hit) = 0
        BY <3>2, FS_EmptySet
      <4> QED
        BY <3>2, <3>3, <4>1, <4>2
    <3>5. Cardinality(D) = Cardinality(U) - Cardinality(hit)
      BY <3>3, <3>4
    <3> QED
      BY <2>4, <3>3, <3>5 DEF U, D
  <2>6. ASSUME NEW c \in Unresolved(next), NEW k \in Nat, r <= k, k < Height
        PROVE  RowBlock(stack, c, k) = Air
    <3>1. c \in ColumnIds /\ c \in Unresolved(scan.heights) /\ c \notin hit
      BY <2>4 DEF Unresolved
    <3>2. CASE k = r
      BY <1>2, <3>1, <3>2 DEF Unresolved
    <3>3. CASE k # r
      <4>1. r + 1 <= k
        BY <1>1, <2>6, <3>3
      <4> QED
        BY <2>6, <3>1, <4>1 DEF Seen, r
    <3> QED
      BY <3>2, <3>3
  <2>7. ASSUME NEW c \in ColumnIds \ Unresolved(next)
        PROVE  /\ next[c] > r /\ RowBlock(stack, c, next[c] - 1) # Air
               /\ \A k \in Nat : next[c] <= k /\ k < Height => RowBlock(stack, c, k) = Air
    <3>1. CASE c \in hit
      <4>1. next[c] = r + 1 /\ (r + 1) - 1 = r /\ r + 1 > r
        BY <1>1, <3>1 DEF next
      <4>2. RowBlock(stack, c, r) # Air
        BY <1>2, <3>1
      <4>3. c \in Unresolved(scan.heights)
        BY <2>4, <3>1
      <4> QED
        BY <4>1, <4>2, <4>3 DEF Seen, r
    <3>2. CASE c \notin hit
      <4>1. next[c] = scan.heights[c] /\ c \in ColumnIds \ Unresolved(scan.heights)
        BY <2>4, <3>2 DEF next
      <4>2. scan.heights[c] \in Nat /\ scan.heights[c] > r + 1
        BY <2>2, <4>1 DEF Seen, r
      <4>3. scan.heights[c] > r
        BY <1>1, <4>2
      <4> QED
        BY <4>1, <4>3 DEF Seen
    <3> QED
      BY <3>1, <3>2
  <2>. DEFINE new == ScanRow(scan, stack, index, ly)
  <2>8. new = [heights |-> next, unresolved |-> Cardinality(Unresolved(next))]
    BY <2>1, <2>2, <2>5
  <2>9. new.heights = next /\ new.unresolved = Cardinality(Unresolved(next))
        /\ new \in [heights : [ColumnIds -> 0 .. Height], unresolved : Nat]
    BY <2>3, <2>5, <2>8
  <2>. HIDE DEF new
  <2>10. Seen(new, stack, r)
    BY <2>6, <2>7, <2>9 DEF Seen
  <2> QED
    BY <2>10 DEF new, r
<1> QED
  BY <1>3, <1>4

Scans == [heights : [ColumnIds -> Int], unresolved : Int]

LEMMA RowType ==
    ASSUME NEW stack, NEW scan \in Scans, NEW index \in SectionIds, NEW ly \in LocalYs
    PROVE  ScanRow(scan, stack, index, ly) \in Scans
<1>. DEFINE hit == {c \in ColumnIds : scan.heights[c] = 0 /\ stack[index][ly][c] # Air}
            next == [c \in ColumnIds |-> IF c \in hit THEN index * Size + ly + 1 ELSE scan.heights[c]]
<1>1. Cardinality(hit) \in Nat
  <2>1. hit \in SUBSET ColumnIds /\ IsFiniteSet(ColumnIds)
    BY FS_Interval, ChunkAssumption DEF ColumnIds
  <2>. HIDE DEF hit
  <2> QED
    BY <2>1, FS_Subset, FS_CardinalityType
<1>2. index * Size + ly + 1 \in Int
  <2>1. index \in Int /\ Size \in Int /\ ly \in Int
    BY WorldOfSections DEF SectionIds, LocalYs
  <2>2. index * Size \in Int
    BY <2>1, SMT
  <2> QED
    BY <2>1, <2>2
<1>3. next \in [ColumnIds -> Int]
  <2>. HIDE DEF hit
  <2> QED
    BY <1>2 DEF Scans
<1>4. scan.unresolved - Cardinality(hit) \in Int
  BY <1>1 DEF Scans
<1>5. [heights |-> next, unresolved |-> scan.unresolved - Cardinality(hit)] \in Scans
  <2>. HIDE DEF hit, next
  <2> QED
    BY <1>3, <1>4 DEF Scans
<1>6. ScanRow(scan, stack, index, ly)
        = IF scan.unresolved = 0 THEN scan
          ELSE [heights |-> next, unresolved |-> scan.unresolved - Cardinality(hit)]
  BY DEF ScanRow
<1> QED
  BY <1>5, <1>6

\* A section, row by row from its top.
SectionTrace(f, stack, scan, index) ==
    /\ f \in [0 .. Size -> Scans]
    /\ f[0] = scan
    /\ \A n \in 1 .. Size : f[n] = ScanRow(f[n - 1], stack, index, Size - n)
    /\ ScanSection(scan, stack, index)
         = IF scan.unresolved = 0 \/ IsEmpty(stack[index]) THEN scan ELSE f[Size]

LEMMA SectionSteps ==
    ASSUME NEW stack, NEW scan \in Scans, NEW index \in SectionIds
    PROVE  \E f : SectionTrace(f, stack, scan, index)
<1>. DEFINE Body(g) == [n \in 0 .. Size |->
                           IF n = 0 THEN scan ELSE ScanRow(g[n - 1], stack, index, Size - n)]
            after == CHOOSE g : g = Body(g)
            step == [n \in 1 .. Size |-> [x \in Scans |-> ScanRow(x, stack, index, Size - n)]]
<1>1. Size \in Nat \ {0}
  BY WorldOfSections
<1>2. \A n \in 1 .. Size : Size - n \in LocalYs
  BY <1>1 DEF LocalYs
<1>3. step \in [1 .. Size -> [Scans -> Scans]]
  BY <1>2, RowType
<1>4. PICK f \in [0 .. Size -> Scans] : Computed(f, Size, scan, step)
  <2>. HIDE DEF step
  <2> QED
    BY <1>1, <1>3, Recursion
<1>5. \A n \in 1 .. Size : n - 1 \in 0 .. Size /\ n \in 0 .. Size /\ n # 0
  BY <1>1
<1>6. \A n \in 1 .. Size : f[n] = ScanRow(f[n - 1], stack, index, Size - n)
  BY <1>4, <1>5 DEF Computed
<1>7. f = Body(f)
  <2>1. \A n \in 0 .. Size : f[n] = IF n = 0 THEN scan ELSE ScanRow(f[n - 1], stack, index, Size - n)
    <3> TAKE n \in 0 .. Size
    <3>1. n = 0 \/ n \in 1 .. Size
      BY <1>1
    <3> QED
      BY <1>4, <1>6, <3>1 DEF Computed
  <2> QED
    BY <2>1
<1>8. after = Body(after)
  <2>. HIDE DEF Body
  <2> QED
    BY <1>7
<1>. HIDE DEF after
<1>9. after[0] = scan /\ \A n \in 1 .. Size : after[n] = ScanRow(after[n - 1], stack, index, Size - n)
  BY <1>1, <1>5, <1>8
<1>10. \A n \in 0 .. Size : after[n] \in Scans
  <2>. DEFINE S == {n \in 0 .. Size : after[n] \in Scans}
  <2>1. 0 \in S
    BY <1>1, <1>9
  <2>2. \A n \in 0 .. Size - 1 : n \in S => n + 1 \in S
    <3> SUFFICES ASSUME NEW n \in 0 .. Size - 1, n \in S PROVE n + 1 \in S
      OBVIOUS
    <3>1. n + 1 \in 1 .. Size /\ (n + 1) - 1 = n
      BY <1>1
    <3>2. after[n + 1] = ScanRow(after[n], stack, index, Size - (n + 1))
      BY <1>9, <3>1
    <3>3. after[n + 1] \in Scans
      BY <1>2, <3>1, <3>2, RowType
    <3> QED
      BY <1>5, <3>1, <3>3
  <2>. HIDE DEF S
  <2>3. \A n \in 0 .. Size : n \in S
    BY <1>1, <2>1, <2>2, InductionUpTo
  <2> QED
    BY <2>3 DEF S
<1>11. after \in [0 .. Size -> Scans]
  BY <1>8, <1>10
<1>12. ScanSection(scan, stack, index)
         = IF scan.unresolved = 0 \/ IsEmpty(stack[index]) THEN scan ELSE after[Size]
  BY DEF ScanSection, after
<1>13. SectionTrace(after, stack, scan, index)
  BY <1>9, <1>11, <1>12 DEF SectionTrace
<1> QED
  BY <1>13

LEMMA SectionScanType ==
    ASSUME NEW stack, NEW scan \in Scans, NEW index \in SectionIds
    PROVE  ScanSection(scan, stack, index) \in Scans
<1>1. PICK f : SectionTrace(f, stack, scan, index)
  BY SectionSteps
<1>2. Size \in 0 .. Size
  BY WorldOfSections
<1> QED
  BY <1>1, <1>2 DEF SectionTrace

\* The stack, section by section from the top.
LEMMA StackSteps ==
    ASSUME NEW stack
    PROVE  \E f \in [0 .. SectionCount -> Scans] :
              /\ f[0] = [heights |-> [c \in ColumnIds |-> 0], unresolved |-> Columns]
              /\ \A n \in 1 .. SectionCount : f[n] = ScanSection(f[n - 1], stack, SectionCount - n)
              /\ Scan(stack) = f[SectionCount]
<1>. DEFINE m == SectionCount
            start == [heights |-> [c \in ColumnIds |-> 0], unresolved |-> Columns]
            Body(g) == [n \in 0 .. m |-> IF n = 0 THEN start ELSE ScanSection(g[n - 1], stack, m - n)]
            after == CHOOSE g : g = Body(g)
            step == [n \in 1 .. m |-> [x \in Scans |-> ScanSection(x, stack, m - n)]]
<1>1. m \in Nat \ {0}
  BY WorldOfSections
<1>2. \A n \in 1 .. m : m - n \in SectionIds
  BY <1>1 DEF SectionIds
<1>3. step \in [1 .. m -> [Scans -> Scans]]
  BY <1>2, SectionScanType
<1>4. start \in Scans
  BY ChunkAssumption DEF Scans
<1>. HIDE DEF start, m
<1>5. PICK f \in [0 .. m -> Scans] : Computed(f, m, start, step)
  <2>. HIDE DEF step
  <2> QED
    BY <1>1, <1>3, <1>4, Recursion
<1>6. \A n \in 1 .. m : n - 1 \in 0 .. m /\ n \in 0 .. m /\ n # 0
  BY <1>1
<1>7. \A n \in 1 .. m : f[n] = ScanSection(f[n - 1], stack, m - n)
  BY <1>5, <1>6 DEF Computed
<1>8. f = Body(f)
  <2>1. \A n \in 0 .. m : f[n] = IF n = 0 THEN start ELSE ScanSection(f[n - 1], stack, m - n)
    <3> TAKE n \in 0 .. m
    <3>1. n = 0 \/ n \in 1 .. m
      BY <1>1
    <3> QED
      BY <1>5, <1>7, <3>1 DEF Computed
  <2> QED
    BY <2>1
<1>9. after = Body(after)
  <2>. HIDE DEF Body
  <2> QED
    BY <1>8
<1>. HIDE DEF after
<1>10. after[0] = start /\ \A n \in 1 .. m : after[n] = ScanSection(after[n - 1], stack, m - n)
  BY <1>1, <1>6, <1>9
<1>11. \A n \in 0 .. m : after[n] \in Scans
  <2>. DEFINE S == {n \in 0 .. m : after[n] \in Scans}
  <2>1. 0 \in S
    BY <1>1, <1>4, <1>10
  <2>2. \A n \in 0 .. m - 1 : n \in S => n + 1 \in S
    <3> SUFFICES ASSUME NEW n \in 0 .. m - 1, n \in S PROVE n + 1 \in S
      OBVIOUS
    <3>1. n + 1 \in 1 .. m /\ (n + 1) - 1 = n
      BY <1>1
    <3>2. after[n + 1] = ScanSection(after[n], stack, m - (n + 1))
      BY <1>10, <3>1
    <3>3. after[n + 1] \in Scans
      BY <1>2, <3>1, <3>2, SectionScanType
    <3> QED
      BY <1>6, <3>1, <3>3
  <2>. HIDE DEF S
  <2>3. \A n \in 0 .. m : n \in S
    BY <1>1, <2>1, <2>2, InductionUpTo
  <2> QED
    BY <2>3 DEF S
<1>12. after \in [0 .. m -> Scans]
  BY <1>9, <1>11
<1>13. Scan(stack) = after[m]
  BY DEF Scan, after, m, start
<1> QED
  BY <1>10, <1>12, <1>13, Zenon DEF m, start

\* One section: an empty one and a scan with nothing left to find are passed over.
LEMMA SectionSeen ==
    ASSUME NEW stack, NEW scan, NEW index \in SectionIds, Seen(scan, stack, (index + 1) * Size)
    PROVE  Seen(ScanSection(scan, stack, index), stack, index * Size)
<1>. DEFINE top == (index + 1) * Size
            base == index * Size
<1>1. /\ index \in Nat /\ Size \in Nat \ {0} /\ index < SectionCount
      /\ top \in Nat /\ base \in Nat /\ top = base + Size
  <2>1. index \in Nat /\ Size \in Nat \ {0} /\ index < SectionCount
    BY WorldOfSections DEF SectionIds
  <2>2. (index + 1) * Size = index * Size + Size /\ index * Size \in Nat
    BY <2>1, SMT
  <2> QED
    BY <2>1, <2>2
<1>2. scan \in Scans
  BY WorldOfSections DEF Seen, Scans
<1>2a. PICK f : SectionTrace(f, stack, scan, index)
  BY <1>2, SectionSteps
<1>3. /\ f[0] = scan
      /\ \A n \in 1 .. Size : f[n] = ScanRow(f[n - 1], stack, index, Size - n)
      /\ ScanSection(scan, stack, index)
           = IF scan.unresolved = 0 \/ IsEmpty(stack[index]) THEN scan ELSE f[Size]
  BY <1>2a DEF SectionTrace
<1>. HIDE DEF top
<1>4. CASE scan.unresolved = 0
  <2>1. base <= top
    BY <1>1
  <2> QED
    BY <1>1, <1>3, <1>4, <2>1, NothingLeft DEF top
<1>5. CASE scan.unresolved # 0 /\ IsEmpty(stack[index])
  <2>1. ASSUME NEW c \in ColumnIds, NEW k \in Nat, base <= k, k < top
        PROVE  RowBlock(stack, c, k) = Air
    <3>. DEFINE ly == k - base
    <3>1. ly \in 0 .. Size - 1 /\ k = base + ly
      BY <1>1, <2>1
    <3>. HIDE DEF ly
    <3>2. k \div Size = index /\ k % Size = ly
      <4>1. index \in Int /\ Size \in Nat \ {0}
        BY <1>1
      <4>2. (index * Size + ly) \div Size = index /\ (index * Size + ly) % Size = ly
        BY <3>1, <4>1, DivMod
      <4> QED
        BY <3>1, <4>2
    <3> QED
      BY <1>5, <3>1, <3>2 DEF IsEmpty, RowBlock, LocalYs
  <2>2. ASSUME NEW c \in Unresolved(scan.heights), NEW k \in Nat, base <= k, k < Height
        PROVE  RowBlock(stack, c, k) = Air
    <3>1. c \in ColumnIds
      BY DEF Unresolved
    <3>2. CASE k < top
      BY <2>1, <2>2, <3>1, <3>2
    <3>3. CASE ~ k < top
      <4>1. top <= k
        BY <1>1, <3>3
      <4> QED
        BY <2>2, <4>1 DEF Seen, top
    <3> QED
      BY <3>2, <3>3
  <2>3. ASSUME NEW c \in ColumnIds \ Unresolved(scan.heights) PROVE scan.heights[c] > base
    <3>1. scan.heights[c] > top /\ scan.heights[c] \in Int
      BY <1>2 DEF Seen, Scans, top
    <3> QED
      BY <1>1, <3>1
  <2>4. Seen(scan, stack, base)
    <3>. HIDE DEF base
    <3> QED
      BY <2>2, <2>3 DEF Seen
  <2> QED
    BY <1>3, <1>5, <2>4
<1>6. CASE scan.unresolved # 0 /\ ~IsEmpty(stack[index])
  <2>. DEFINE S == {n \in 0 .. Size : Seen(f[n], stack, top - n)}
  <2>1. 0 \in S
    <3>1. top - 0 = top /\ 0 \in 0 .. Size
      BY <1>1
    <3> QED
      BY <1>3, <3>1 DEF top
  <2>2. \A n \in 0 .. Size - 1 : n \in S => n + 1 \in S
    <3> SUFFICES ASSUME NEW n \in 0 .. Size - 1, n \in S PROVE n + 1 \in S
      OBVIOUS
    <3>. DEFINE ly == Size - (n + 1)
    <3>1. n + 1 \in 1 .. Size /\ n + 1 \in 0 .. Size /\ (n + 1) - 1 = n /\ ly \in LocalYs
      BY <1>1 DEF LocalYs
    <3>2. f[n + 1] = ScanRow(f[n], stack, index, ly)
      BY <1>3, <3>1
    <3>3. (base + ly) + 1 = top - n /\ base + ly = top - (n + 1)
      BY <1>1
    <3>4. Seen(f[n], stack, (index * Size + ly) + 1)
      BY <3>3
    <3>. HIDE DEF ly
    <3>5. Seen(ScanRow(f[n], stack, index, ly), stack, index * Size + ly)
      BY <3>1, <3>4, RowSeen
    <3>6. Seen(f[n + 1], stack, top - (n + 1))
      BY <3>2, <3>3, <3>5
    <3> QED
      BY <3>1, <3>6
  <2>. HIDE DEF S
  <2>3. \A n \in 0 .. Size : n \in S
    BY <1>1, <2>1, <2>2, InductionUpTo
  <2>4. Size \in 0 .. Size /\ top - Size = base
    BY <1>1
  <2>5. Seen(f[Size], stack, base)
    BY <2>3, <2>4 DEF S
  <2> QED
    BY <1>3, <1>6, <2>5
<1> QED
  BY <1>4, <1>5, <1>6

\* The whole stack, whatever it holds.
LEMMA StackSeen == ASSUME NEW stack PROVE Seen(Scan(stack), stack, 0)
<1>. DEFINE start == [heights |-> [c \in ColumnIds |-> 0], unresolved |-> Columns]
            m == SectionCount
<1>1. m \in Nat \ {0} /\ Height = m * Size /\ Size \in Nat \ {0} /\ Height \in Nat
  BY WorldOfSections, ChunkAssumption
<1>2. PICK f \in [0 .. m -> Scans] :
              /\ f[0] = start
              /\ \A n \in 1 .. m : f[n] = ScanSection(f[n - 1], stack, m - n)
              /\ Scan(stack) = f[m]
  BY StackSteps
<1>3. Seen(start, stack, Height)
  <2>1. Unresolved(start.heights) = ColumnIds
    BY DEF Unresolved
  <2>2. Cardinality(ColumnIds) = Columns /\ Columns \in Nat
    BY FS_Interval, ChunkAssumption DEF ColumnIds
  <2>3. start \in [heights : [ColumnIds -> 0 .. Height], unresolved : Nat]
    BY <1>1, <2>2
  <2> QED
    BY <1>1, <2>1, <2>2, <2>3 DEF Seen
<1>. HIDE DEF start, m
<1>. DEFINE S == {n \in 0 .. m : Seen(f[n], stack, (m - n) * Size)}
<1>4. 0 \in S
  <2>1. m - 0 = m /\ 0 \in 0 .. m
    BY <1>1
  <2> QED
    BY <1>1, <1>2, <1>3, <2>1
<1>5. \A n \in 0 .. m - 1 : n \in S => n + 1 \in S
  <2> SUFFICES ASSUME NEW n \in 0 .. m - 1, n \in S PROVE n + 1 \in S
    OBVIOUS
  <2>. DEFINE index == m - (n + 1)
  <2>1. n + 1 \in 1 .. m /\ n + 1 \in 0 .. m /\ (n + 1) - 1 = n /\ index + 1 = m - n
    BY <1>1
  <2>2. index \in SectionIds
    BY <1>1 DEF SectionIds, m
  <2>3. f[n + 1] = ScanSection(f[n], stack, index)
    BY <1>2, <2>1
  <2>4. Seen(f[n], stack, (index + 1) * Size)
    BY <2>1
  <2>. HIDE DEF index
  <2>5. Seen(f[n + 1], stack, index * Size)
    BY <2>2, <2>3, <2>4, SectionSeen
  <2> QED
    BY <2>1, <2>5 DEF index
<1>. HIDE DEF S
<1>6. \A n \in 0 .. m : n \in S
  BY <1>1, <1>4, <1>5, InductionUpTo
<1>7. Seen(f[m], stack, (m - m) * Size)
  BY <1>1, <1>6 DEF S
<1>8. (m - m) * Size = 0
  BY <1>1, SMT
<1> QED
  BY <1>2, <1>7, <1>8

\* recompute_heightmaps packs the heights over what the storage held before.
LEMMA RecomputedIs ==
    ASSUME NEW map \in Storages(Columns, HeightmapBits), NEW stack
    PROVE  /\ Recomputed(map, stack) \in Storages(Columns, HeightmapBits)
           /\ \A c \in ColumnIds : BitEntries(Recomputed(map, stack))[c] = Scan(stack).heights[c]
<1>. DEFINE m == Columns
            b == HeightmapBits
            T == Storages(m, b)
            heights == Scan(stack).heights
            Body(g) == [n \in 0 .. m |-> IF n = 0 THEN map ELSE BitSet(g[n - 1], n - 1, heights[n - 1])]
            after == CHOOSE g : g = Body(g)
            step == [n \in 1 .. m |-> [x \in T |-> BitSet(x, n - 1, heights[n - 1])]]
<1>1. m \in Nat \ {0} /\ b \in Nat /\ Representable(m, b) /\ ColumnIds = 0 .. m - 1
  BY ChunkAssumption, HeightmapAssumption, HeightsFit DEF ColumnIds
<1>2. \A c \in 0 .. m - 1 : heights[c] \in 0 .. 2^b - 1
  <2>1. heights \in [ColumnIds -> 0 .. Height]
    BY StackSeen DEF Seen
  <2>2. Height \in Nat /\ Height + 1 <= 2^b /\ 2^b \in Nat
    BY WorldOfSections, HeightsFit, TwoPositive, ChunkAssumption
  <2>. HIDE DEF heights
  <2> QED
    BY <1>1, <2>1, <2>2
<1>. HIDE DEF heights, m, b
<1>3. \A n \in 1 .. m : n - 1 \in 0 .. m - 1 /\ n - 1 \in 0 .. m /\ n \in 0 .. m /\ n # 0
  BY <1>1
<1>4. \A n \in 1 .. m : \A x \in T :
         /\ BitSet(x, n - 1, heights[n - 1]) \in T
         /\ \A j \in 0 .. m - 1 :
               BitEntries(BitSet(x, n - 1, heights[n - 1]))[j]
                 = IF j = n - 1 THEN heights[n - 1] ELSE BitEntries(x)[j]
  <2> SUFFICES ASSUME NEW n \in 1 .. m, NEW x \in T
               PROVE  /\ BitSet(x, n - 1, heights[n - 1]) \in T
                      /\ \A j \in 0 .. m - 1 :
                            BitEntries(BitSet(x, n - 1, heights[n - 1]))[j]
                              = IF j = n - 1 THEN heights[n - 1] ELSE BitEntries(x)[j]
    OBVIOUS
  <2>. DEFINE i == n - 1
              v == heights[n - 1]
  <2>1. i \in 0 .. m - 1 /\ v \in 0 .. 2^b - 1
    BY <1>2, <1>3
  <2>. HIDE DEF i, v
  <2>2. /\ BitSet(x, i, v) \in T
        /\ \A j \in 0 .. m - 1 :
              BitEntries(BitSet(x, i, v))[j] = IF j = i THEN v ELSE BitEntries(x)[j]
    BY <1>1, <2>1, BitSetIs
  <2> QED
    BY <2>2 DEF i, v
<1>5. step \in [1 .. m -> [T -> T]]
  BY <1>4
<1>. HIDE DEF T
<1>6. map \in T
  BY DEF T, m, b
<1>7. PICK f \in [0 .. m -> T] : Computed(f, m, map, step)
  <2>. HIDE DEF step
  <2> QED
    BY <1>1, <1>5, <1>6, Recursion
<1>8. f = Body(f)
  <2>1. \A n \in 0 .. m : f[n] = IF n = 0 THEN map ELSE BitSet(f[n - 1], n - 1, heights[n - 1])
    <3> TAKE n \in 0 .. m
    <3>1. CASE n = 0
      BY <1>7, <3>1 DEF Computed
    <3>2. CASE n \in 1 .. m
      <4>1. f[n] = step[n][f[n - 1]] /\ f[n - 1] \in T
        BY <1>3, <1>7, <3>2 DEF Computed
      <4> QED
        BY <1>3, <3>2, <4>1
    <3> QED
      BY <1>1, <3>1, <3>2
  <2> QED
    BY <2>1
<1>9. after = Body(after)
  <2>. HIDE DEF Body
  <2> QED
    BY <1>8
<1>. HIDE DEF after, step
<1>10. after[0] = map /\ \A n \in 1 .. m : after[n] = BitSet(after[n - 1], n - 1, heights[n - 1])
  BY <1>1, <1>3, <1>9
<1>. DEFINE S == {n \in 0 .. m : after[n] \in T /\ \A c \in 0 .. m - 1 : c < n => BitEntries(after[n])[c] = heights[c]}
<1>11. 0 \in S
  BY <1>1, <1>6, <1>10
<1>12. \A n \in 0 .. m - 1 : n \in S => n + 1 \in S
  <2> SUFFICES ASSUME NEW n \in 0 .. m - 1, n \in S PROVE n + 1 \in S
    OBVIOUS
  <2>1. n + 1 \in 1 .. m /\ n + 1 \in 0 .. m /\ (n + 1) - 1 = n
    BY <1>1
  <2>. DEFINE x == after[n]
  <2>2. x \in T /\ \A c \in 0 .. m - 1 : c < n => BitEntries(x)[c] = heights[c]
    OBVIOUS
  <2>3. after[n + 1] = BitSet(x, n, heights[n])
    BY <1>10, <2>1
  <2>. HIDE DEF x
  <2>4. /\ BitSet(x, n, heights[n]) \in T
        /\ \A j \in 0 .. m - 1 :
              BitEntries(BitSet(x, n, heights[n]))[j] = IF j = n THEN heights[n] ELSE BitEntries(x)[j]
    BY <1>4, <2>1, <2>2
  <2>5. ASSUME NEW c \in 0 .. m - 1, c < n + 1 PROVE BitEntries(after[n + 1])[c] = heights[c]
    <3>1. c = n \/ c < n
      BY <1>1, <2>5
    <3> QED
      BY <2>2, <2>3, <2>4, <3>1
  <2> QED
    BY <2>1, <2>3, <2>4, <2>5
<1>. HIDE DEF S
<1>13. m \in S
  <2>1. \A n \in 0 .. m : n \in S
    BY <1>1, <1>11, <1>12, InductionUpTo
  <2> QED
    BY <1>1, <2>1
<1>14. after[m] \in T /\ \A c \in 0 .. m - 1 : BitEntries(after[m])[c] = heights[c]
  BY <1>1, <1>13 DEF S
<1>15. Recomputed(map, stack) = after[m]
  BY DEF Recomputed, after, m, heights
<1> QED
  BY <1>1, <1>14, <1>15 DEF heights, m, b, T

-----------------------------------------------------------------------------
(* What holds of the heightmap.                                            *)

\* HeightsMatch of the entries that walking the words finds.
HeightsPacked ==
    ~stale =>
        \A c \in ColumnIds :
            LET height == BitEntries(heightmap)[c]
            IN  /\ height \in 0 .. Height
                /\ \A y \in MinY + height .. MaxY : Block(c, y) = Air
                /\ height # 0 => Block(c, MinY + height - 1) # Air

\* The column's parts, the heightmap a storage of the constructor's shape, and
\* the heights right unless blocks were written since.
HeightmapInv ==
    /\ Column
    /\ heightmap \in Storages(Columns, HeightmapBits)
    /\ stale \in BOOLEAN /\ writes \in 0 .. MaxWrites
    /\ HeightsPacked

\* What the scan saw is what the property asks.
LEMMA HeightsSeen ==
    ASSUME NEW c \in ColumnIds
    PROVE  LET height == Scan(sections).heights[c]
           IN  /\ height \in 0 .. Height
               /\ \A y \in MinY + height .. MaxY : Block(c, y) = Air
               /\ height # 0 => Block(c, MinY + height - 1) # Air
<1>. DEFINE height == Scan(sections).heights[c]
<1>1. Seen(Scan(sections), sections, 0)
  BY StackSeen
<1>2. height \in 0 .. Height /\ Height \in Nat /\ MinY \in Int /\ MaxY = MinY + Height - 1
  BY <1>1, WorldOfSections, ChunkAssumption DEF Seen
<1>3. ASSUME NEW y \in Int, MinY <= y, y <= MaxY
      PROVE  Block(c, y) = RowBlock(sections, c, y - MinY)
  BY <1>3, Zenon DEF Block, RowBlock, SectionOf, LocalY, Contains
<1>4. ASSUME NEW y \in MinY + height .. MaxY PROVE Block(c, y) = Air
  <2>. DEFINE k == y - MinY
  <2>1. y \in Int /\ MinY <= y /\ y <= MaxY /\ k \in Nat /\ height <= k /\ k < Height
    BY <1>2
  <2>2. Block(c, y) = RowBlock(sections, c, k)
    BY <1>3, <2>1
  <2>. HIDE DEF k
  <2>3. RowBlock(sections, c, k) = Air
    BY <1>1, <2>1 DEF Seen, Unresolved
  <2> QED
    BY <2>2, <2>3
<1>5. ASSUME height # 0 PROVE Block(c, MinY + height - 1) # Air
  <2>. DEFINE y == MinY + height - 1
  <2>1. y \in Int /\ MinY <= y /\ y <= MaxY /\ y - MinY = height - 1
    BY <1>2, <1>5
  <2>2. Block(c, y) = RowBlock(sections, c, height - 1)
    BY <1>3, <2>1
  <2>3. RowBlock(sections, c, height - 1) # Air
    BY <1>1, <1>5 DEF Seen, Unresolved
  <2> QED
    BY <2>2, <2>3
<1> QED
  BY <1>2, <1>4, <1>5

LEMMA InitHeightmap == Init => HeightmapInv
<1> SUFFICES ASSUME Init PROVE HeightmapInv
  OBVIOUS
<1>1. Column /\ stale = FALSE /\ writes \in 0 .. MaxWrites
  BY InitColumn, ChunkAssumption DEF Init
<1>2. Columns \in Nat /\ HeightmapBits \in Nat /\ Representable(Columns, HeightmapBits)
      /\ ColumnIds = 0 .. Columns - 1
  BY ChunkAssumption, HeightmapAssumption, HeightsFit DEF ColumnIds
<1>3. /\ EmptyHeightmap \in Storages(Columns, HeightmapBits)
      /\ \A c \in ColumnIds : BitEntries(EmptyHeightmap)[c] = 0
  BY <1>2, ZeroedIs DEF EmptyHeightmap
<1>4. CASE generator.flat
  <2>1. heightmap = Recomputed(EmptyHeightmap, sections)
    BY <1>4 DEF Init
  <2>2. /\ heightmap \in Storages(Columns, HeightmapBits)
        /\ \A c \in ColumnIds : BitEntries(heightmap)[c] = Scan(sections).heights[c]
    BY <1>3, <2>1, RecomputedIs
  <2>3. HeightsPacked
    BY <2>2, HeightsSeen DEF HeightsPacked
  <2> QED
    BY <1>1, <2>2, <2>3 DEF HeightmapInv
<1>5. CASE ~generator.flat
  <2>1. heightmap = EmptyHeightmap /\ sections = [index \in SectionIds |-> Uniform(Air)]
    BY <1>5 DEF Init, Generated
  <2>2. ASSUME NEW c \in ColumnIds, NEW y \in MinY .. MaxY PROVE Block(c, y) = Air
    <3>1. SectionOf(y) \in SectionIds /\ LocalY(y) \in LocalYs
      BY Addressed
    <3>2. sections[SectionOf(y)][LocalY(y)][c] = Air
      BY <2>1, <3>1 DEF Uniform, Layer
    <3> QED
      BY <3>2 DEF Block
  <2>3. ASSUME NEW c \in ColumnIds
        PROVE  LET height == BitEntries(heightmap)[c]
               IN  /\ height \in 0 .. Height
                   /\ \A y \in MinY + height .. MaxY : Block(c, y) = Air
                   /\ height # 0 => Block(c, MinY + height - 1) # Air
    <3>1. BitEntries(heightmap)[c] = 0
      BY <1>3, <2>1
    <3>2. 0 \in 0 .. Height /\ MinY + 0 = MinY
      BY ChunkAssumption
    <3> QED
      BY <2>2, <3>1, <3>2
  <2>4. HeightsPacked
    BY <2>3 DEF HeightsPacked
  <2> QED
    BY <1>1, <1>3, <2>1, <2>4 DEF HeightmapInv
<1> QED
  BY <1>4, <1>5

LEMMA NextHeightmap == HeightmapInv /\ [Next]_vars => HeightmapInv'
<1> SUFFICES ASSUME HeightmapInv, [Next]_vars PROVE HeightmapInv'
  OBVIOUS
<1>0. Column'
  BY NextColumn DEF HeightmapInv
<1>1. ASSUME Counted PROVE writes' \in 0 .. MaxWrites
  BY <1>1, ChunkAssumption DEF HeightmapInv, Counted
<1>2. ASSUME NEW c \in Touched, NEW y \in Ys, NEW v \in Written, SetBlock(c, y, v)
      PROVE  HeightmapInv'
  BY <1>0, <1>1, <1>2 DEF HeightmapInv, SetBlock, HeightsPacked
<1>3. ASSUME NEW index \in SectionIds, NEW v \in Written, FillSection(index, v)
      PROVE  HeightmapInv'
  BY <1>0, <1>1, <1>3 DEF HeightmapInv, FillSection, HeightsPacked
<1>4. ASSUME UNCHANGED <<sections, heightmap, stale>>, writes' \in 0 .. MaxWrites
      PROVE  HeightmapInv'
  <2>1. HeightsPacked' = HeightsPacked
    BY <1>4, Zenon DEF HeightsPacked, Block, Contains
  <2> QED
    BY <1>0, <1>4, <2>1 DEF HeightmapInv
<1>5. ASSUME NEW c \in Touched, NEW y \in Ys, NEW v \in Written, SetOutside(c, y, v)
      PROVE  HeightmapInv'
  BY <1>1, <1>4, <1>5 DEF SetOutside
<1>6. CASE RecomputeHeightmaps
  <2>1. /\ heightmap' = Recomputed(heightmap, sections) /\ stale' = FALSE
        /\ sections' = sections /\ writes' = writes
    BY <1>6 DEF RecomputeHeightmaps
  <2>2. /\ heightmap' \in Storages(Columns, HeightmapBits)
        /\ \A c \in ColumnIds : BitEntries(heightmap')[c] = Scan(sections).heights[c]
    BY <2>1, RecomputedIs DEF HeightmapInv
  <2>3. \A c \in ColumnIds :
            LET height == BitEntries(heightmap')[c]
            IN  /\ height \in 0 .. Height
                /\ \A y \in MinY + height .. MaxY : Block(c, y) = Air
                /\ height # 0 => Block(c, MinY + height - 1) # Air
    BY <2>2, HeightsSeen
  <2>4. \A c, y : Block(c, y)' = Block(c, y)
    BY <2>1, Zenon DEF Block, Contains
  <2>5. HeightsPacked'
    BY <2>1, <2>3 DEF HeightsPacked, Block
  <2> QED
    BY <1>0, <2>1, <2>2, <2>5 DEF HeightmapInv
<1>7. CASE UNCHANGED vars
  BY <1>4, <1>7 DEF vars, HeightmapInv
<1> QED
  BY <1>2, <1>3, <1>5, <1>6, <1>7 DEF Next

LEMMA HeightmapInvariance == Spec => []HeightmapInv
BY InitHeightmap, NextHeightmap, PTL DEF Spec

\* chunk.rs, recompute_heightmaps: for every height of world, section size,
\* number of columns and width of words, a heightmap that is not stale holds one
\* more than the highest block above the floor of every column: the early exits
\* skip nothing, packing the heights loses nothing, and an entry is the same by the
\* reciprocal and by walking the words.
THEOREM HeightsAreRight == Spec => []HeightsMatch
<1>1. HeightmapInv => HeightsMatch
  <2> SUFFICES ASSUME HeightmapInv PROVE HeightsMatch
    OBVIOUS
  <2>1. ASSUME NEW c \in ColumnIds PROVE BitGet(heightmap, c) = BitEntries(heightmap)[c]
    <3>1. heightmap.len = Columns /\ heightmap.bits = HeightmapBits
      BY DEF HeightmapInv, Storages
    <3>2. Columns \in Nat /\ HeightmapBits \in Nat /\ Representable(Columns, HeightmapBits)
          /\ c \in 0 .. Columns - 1
      BY ChunkAssumption, HeightmapAssumption, HeightsFit DEF ColumnIds
    <3> QED
      BY <3>1, <3>2, GetIsWalked
  <2>2. HeightsPacked
    BY DEF HeightmapInv
  <2> QED
    BY <2>1, <2>2 DEF HeightsMatch, HeightsPacked
<1> QED
  BY <1>1, HeightmapInvariance, PTL

\* The words of the heightmap stay words of 64 bits, and the column a column.
THEOREM ColumnTypes == Spec => []TypeOK
<1>1. HeightmapInv => TypeOK
  BY DEF HeightmapInv, Column, Sections, Storages, Words, TypeOK
<1> QED
  BY <1>1, HeightmapInvariance, PTL
==============================================================================
