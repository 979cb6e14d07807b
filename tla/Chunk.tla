-------------------------------- MODULE Chunk --------------------------------
(***************************************************************************)
(* A chunk column (rukkit-world, chunk.rs): a stack of sections over a     *)
(* range of heights, and a heightmap packed into bit storage, which callers*)
(* bring up to date with recompute_heightmaps.  The column comes from one  *)
(* of the two generators (generator.rs).  A section's blocks are a function*)
(* here; PalettedContainer models how they are stored.  Both heightmaps of *)
(* the code always hold the same values and are one variable.              *)
(***************************************************************************)
EXTENDS BitStorage, Integers, FiniteSets

CONSTANTS
    Size,       \* blocks along a section's edge, upwards (16 in the code)
    Columns,    \* COLUMNS, the number of columns
    MinY,       \* limits.min_y
    Height,     \* limits.height
    Touched,    \* the columns callers write to
    Written,    \* the blocks callers write
    Surfaces,   \* surface_y of the flat generators
    Depths,     \* dirt_depth of the flat generators
    MaxWrites   \* bound: writes in a behaviour

ASSUME ChunkAssumption ==
    /\ Size \in Nat \ {0} /\ Columns \in Nat \ {0} /\ Height \in Nat \ {0}
    /\ Height % Size = 0
    /\ MinY \in Int /\ Surfaces \subseteq Int /\ Depths \subseteq Nat
    /\ Touched \subseteq 0 .. Columns - 1
    /\ MaxWrites \in Nat

Air == "air"
Blocks == {"air", "stone", "dirt", "grass_block", "bedrock"}

ASSUME WrittenAssumption == Written \subseteq Blocks

SectionCount == Height \div Size
MaxY == MinY + Height - 1
Contains(y) == MinY <= y /\ y <= MaxY

ColumnIds == 0 .. Columns - 1
SectionIds == 0 .. SectionCount - 1
LocalYs == 0 .. Size - 1

\* The heights callers name: the world's and one beyond each end.
Ys == MinY - 1 .. MaxY + 1

VARIABLES
    sections,    \* the blocks of every section, layer by layer
    heightmap,   \* the packed heightmap
    generator,   \* what made the column
    reply,       \* what the last write of one block returned
    stale,       \* blocks were written since the heightmap was computed
    writes       \* number of writes, up to MaxWrites

vars == <<sections, heightmap, generator, reply, stale, writes>>

-----------------------------------------------------------------------------
(* Addressing.                                                             *)

\* section_of, for a height the world contains.
SectionOf(y) == (y - MinY) \div Size

LocalY(y) == (y - MinY) % Size

\* Chunk::block.
Block(c, y) == IF Contains(y) THEN sections[SectionOf(y)][LocalY(y)][c] ELSE Air

-----------------------------------------------------------------------------
(* Heightmaps.                                                             *)

\* heightmap_bits: a column has height + 1 heights, none included.
HeightmapBits ==
    CHOOSE b \in 1 .. Height + 1 : Height + 1 <= 2^b /\ (b = 1 \/ 2^(b - 1) < Height + 1)

\* Heightmaps::new: BitStorage::new panics over anything else.
ASSUME HeightmapAssumption == Representable(Columns, HeightmapBits)

IsEmpty(s) == \A ly \in LocalYs, c \in ColumnIds : s[ly][c] = Air

\* Mutated: a column that has its height is looked at again.
ScanRowAgain(scan, stack, index, ly) ==
    LET hit == {c \in ColumnIds : stack[index][ly][c] # Air}
    IN  IF scan.unresolved = 0 THEN scan
        ELSE [heights |-> [c \in ColumnIds |->
                              IF c \in hit THEN index * Size + ly + 1 ELSE scan.heights[c]],
              unresolved |-> scan.unresolved - Cardinality(hit)]

\* One layer of a section: columns without a height that have a block here get
\* theirs.  Zero is "not yet resolved".
ScanRow(scan, stack, index, ly) ==
    LET hit == {c \in ColumnIds : scan.heights[c] = 0 /\ stack[index][ly][c] # Air}
    IN  IF scan.unresolved = 0 THEN scan
        ELSE [heights |-> [c \in ColumnIds |->
                              IF c \in hit THEN index * Size + ly + 1 ELSE scan.heights[c]],
              unresolved |-> scan.unresolved - Cardinality(hit)]

\* One section, from its top layer down.
ScanSection(scan, stack, index) ==
    LET after[n \in 0 .. Size] ==
            IF n = 0 THEN scan ELSE ScanRow(after[n - 1], stack, index, Size - n)
    IN  IF scan.unresolved = 0 \/ IsEmpty(stack[index]) THEN scan ELSE after[Size]

\* The whole stack, from the top section down.
Scan(stack) ==
    LET start == [heights |-> [c \in ColumnIds |-> 0], unresolved |-> Columns]
        after[n \in 0 .. SectionCount] ==
            IF n = 0 THEN start ELSE ScanSection(after[n - 1], stack, SectionCount - n)
    IN  after[SectionCount]

\* recompute_heightmaps: the heights written over the old ones, column by column.
Recomputed(map, stack) ==
    LET heights == Scan(stack).heights
        after[n \in 0 .. Columns] == IF n = 0 THEN map ELSE BitSet(after[n - 1], n - 1, heights[n - 1])
    IN  after[Columns]

-----------------------------------------------------------------------------
(* Generators.                                                             *)

VoidGenerator == [surface_y |-> MinY - 1, dirt_depth |-> 0, flat |-> FALSE]

FlatGenerators == [surface_y : Surfaces, dirt_depth : Depths, flat : {TRUE}]

\* FlatGenerator::block_at.
BlockAt(g, y) ==
    CASE y = MinY -> "bedrock"
      [] y # MinY /\ y = g.surface_y -> "grass_block"
      [] y # MinY /\ y < g.surface_y /\ y >= g.surface_y - g.dirt_depth -> "dirt"
      [] y # MinY /\ y < g.surface_y /\ y < g.surface_y - g.dirt_depth -> "stone"
      [] y # MinY /\ y > g.surface_y -> Air

\* A layer of a section, and a whole section, of one block.
Layer(v) == [c \in ColumnIds |-> v]

Uniform(v) == [ly \in LocalYs |-> Layer(v)]

\* Mutated: the section's top layer is left out of the comparison.
GeneratedSectionShort(g, index) ==
    LET base == MinY + index * Size
        first == BlockAt(g, base)
    IN  IF \A y \in base .. base + Size - 2 : BlockAt(g, y) = first
        THEN Uniform(first)
        ELSE [ly \in LocalYs |-> Layer(BlockAt(g, base + ly))]

\* A section of one block is filled in one step, another layer by layer, the
\* layers of air left as they are.
GeneratedSection(g, index) ==
    LET base == MinY + index * Size
        first == BlockAt(g, base)
    IN  IF \A y \in base .. base + Size - 1 : BlockAt(g, y) = first
        THEN Uniform(first)
        ELSE [ly \in LocalYs |-> Layer(BlockAt(g, base + ly))]

\* Chunk::empty, and FlatGenerator::generate up to its heightmaps.
Generated(g) ==
    [index \in SectionIds |->
        IF g.flat THEN GeneratedSection(g, index) ELSE Uniform(Air)]

EmptyHeightmap == Zeroed(Columns, HeightmapBits)

-----------------------------------------------------------------------------
(* Operations.                                                             *)

Counted == writes < MaxWrites /\ writes' = writes + 1

\* Mutated: the height within the section is not counted from the world's floor.
SetBlockUnshifted(c, y, v) ==
    /\ Counted
    /\ Contains(y)
    /\ sections' = [sections EXCEPT ![SectionOf(y)][y % Size][c] = v]
    /\ reply' = Block(c, y)
    /\ stale' = TRUE
    /\ UNCHANGED <<heightmap, generator>>

SetBlock(c, y, v) ==
    /\ Counted
    /\ Contains(y)
    /\ sections' = [sections EXCEPT ![SectionOf(y)][LocalY(y)][c] = v]
    /\ reply' = Block(c, y)
    /\ stale' = TRUE
    /\ UNCHANGED <<heightmap, generator>>

\* A write outside the world is ignored, and answers air.
SetOutside(c, y, v) ==
    /\ Counted
    /\ ~Contains(y)
    /\ reply' = Air
    /\ UNCHANGED <<sections, heightmap, generator, stale>>

\* section_mut and fill_blocks.
FillSection(index, v) ==
    /\ Counted
    /\ sections' = [sections EXCEPT ![index] = Uniform(v)]
    /\ stale' = TRUE
    /\ UNCHANGED <<heightmap, generator, reply>>

RecomputeHeightmaps ==
    /\ heightmap' = Recomputed(heightmap, sections)
    /\ stale' = FALSE
    /\ UNCHANGED <<sections, generator, reply, writes>>

Init ==
    /\ generator \in {VoidGenerator} \cup FlatGenerators
    /\ sections = Generated(generator)
    /\ heightmap = IF generator.flat THEN Recomputed(EmptyHeightmap, sections) ELSE EmptyHeightmap
    /\ reply = Air
    /\ stale = FALSE
    /\ writes = 0

Next ==
    \/ \E c \in Touched, y \in Ys, v \in Written : SetBlock(c, y, v) \/ SetOutside(c, y, v)
    \/ \E index \in SectionIds, v \in Written : FillSection(index, v)
    \/ RecomputeHeightmaps

Spec == Init /\ [][Next]_vars

-----------------------------------------------------------------------------
(* Properties.                                                             *)

TypeOK ==
    /\ sections \in [SectionIds -> [LocalYs -> [ColumnIds -> Blocks]]]
    /\ heightmap.len = Columns /\ heightmap.bits = HeightmapBits
    /\ \A cell \in DOMAIN heightmap.data : heightmap.data[cell] \in 0 .. 2^WordBits - 1
    /\ generator \in {VoidGenerator} \cup FlatGenerators
    /\ reply \in Blocks
    /\ stale \in BOOLEAN
    /\ writes \in 0 .. MaxWrites

\* chunk.rs, recompute_heightmaps: "a block at min_y reports 1 and a column with
\* nothing in it reports 0".  A heightmap that is not stale holds, for every
\* column, one more than the highest block above the floor: the early exits skip
\* nothing, packing loses nothing, and the reciprocal of bitstorage.rs, by which the
\* server reads, finds the entry that clients find by walking the words.
HeightsMatch ==
    ~stale =>
        \A c \in ColumnIds :
            LET height == BitEntries(heightmap)[c]
            IN  /\ BitGet(heightmap, c) = height
                /\ height \in 0 .. Height
                /\ \A y \in MinY + height .. MaxY : Block(c, y) = Air
                /\ height # 0 => Block(c, MinY + height - 1) # Air

\* generator.rs, generate: filling uniform sections in one step gives the column
\* that block_at describes layer by layer.
GeneratedAsDescribed ==
    writes = 0 /\ generator.flat =>
        \A c \in ColumnIds, y \in MinY .. MaxY : Block(c, y) = BlockAt(generator, y)

Cells == ColumnIds \X (MinY .. MaxY)
SectionCells(index) == {cell \in Cells : SectionOf(cell[2]) = index}

Content == [cell \in Cells |-> Block(cell[1], cell[2])]

Map == INSTANCE BlockArray WITH
           Indices <- Cells,
           Ids     <- Blocks,
           Regions <- {SectionCells(index) : index \in SectionIds},
           Beyond  <- {Air},
           content <- Content

\* The column is one array of blocks over absolute heights: a write reaches the
\* block it names and no other, in whichever section, and a write outside the
\* world reaches none and answers air.
StoresBlocks == Map!Spec
=============================================================================
