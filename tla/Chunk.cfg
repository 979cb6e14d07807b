SPECIFICATION Spec
CONSTANTS
    WordBits = 9
    Scale = 64
    Size = 2
    Columns = 4
    MinY <- FloorY
    Height = 4
    Touched = {0, 3}
    Written = {"air", "stone"}
    Surfaces <- AllSurfaces
    Depths = {0, 2}
    MaxWrites = 3
INVARIANTS
    TypeOK
    HeightsMatch
    GeneratedAsDescribed
PROPERTIES
    StoresBlocks
