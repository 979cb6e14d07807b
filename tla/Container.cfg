SPECIFICATION Spec
CONSTANTS
    WordBits = 8
    Scale = 64
    Volume = 3
    MinBits = 1
    MaxBits = 2
    DirectBits = 3
    Ids = {0, 1, 2, 7, 9}
    Group = 2
    Base = 4
    MaxVarintBytes = 3
    Width = 5
INVARIANTS
    TypeOK
    RepresentationSound
    WireFaithful
PROPERTIES
    Stores
    NarrowsOnlyToFit
