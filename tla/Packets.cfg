SPECIFICATION Spec
CONSTANTS
    Group = 7
    Base = 128
    MaxVarintBytes = 3
    Width = 20
    XZSize = 64
    YSize = 16
    HalfSize = 256
    Utf8 <- MCUtf8
    ReadNbt <- ReadNetwork
    Known <- MCKnown
    Bare <- BareReads
    Ignoring <- ServerIgnores
    Inputs <- MCInputs
    MaxUsername = 2
    MaxAddress = 3
    MaxLocale = 2
    MaxCommand = 3
    MaxString = 3
    MaxKey = 2
    MaxDimensions = 2
    MaxRegistryEntries = 2
    MaxKnownPacks = 5
    MaxStringLen = 65535
    MaxDepth = 2
    MaxArrayLen = 16777216
INVARIANTS
    RoundTrips
    NothingUnnoticed
    OneMeaning
    MemoryBounded
CHECK_DEADLOCK FALSE
