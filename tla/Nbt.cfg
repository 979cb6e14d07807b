SPECIFICATION Spec
CONSTANTS
    MaxStringLen = 13
    MaxDepth = 2
    MaxArrayLen = 11
    Inputs <- MCInputs
    Documents <- MCDocuments
    LongStrings <- MCLongStrings
INVARIANTS
    TypeOK
    DepthBounded
    RoomBounded
    RoundTrips
    WritesWhatItRead
    LongStringsCut
CHECK_DEADLOCK FALSE
