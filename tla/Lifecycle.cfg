SPECIFICATION FairSpec
CONSTANTS
    Capacity = 3
    Precision = 4
    ShareBits = 8
    Shares <- MCShares
    Arrivals = 2
    Backlog = 2
    MaxPresses = 1
    Second = 10
    TickRate = 5
    MaxBody = 3
    Tolerance = 1
    MaxLate = 3
INVARIANTS
    TypeOK
    StopsOnlyWhenAsked
    NearestRank
PROPERTIES
    NoBurst
    ShutdownCompletes
    IdleInterruptStops
CHECK_DEADLOCK FALSE
