SPECIFICATION FairSpec
CONSTANTS
    Capacity = 1
    Precision = 4
    ShareBits = 8
    Shares = {240}
    Arrivals = 1
    Backlog = 1
    MaxPresses = 1
    Second = 1
    TickRate = 1
    MaxBody = 0
    Tolerance = 0
    MaxLate = 0
PROPERTIES
    RunsUntilInterrupted
CHECK_DEADLOCK FALSE
