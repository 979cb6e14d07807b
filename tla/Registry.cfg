SPECIFICATION Spec
CONSTANTS
    Conns = {c1, c2, c3}
    Names = {n1, n2}
    Uuids <- MCUuids
    OfflineUuid <- MCOfflineUuid
    MaxPlayers = 2
    SampleLimit = 0
    Compression = TRUE
    OnlineMode = FALSE
    Mute = {}
    SendCap = 1
    CounterMod = 2
    None = None
SYMMETRY Interchangeable
INVARIANTS
    TypeOK
    SlotOwnership
PROPERTIES
    RefusedWithCause
    Admits
