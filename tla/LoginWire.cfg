SPECIFICATION WSpec
CONSTANTS
    Conns = {c1, c2}
    Names = {n1, n2}
    Uuids <- MCUuids
    OfflineUuid <- MCOfflineUuid
    MaxPlayers = 2
    SampleLimit = 1
    Compression = TRUE
    OnlineMode = FALSE
    Mute = {}
    SendCap = 2
    CounterMod = 2
    None = None
    Chatter = 1
SYMMETRY Interchangeable
INVARIANTS
    FramingAgrees
    StatesAgree
    ServedMatchesAsked
PROPERTIES
    NoRedundantRebuild
