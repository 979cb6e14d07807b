SPECIFICATION FairSpec
CONSTANTS
    Conns = {c1, c2}
    Names = {n1, n2}
    Uuids <- MCUuids
    OfflineUuid <- MCOfflineUuid
    MaxPlayers = 2
    SampleLimit = 0
    Compression = TRUE
    OnlineMode = FALSE
    Mute = {c1, c2}
    SendCap = 5
    CounterMod = 2
    None = None
PROPERTIES
    SilentSlotFreed
