SPECIFICATION FairSpec
CONSTANTS
    Conns = {c1}
    Names = {n1}
    Uuids <- MCUuids
    OfflineUuid <- MCOfflineUuid
    MaxPlayers = 1
    SampleLimit = 0
    Compression = TRUE
    OnlineMode = FALSE
    Mute = {c1}
    SendCap = 5
    CounterMod = 2
    None = None
PROPERTIES
    SilentClientDropped
