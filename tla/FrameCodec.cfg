SPECIFICATION Spec
CONSTANTS
    Group = 2
    Base = 4
    MaxVarintBytes = 3
    Width = 5
    MaxFrame = 6
    Threshold = 5
    Bodies <- MCBodies
    Zip <- MCZip
    SetCompression <- MCSetCompression
    EncryptionReply <- MCEncryptionReply
    Secret = 3
    Malformed <- MCMalformed
    MalformedZip <- MCMalformedZip
    MaxPackets = 3
INVARIANTS
    TypeOK
    VarintExact
    FaultsExplained
    BufferBounded
PROPERTIES
    Fifo
    Drains
CHECK_DEADLOCK FALSE
