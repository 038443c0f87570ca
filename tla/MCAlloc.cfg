CONSTANTS
    Header = 1
    ChunkSize = 6
    Wrap = 16
    Request <- MCRequest
    TableSize <- MCTableSize
    MaxChunks = 4
    MaxBlocks = 4
SPECIFICATION AllocSpec
INVARIANTS
    AllocTypeOK
    BlocksApart
    OneUse
CHECK_DEADLOCK FALSE
