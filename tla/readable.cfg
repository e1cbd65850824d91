SPECIFICATION ReadFairSpec
CONSTANTS
    a = a
    b = b
    Byte <- MCByte
    Chunk <- MCChunk
    MaxPushes = 4
    MaxDepth = 3
    MaxErrors = 1
INVARIANTS
    BytesInOrder
    EndAfterData
PROPERTIES
    EofLeadsToEnd
