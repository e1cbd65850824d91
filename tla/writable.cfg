SPECIFICATION FairSpec
CONSTANTS
    empty = empty
    small = small
    large = large
    Chunk <- MCChunk
    Size <- MCSize
    HighWaterMarks <- MCHighWaterMarks
    MaxWrites = 4
    MaxRejected = 1
INVARIANTS
    NothingLost
    Backpressure
PROPERTIES
    NobodyWaitsForever
    ImplementsSink
