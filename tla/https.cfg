CONSTANTS
  MaxWrites = 2
  Polls = {"poll"}
SPECIFICATION FairSpec
INVARIANTS
    FaultHasCause
    ChunksInOrder
    ReleasedOnce
PROPERTIES
    EndLeadsToRelease
CHECK_DEADLOCK FALSE
