CONSTANTS
  MaxOps = 3
  Threads = 2
SPECIFICATION PeripheralsSpec
INVARIANTS
    FaultHasCause
    RequestsFaithful
    ExitCloses
PROPERTIES
    Answered
CHECK_DEADLOCK FALSE
