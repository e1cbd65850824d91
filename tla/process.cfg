SPECIFICATION FairSpec
CONSTANTS
    Code = {0, 3}
    Listeners = 2
    MaxTicks = 3
    MaxWork = 1
    MaxJobs = 1
    Asserts = FALSE
INVARIANTS
    TicksInOrder
    ExitIsFinal
    EndsUnlessJobs
PROPERTIES
    ExitCompletes
