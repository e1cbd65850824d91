SPECIFICATION FairSpec
CONSTANTS
    t1 = t1
    t2 = t2
    h1 = h1
    h2 = h2
    nan = nan
    Timeouts <- MCTimeouts2
    Timers <- MCTimers2
    None = None
    NaN = nan
    Delays <- MCDelays
    TimeoutMax = 2
    MaxLag = 1
INVARIANTS
    WrapOutlivesHandle
    HandlesAccounted
PROPERTIES
    NoCallAfterClear
    NothingHangs
