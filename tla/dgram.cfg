SPECIFICATION DgramFairSpec
CONSTANTS
    MaxSends <- MCMaxSends
    MaxBinds <- MCMaxBinds
    MaxArrivals <- MCMaxArrivals
INVARIANTS
    QueueWaitsForBind
PROPERTIES
    SendIsAnswered
    CloseIsEmitted
\* A socket that is bound, or whose bind failed, may wait for ever.
CHECK_DEADLOCK FALSE
