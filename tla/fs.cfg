SPECIFICATION FairSpec
CONSTANTS
    NumPaths <- MCNumPaths
    NumFds <- MCNumFds
    MaxCalls <- MCMaxCalls
    Lengths <- MCLengths
    Kinds <- MCKinds
    MaxFaults <- MCMaxFaults
    MaxRounds <- MCMaxRounds
INVARIANTS
    OwnDescriptor
PROPERTIES
    WholeFile
    CallCompletes
\* The user stops calling.
CHECK_DEADLOCK FALSE
