SPECIFICATION NetFairSpec
CONSTANTS
    MaxWrites <- MCMaxWrites
    MaxReads <- MCMaxReads
    MaxServerCalls <- MCMaxServerCalls
    MaxOthers <- MCMaxOthers
INVARIANTS
    ClosedIsDone
PROPERTIES
    ConnectIsAnswered
    LeadsToClose
