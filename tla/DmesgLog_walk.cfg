SPECIFICATION FairSpec
CONSTANTS
    LogBufLen = 5
    Logs <- OtherLogs
    Faults <- AllFaults
INVARIANTS
    WholeLogWhenDone
    CycleFound
    OnlyUpToCorruption
PROPERTY Returns
