SPECIFICATION Spec
CONSTANTS
    LogBufLen = 5
    Logs <- AllLogs
    Faults <- NoFaults
INVARIANT OnlyUpToCorruption
