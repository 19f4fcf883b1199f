SPECIFICATION RetrySpec
CONSTANTS
    NumThreads = 2
    PageFlagNum = 2
    NumBuffers = 3
    MaxMapnr = 3
    PfnCyclic = 3
    Dumpable <- MCThreePages
    ZeroPages <- MCZeroPages
    BitmapInFile = FALSE
    Faults <- WriteFaults
    MaxDumpLevel = 2
INVARIANT OrderedWrites
CHECK_DEADLOCK FALSE
