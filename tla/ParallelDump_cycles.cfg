SPECIFICATION FairSpec
CONSTANTS
    NumThreads = 2
    PageFlagNum = 2
    NumBuffers = 2
    MaxMapnr = 5
    PfnCyclic = 3
    Dumpable <- MCDumpable
    ZeroPages <- MCZeroPages
    BitmapInFile = FALSE
    Faults <- NoFaults
PROPERTY Completes
