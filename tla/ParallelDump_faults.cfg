SPECIFICATION FairSpec
CONSTANTS
    NumThreads = 2
    PageFlagNum = 2
    NumBuffers = 2
    MaxMapnr = 5
    PfnCyclic = 3
    Dumpable <- MCDumpable
    ZeroPages <- MCZeroPages
    BitmapInFile = FALSE
    Faults <- PageFaults
INVARIANTS
    TypeOK
    OrderedWrites
    OwnData
    EndsCountedOnce
PROPERTIES
    WritesPageStream
    Returns
