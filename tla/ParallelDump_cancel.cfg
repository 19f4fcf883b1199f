SPECIFICATION FairSpec
CONSTANTS
    NumThreads = 2
    PageFlagNum = 2
    NumBuffers = 3
    MaxMapnr = 3
    PfnCyclic = 3
    Dumpable <- MCThreePages
    ZeroPages <- MCFirstPage
    BitmapInFile = TRUE
    Faults <- PageFaults
PROPERTY Returns
CHECK_DEADLOCK FALSE
