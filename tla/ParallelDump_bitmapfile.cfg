SPECIFICATION Spec
CONSTANTS
    NumThreads = 2
    PageFlagNum = 2
    NumBuffers = 3
    MaxMapnr = 3
    PfnCyclic = 3
    Dumpable <- MCThreePages
    ZeroPages <- MCFirstPage
    BitmapInFile = TRUE
    Faults <- AllFaults
INVARIANT CompleteOnSuccess
\* A cancelled producer may leave current_pfn_mutex locked, and if no producer
\* starts the consumer waits for the semaphore for ever.
CHECK_DEADLOCK FALSE
