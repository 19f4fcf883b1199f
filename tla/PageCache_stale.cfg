SPECIFICATION Spec
CONSTANTS
    NumEntries = 3
    Loads <- MCLoads
    Region = 3
    Inputs <- MmapInputs
    Faults <- NoFaults
INVARIANT ReadsRightPage
