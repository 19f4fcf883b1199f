SPECIFICATION Spec
CONSTANTS
    NumEntries = 3
    Loads <- MCLoads
    Region = 3
    Inputs <- MCInputs
    Faults <- AllFaults
INVARIANTS
    EntriesAccounted
    ReadsRightPage
    RecentPagesCached
