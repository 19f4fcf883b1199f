SPECIFICATION Spec
CONSTANTS
    PageSize = 8
    CacheSize = 32
    Memories <- MCMemories
    PageSizes <- OneSize
    Devices <- MCDevices
    IntHalf = 64
INVARIANTS
    BuffersSuffice
    ReadableWhenComplete
    LostPagesHaveNoOffset
