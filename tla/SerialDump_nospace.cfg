SPECIFICATION Spec
CONSTANTS
    PageSize = 8
    CacheSize = 32
    Memories <- ZeroMemories
    PageSizes <- OneSize
    Devices <- FullDevices
    IntHalf = 1024
INVARIANT OnlyLostPagesHaveNoOffset
