SPECIFICATION Spec
CONSTANTS
    PageSize = 8
    InitPages = 3
    HeapStart = 4
    MaxPages = 5
    SizeMod = 128
    MaxCalls = 4
    Sizes <- MCSizes
    Values <- MCValues
INVARIANTS
    ListIntegrity
    NoAdjacentFree
    NothingLeaks
    WalkSkipsNoFit
    FreshMemoryIsZero
PROPERTIES
    BlocksIntact
    MallocTerminates
    ImplementsAllocator
