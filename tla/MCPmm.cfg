SPECIFICATION Spec
CONSTANTS
    W = 2
    MaxFrame = 5
    Maps <- MCMaps
    Values <- MCValues
INVARIANTS
    NoPageSharedOrStale
    NoPageLost
    HaltsOnlyWhenExhausted
PROPERTIES
    HeldPagesIntact
