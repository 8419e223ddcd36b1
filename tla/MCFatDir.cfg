SPECIFICATION Spec
CONSTANTS
    PerSector = 2
    IndexMod = 16
    HighWord = 4
    Volumes <- MCVolumes
    Paths <- MCPaths
    MaxListed = 10
INVARIANTS
    ListsInOrder
PROPERTIES
    LookupsResolve
    CallsReturn
