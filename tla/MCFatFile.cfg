SPECIFICATION Spec
CONSTANTS
    SectorSize = 2
    csize = 2
    n_fatent = 8
    database = 10
    Fat <- MCFat
    Files <- MCFiles
    MaxChain = 3
    Chain <- MCChain
    ReadSizes = {1, 5, 20}
    SeekOffsets = {0, 4, 5, 30}
    Buffers = {100}
    None = None
INVARIANT PositionsAgree
PROPERTIES
    CallsReturn
    ImplementsFile
