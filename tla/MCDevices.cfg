SPECIFICATION Spec
CONSTANTS
    Machines <- MCMachines
    Config <- MCConfig
    WordMod = 65536
    StackDepth = 8
INVARIANT OneDriverEach
PROPERTY SearchEnds
CHECK_DEADLOCK FALSE
