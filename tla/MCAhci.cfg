SPECIFICATION Spec
CONSTANTS
    Hba <- MCHba
    Roots = {1, 2, 6}
    Probes = 2
    SpinLimit = 3
    SpinGiveUp = 1
    LbaLow = 4
    LbaHigh = 8
    Sectors = {0, 3, 5}
INVARIANT ReadDelivers
PROPERTIES WritesOnlyWhileAwaited ReadsReturn
CHECK_DEADLOCK FALSE
