SPECIFICATION Spec
CONSTANTS
    DwordMod = 1073741824
    Disks <- MCDisks
    Blank <- MCBlank
    Clusters = {1, 2, 127, 128, 255, 256, 340, 341, 342, 682}
    Seeds = {4093, 30001}
    Null = Null
INVARIANT MountedAsMade
PROPERTY LinksAsStored
CHECK_DEADLOCK FALSE
