SPECIFICATION Spec
CONSTANTS
    Threads = {t1, t2, t3}
    First = t1
    Limit = 100
    Spins = 1
INVARIANT MutualExclusion
PROPERTY SomebodyEnters
CHECK_DEADLOCK FALSE
