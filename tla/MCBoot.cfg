SPECIFICATION Spec
CONSTANTS
    HandlerAddress <- MCHandlerAddress
    Word = 4
    Faults = {0, 6, 8, 13, 14}
    Irqs = {8, 9, 32}
    StackDepth = 3
INVARIANTS FaultsCaught RightHandler
CHECK_DEADLOCK FALSE
