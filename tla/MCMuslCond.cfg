SPECIFICATION MCSpec
CONSTANTS
    Waiters <- MCWaiters
    Signalers <- MCSignalers
    MaxCalls <- MCMaxCalls
    None = None
    w1 = w1
    w2 = w2
    w3 = w3
    s1 = s1
INVARIANTS
    PointersLive
    NobodyForgotten
PROPERTIES
    WaitsReturn
CHECK_DEADLOCK FALSE
