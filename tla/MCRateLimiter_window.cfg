SPECIFICATION FairSpec
CONSTANTS
    c1 = c1
    c2 = c2
    Callers <- TwoCallers
    Capacity = 2
    RefillRate = 1
    RefillInterval = 3
    InitialTokens = 3
    PollCap = 2
    WaitForPermit = TRUE
    MaxWait = 5
    Horizon = 9
INVARIANTS
    RateBound
    RefillsAtHalfRate
PROPERTIES
    WaitersProgress
    WaitEnds
