SPECIFICATION FairSpec
CONSTANTS
    Execs <- ThreeAttempts
    MaxAttempts = 2
    Limited = TRUE
    InitialDelay = 2
    MaxDelay = 3
    Multiplier = 2
CHECK_DEADLOCK FALSE
INVARIANTS
    NoLateTimer
    OneLiveAttempt
    CancelReachesAttempts
    AttemptsReported
    DelayDocumented
PROPERTY Settles
