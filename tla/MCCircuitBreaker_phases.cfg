SPECIFICATION FairSpec
CONSTANTS
    c1 = c1
    c2 = c2
    admin = admin
    Callers <- TwoCallers
    Admins <- OneAdmin
    FailureThreshold = 2
    SuccessThreshold = 2
    BreakDuration = 1
INVARIANTS
    FailFast
PROPERTIES
    ImplementsContract
    IsolationHolds
    OpenEnds
    Recovers
