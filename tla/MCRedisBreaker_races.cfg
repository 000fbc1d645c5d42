SPECIFICATION Spec
CONSTANTS
    c1 = c1
    c2 = c2
    admin = admin
    Clients <- TwoClients
    Admins <- OneAdmin
    FailThreshold = 2
    SuccessThreshold = 2
    BreakDuration = 1
    MaxDelay = 0
    Faulty = TRUE
SYMMETRY Symmetry
INVARIANTS
    ClosedHasRoom
    FailuresAreReal
PROPERTY IsolationHolds
