SPECIFICATION Spec
CONSTANTS
    c1 = c1
    c2 = c2
    admin = admin
    Clients <- OneClient
    Admins <- NoAdmin
    FailThreshold = 1
    SuccessThreshold = 2
    BreakDuration = 1
    MaxDelay = 0
    Faulty = FALSE
PROPERTY ClosesAfterThreshold
