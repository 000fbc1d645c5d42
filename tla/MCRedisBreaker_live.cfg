SPECIFICATION FairSpec
CONSTANTS
    c1 = c1
    c2 = c2
    admin = admin
    Clients <- OneClient
    Admins <- OneAdmin
    FailThreshold = 2
    SuccessThreshold = 2
    BreakDuration = 1
    MaxDelay = 1
    Faulty = TRUE
PROPERTY Recovers
