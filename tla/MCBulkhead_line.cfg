SPECIFICATION FairSpec
CONSTANTS
    r1 = r1
    r2 = r2
    r3 = r3
    r4 = r4
    r5 = r5
    Requests <- FiveRequests
    MaxConcurrent = 2
    MaxQueue = 2
INVARIANTS
    ActiveCountExact
    QueueConsistent
    NoIdleSlotWhileWaiting
PROPERTIES
    NoOvertaking
    WaitersAreServed
    ImplementsContract
