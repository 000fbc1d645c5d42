SPECIFICATION Spec
CONSTANT MaxHedges = 1
CHECK_DEADLOCK FALSE
INVARIANT CancelReachesAll
