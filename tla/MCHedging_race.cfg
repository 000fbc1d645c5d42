SPECIFICATION FairSpec
CONSTANT MaxHedges = 3
CHECK_DEADLOCK FALSE
INVARIANTS
    LosersCancelled
    OneWinner
    RejectsOnlyWhenAllFailed
PROPERTY Settles
