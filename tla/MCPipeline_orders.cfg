SPECIFICATION FairSpec
CONSTANTS
    c1 = c1
    c2 = c2
    Callers <- TwoCallers
    Pipelines <- Orders
    Results <- ResultValues
    Ttl = 1
INVARIANTS
    FailuresNotCached
    AnswerExplained
    FactoryAskedAgain
    AbortVisible
    AttemptsAddUp
PROPERTIES
    Recovers
