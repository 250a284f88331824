SPECIFICATION FairSpec
CONSTANTS
    a = a
    b = b
    c = c
    d = d
    Requests = {q1}
    Providers = {a, b, c, d}
    Configured = {a, b, c}
    Strategies <- AllStrategies
    TargetLists <- FiveTargets
    Fanout = 4
    Threshold = 1
    Limited = TRUE
    Burst = 1
    Answers <- FourAnswers
CHECK_DEADLOCK FALSE
INVARIANT WinnerByStrategy
PROPERTY EveryRequestEnds
