SPECIFICATION ClientFairSpec
CONSTANTS
    Calls = {c1, c2, c3}
    Threshold = 2
    Recovery = 2
    MaxRetries = 1
INVARIANT ClientConsistent
PROPERTIES OpenIsTemporary ImplementsStageCall EveryCallEnds
