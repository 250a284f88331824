SPECIFICATION FairSpec
CONSTANTS
    Requests = {r1, r2}
    Threshold = 2
    BaseRecovery = 1
    MaxRecovery = 3
    HalfOpenMax = 2
    MaxRetries = 1
    Escapes = TRUE
PROPERTY AutoRecovery
