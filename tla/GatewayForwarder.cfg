SPECIFICATION FairSpec
CONSTANTS
    Requests = {r1, r2, r3}
    Threshold = 2
    BaseRecovery = 1
    MaxRecovery = 3
    HalfOpenMax = 3
    MaxRetries = 1
    Escapes = TRUE
INVARIANTS Consistent ProbeQuota BackoffFollowsTrips
PROPERTIES OutageBackoff RecoversOrExhausted
