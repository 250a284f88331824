SPECIFICATION MCSpec
CONSTANTS
    i1 = i1
    i2 = i2
    Inputs = {i1, i2}
    Readers = {r1}
    Sweeper = Sweeper
    InputCap = 1
    MaxClock = 1
    Keys = {"p"}
    KeyOf <- SameContent
    MaxFaults = 1
    MaxRequests = 2
    Window = 2
    FailureThreshold = 2
    Recovery = 2
    MaxTime = 4
    MaxCalls = 5
CHECK_DEADLOCK FALSE
INVARIANTS TypeOK SessionsKeep GatesAreExact
PROPERTY ExpiredLeavesMemory
