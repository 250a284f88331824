SPECIFICATION Spec
CONSTANTS
    Tasks = {t1, t2}
    Rooms = {r1}
    MaxConnections = {1, 2}
    MaxPairs = 2
    Logins = {"b2c"}
    Burst = 1
    MaxJobs = 3
    MaxFaults = 1
INVARIANTS TypeOK HubIsSound
PROPERTY NobodyPassesRevoked
CHECK_DEADLOCK FALSE
SYMMETRY SymmetryOfTasks
