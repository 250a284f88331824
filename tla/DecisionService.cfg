SPECIFICATION MCSpec
CONSTANTS
    Threads = {t1, t2}
    Threshold = 2
    Others = {"x", "y"}
    Flagged = {"in_stock"}
    Features <- SomeFeatures
    Names = {"one"}
    Jobs <- SomeJobs
    Settings <- SomeSettings
    Floor = 2
    Ceiling = 4
    RiskLimit = 70
    UnsureBelow = 55
    RulesWeight = 50
    ModelWeight = 50
    TopK = 3
    Requests <- SomeRequests
    ModelVotes <- SomeVotes
INVARIANTS TypeOK DecisionsAreTrue LoadedOnce ProperResponse RulesKeepTheLimits UnsureModelsOnlyRank NothingIsApprovedUnseen
SYMMETRY SymmetryOfThreads
