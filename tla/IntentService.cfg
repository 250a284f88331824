SPECIFICATION MCSpec
CONSTANTS
    Threads = {t1, t2}
    Threshold = 2
    Texts = {"x", "y"}
    Profiles = {"b2b", "b2c"}
    Jobs <- SomeJobs
    AllowFallback = {TRUE, FALSE}
    LowConfidence = 5500
    Confident = 7000
    Questions <- SomeQuestions
INVARIANTS Consistent AnswersArePerItem RankingIsSound
SYMMETRY SymmetryOfThreads
