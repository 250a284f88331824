SPECIFICATION ServiceSpec
CONSTANTS
    a = a
    b = b
    Requests = {q1, q2}
    Providers = {a, b}
    Configured = {a, b}
    Strategies = {"single"}
    TargetLists <- SingleLists
    Fanout = 2
    Threshold = 2
    Limited = TRUE
    Burst = 2
    Answers <- OneAnswer
    Prompts = {"p", "long"}
    TooLong = {"long"}
    Asks <- SingleAsks
    DefaultModel = a
    Chain <- ChainOfTwo
    Unnamed = Unnamed
CHECK_DEADLOCK FALSE
INVARIANT NamedModelAnswers
