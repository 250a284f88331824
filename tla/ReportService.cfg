SPECIFICATION MCSpec
CONSTANTS
    x = x
    y = y
    Ids = {i1, i2}
    Contents = {x, y}
    Formats <- TwoFormats
    FormatOf <- TheirFormats
    MemoryCap = 1
    Workers = {w1, w2}
    Fanout <- AllBackends
    Pins = {"local"}
    CacheCap = 1
    Threshold = 1
    Faulty = {"local"}
    MaxJobs = 3
    NoContent = NoContent
    Damaged = Damaged
    FileOf <- OneName
    DefaultFormat = "markdown"
    DefaultAudience = "technical"
    DefaultLanguage = "zh-CN"
    Supported = {"zh-CN", "en"}
    Givens <- SomeGivens
    Details = {"rules", "model"}
    Owners <- ThreeOwners
SYMMETRY Symmetry
CHECK_DEADLOCK FALSE
INVARIANTS TypeOK AnswersAreTrue FormatsAgree KeyDecidesContent
