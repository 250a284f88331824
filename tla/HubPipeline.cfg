SPECIFICATION FairSpec
CONSTANTS Items = {p1, p2}
INVARIANTS Consistent HonestResponse OnlyResultsFlow BatchAllOrNothing
PROPERTY BatchReturns
