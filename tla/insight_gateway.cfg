SPECIFICATION FairSpec
CONSTANTS
    c1 = c1
    c2 = c2
    k1 = k1
    Call = {c1, c2}
    Key = {k1}
    None = None
    Cap = 2
    Costs = {1}
    TTL = 2
    Patience = 1
    MaxRequests = 4
    MaxRestarts = 1
INVARIANT AnswersAreRecent
INVARIANT NeverOvercharged
PROPERTY EveryRequestEnds
