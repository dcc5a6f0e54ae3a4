SPECIFICATION FairSpec
CONSTANTS
    r1 = r1
    r2 = r2
    x1 = x1
    Run = {r1, r2}
    Tables = 2
    Row = {x1}
    KnownUser = {r1}
    BypassRLS = TRUE
    MaxFaults = 2
    MaxArrivals = 2
INVARIANT CompletedMeansErased
INVARIANT NothingBeforeWindow
PROPERTY EventuallyErased
CHECK_DEADLOCK FALSE
