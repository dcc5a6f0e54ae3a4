SPECIFICATION FairSpec
CONSTANTS
    c1 = c1
    c2 = c2
    e1 = e1
    e2 = e2
    none = none
    Call = {c1, c2}
    Event = {e1, e2}
    Listed = {e1}
    Bodies = 2
    Capacity = 1
    None = none
    MaxFaults = 1
    MaxRepeats = 1
INVARIANT TypeOK
INVARIANT LogFollowsRow
INVARIANT NothingDropped
PROPERTY Delivered
CHECK_DEADLOCK FALSE
