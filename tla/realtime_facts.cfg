SPECIFICATION FactsFairSpec
CONSTANTS
    m1 = m1
    m2 = m2
    o1 = o1
    o2 = o2
    Member = {m1, m2}
    Order = {o1}
    Nobody = Nobody
    Times = {1, 2}
    MaxLog = 3
    MaxInterruptions = 2
INVARIANT NothingSkipped
INVARIANT StoresAgree
PROPERTY EventuallyNewest
CHECK_DEADLOCK FALSE
