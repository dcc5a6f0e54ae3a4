SPECIFICATION FairSpec
CONSTANTS
    a1 = a1
    a2 = a2
    p1 = p1
    p2 = p2
    Archiver = {a1, a2}
    Partition = {p1, p2}
    None = None
    MaxMessages = 2
    MaxProduced = 2
    MaxInterruptions = 2
INVARIANT NothingSkipped
INVARIANT DuplicatesBounded
PROPERTY CommittedMonotone
PROPERTY EventuallyHandled
CHECK_DEADLOCK FALSE
