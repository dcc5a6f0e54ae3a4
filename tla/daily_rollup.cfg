SPECIFICATION FairSpec
CONSTANTS
    r1 = r1
    r2 = r2
    Run = {r1, r2}
    Replay = {r2}
    LastDate = 2
    None = None
    MaxEdits = 2
    MaxInterruptions = 1
INVARIANT GapsExplained
PROPERTY NeverOlderFigures
PROPERTY EventuallyShown
