SPECIFICATION StitchFairSpec
CONSTANTS
    s1 = s1
    s2 = s2
    Stitcher = {s1, s2}
    Id = {1, 2, 3, 4, 5}
    LastNode = 4
    Late = {3}
    Subject = {3}
    None = None
    NoRow = NoRow
    MaxEdges = 3
    MaxErasures = 1
    Pair <- Chain
INVARIANT StitchTypeOK
INVARIANT ComponentsRight
INVARIANT SameIdMeansLinked
PROPERTY OlderWins
PROPERTY EventuallyOneId
