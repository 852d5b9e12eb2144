SPECIFICATION DFairSpec
CONSTANTS
    d1 = d1
    d2 = d2
    Request = {d1, d2, r1}
    Scenes <- TwoScenes
    Worker = {w1}
    Result = {v1, v2}
    NoRow = NoRow
    RawRow = RawRow
    MaxBatch = 1
    ReadCount = 2
    StreamMaxLen = 3
    MaxFaults = 1
    MaxCrashes = 1
    MaxStreamLosses = 0
    MaxResends = 0
INVARIANTS
    DeletedStaysDeleted
    MissingRowIsDeleted
    OthersAreKept
    LeftoversExplained
    ShownIsAnnounced
PROPERTIES
    RunEnds
    DeletedIsAcknowledged
