SPECIFICATION Spec
CONSTANTS
    Request = {r1}
    Worker = {w1, w2}
    Result = {v1, v2}
    NoRow = NoRow
    RawRow = RawRow
    MaxBatch = 3
    ReadCount = 2
    StreamMaxLen = 2
    MaxFaults = 2
    MaxCrashes = 1
    MaxStreamLosses = 1
    MaxResends = 0
SYMMETRY Symmetry
INVARIANTS
    AckedIsDone
    EntriesAccounted
    OneOwner
    PendingIsHeldUnlessFailed
    OnlyEvictionLeavesRaw
    AnnouncedMatchesRow
PROPERTIES
    ImplementsLedger
    AttemptedOnce
