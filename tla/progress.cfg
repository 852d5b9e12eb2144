SPECIFICATION FairSpec
CONSTANTS
    Request = {r1}
    Worker = {w1, w2}
    Result = {v1}
    NoRow = NoRow
    RawRow = RawRow
    MaxBatch = 2
    ReadCount = 2
    StreamMaxLen = 2
    MaxFaults = 1
    MaxCrashes = 1
    MaxStreamLosses = 1
    MaxResends = 1
INVARIANTS
    AnnouncedIsNormalized
PROPERTIES
    HandledIsAnswered
    WaitingIsRead
    CompletedUnlessFailed
