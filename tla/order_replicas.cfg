SPECIFICATION Spec
CONSTANTS
    Request = {r1}
    Worker = {w1, w2}
    Result = {v1}
    NoRow = NoRow
    RawRow = RawRow
    MaxBatch = 2
    ReadCount = 1
    StreamMaxLen = 2
    MaxFaults = 0
    MaxCrashes = 0
    MaxStreamLosses = 0
    MaxResends = 0
INVARIANTS
    AnnouncedInOrder
