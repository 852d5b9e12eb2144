SPECIFICATION FairSpec
CONSTANTS
    Request = {r1}
    Worker = {w1}
    Result = {v1}
    NoRow = NoRow
    RawRow = RawRow
    MaxBatch = 1
    ReadCount = 1
    StreamMaxLen = 2
    MaxFaults = 0
    MaxCrashes = 1
    MaxStreamLosses = 0
    MaxResends = 0
PROPERTIES
    PublishedIsCompleted
