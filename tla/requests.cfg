SPECIFICATION Spec
CONSTANTS
    Request = {r1, r2}
    Worker = {w1}
    Result = {v1}
    NoRow = NoRow
    RawRow = RawRow
    MaxBatch = 2
    ReadCount = 2
    StreamMaxLen = 2
    MaxFaults = 2
    MaxCrashes = 1
    MaxStreamLosses = 1
    MaxResends = 0
SYMMETRY Symmetry
INVARIANTS
    TypeOK
    StreamEntryHasRow
    RefusedNeverPublished
    AcceptedIsStored
    StrandedIsSignalled
    AnnouncedInOrder
