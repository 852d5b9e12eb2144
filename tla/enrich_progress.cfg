SPECIFICATION FairSpec
CONSTANTS
    Replica = {a, b}
    User = {u1}
    Profile = {p}
    a = a
    b = b
    p = p
    u1 = u1
    NoEntry = NoEntry
    NoUser = NoUser
    Corrupt = Corrupt
    NoAnswer = NoAnswer
    LdapEnabled = TRUE
    PoolSize = 2
    CacheTTL = 1
    MaxLag = 0
    MaxFaults = 1
    MaxOutages = 1
    MaxEdits = 0
    MaxRestarts = 1
    MaxCorruptions = 0
INVARIANT SlotsConserved
INVARIANT RefusedAtMostPoolSize
PROPERTY EnrichmentEnds
PROPERTY DegradedRecovers
