SPECIFICATION Spec
CONSTANTS
    Replica = {a, b}
    User = {u1}
    Profile = {p}
    a = a
    b = b
    p = p
    u1 = u1
    NoEntry = NoEntry
    NoUser = NoUser
    Corrupt = Corrupt
    NoAnswer = NoAnswer
    LdapEnabled = TRUE
    PoolSize = 1
    CacheTTL = 2
    MaxLag = 1
    MaxFaults = 1
    MaxOutages = 1
    MaxEdits = 2
    MaxRestarts = 0
    MaxCorruptions = 1
SYMMETRY Symmetry
INVARIANT TypeOK
INVARIANT CacheIsRecent
PROPERTY ImplementsContract
