SPECIFICATION Spec
CONSTANTS
    Replica = {a}
    User = {u1}
    Profile = {p}
    a = a
    p = p
    u1 = u1
    NoEntry = NoEntry
    NoUser = NoUser
    Corrupt = Corrupt
    NoAnswer = NoAnswer
    LdapEnabled = TRUE
    PoolSize = 1
    CacheTTL = 1
    MaxLag = 0
    MaxFaults = 1
    MaxOutages = 0
    MaxEdits = 0
    MaxRestarts = 0
    MaxCorruptions = 0
SYMMETRY Symmetry
INVARIANT MatchIsApplied
