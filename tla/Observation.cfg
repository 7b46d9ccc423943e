SPECIFICATION FairSpec
CONSTANTS
    r1 = r1
    r2 = r2
    s1 = s1
    n1 = n1
    n2 = n2
    None = None
    Runtime = {r1, r2}
    Symbol = {s1}
    SymbolOf <- OneSymbol
    SnapshotId = {n1, n2}
    Lookback = 2
    MaxAge = 1
    MaxTime = 2
    MaxFaults = 1
    MaxCrashes = 1
INVARIANTS
    NeverRedispatched
    ClaimsMatchRecords
    IdentityChain
PROPERTIES
    SettledStays
    PollsEnd
