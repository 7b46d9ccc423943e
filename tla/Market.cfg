\* A snapshot over clocks that disagree, with one correction of the host clock.
SPECIFICATION Spec
CHECK_DEADLOCK FALSE
CONSTANTS
    None = None
    Timeframes = 2
    DurationOf <- MCDurationOf
    CountOf <- MCCountOf
    MaxAgeOf <- MCMaxAgeOf
    MaxTickAge = 1
    MaxAccountAge = 1
    HasCredentials = TRUE
    Offsets <- MCOffsets
    Corrections <- MCCorrections
    MaxTime = 6
    MaxBuild = 2
    MaxCorrections = 1
INVARIANTS
    OneConnection
    CandlesAreFinal
    FreshIsRecent
