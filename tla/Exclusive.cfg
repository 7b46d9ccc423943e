SPECIFICATION Spec
CONSTANTS
    p1 = p1
    p2 = p2
    i1 = i1
    i2 = i2
    a1 = a1
    a2 = a2
    s1 = s1
    s2 = s2
    Process = {p1}
    Intent = {i1, i2}
    Source = {s1, s2}
    SourceOf <- TwoSources
    Approval = {a1, a2}
    ApprovedIntent <- TwoApprovals
    Exclusive = TRUE
    TimeoutsFinal = TRUE
    MaxCrashes = 1
    MaxOperator = 2
PROPERTIES
    SendUnderAuthority
    HaltIsDurable
    NoOrderBesideConfirmed
    ImplementsOneShot
CHECK_DEADLOCK FALSE
