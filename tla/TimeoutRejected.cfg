SPECIFICATION Spec
CONSTANTS
    p1 = p1
    p2 = p2
    i1 = i1
    i2 = i2
    a1 = a1
    a2 = a2
    s1 = s1
    s2 = s2
    Process = {p1}
    Intent = {i1}
    Source = {s1}
    SourceOf <- OnlyIntent
    Approval = {a1}
    ApprovedIntent <- OneApproval
    Exclusive = FALSE
    TimeoutsFinal = FALSE
    MaxCrashes = 0
    MaxOperator = 0
INVARIANTS
    RejectedIsFinal
CHECK_DEADLOCK FALSE
