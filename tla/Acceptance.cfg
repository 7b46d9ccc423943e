SPECIFICATION RSpec
CONSTANTS
    p1 = p1
    p2 = p2
    i1 = i1
    i2 = i2
    a1 = a1
    a2 = a2
    s1 = s1
    s2 = s2
    g1 = g1
    g2 = g2
    Process = {p1, p2}
    Intent = {i1, i2}
    Source = {s1, s2}
    SourceOf <- TwoSources
    Approval = {a1, a2}
    ApprovedIntent <- TwoApprovals
    Generation = {g1}
    Exclusive = FALSE
    TimeoutsFinal = TRUE
    MaxCrashes = 1
    MaxOperator = 1
SYMMETRY Symmetry
INVARIANTS
    ResultIsTrue
    OneSendPerConsumption
PROPERTIES
    AuthorityIsSpent
CHECK_DEADLOCK FALSE
