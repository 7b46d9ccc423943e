SPECIFICATION FairSpec
CONSTANTS
    r1 = r1
    r2 = r2
    y1 = y1
    Runner = {r1, r2}
    Cycle = {y1}
    CycleOf <- OneCycle
    Rounds = 2
    Quant = "QUANT_AND_SENIOR_REVIEW"
    None = None
INVARIANTS
    OneCallerPerCycle
    RecordsMatchClaims
    RecordIsTrue
    FailuresDecide
PROPERTIES
    RunsEnd
CHECK_DEADLOCK FALSE
