SPECIFICATION Spec
CONSTANTS
    r1 = r1
    r2 = r2
    y1 = y1
    Runner = {r1}
    Cycle = {y1}
    CycleOf <- OneCycle
    Rounds = 2
    Quant = "QUANT_AND_SENIOR_REVIEW"
    None = None
PROPERTIES
    DispositionIsRecorded
CHECK_DEADLOCK FALSE
