SPECIFICATION RouterSpec
CONSTANTS
    c1 = c1
    c2 = c2
    c3 = c3
    i1 = i1
    i2 = i2
    y1 = y1
    Caller = {c1, c2, c3}
    InvocationOf <- Twins
    Invocation = {i1, i2}
    CycleOf <- OneCycle
    Cost <- Costs
    MaxAttempts = 2
    LastDay = 1
    MonthOf <- Months
    CallsPerCycle = 3
    CallsPerDay = 2
    DailyBudget = 2
    MonthlyBudget = 3
    Excess = 1
    None = None
SYMMETRY Symmetry
INVARIANTS
    WithinPolicy
    ChargesAreHeld
    OneSender
    TelemetryCoversCharges
CHECK_DEADLOCK FALSE
