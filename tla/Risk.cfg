SPECIFICATION Spec
CONSTANTS
    b1 = b1
    b2 = b2
    a1 = a1
    a2 = a2
    None = None
    MinimumRisk = 25
    NormalRisk = 50
    MaximumOpenPositions = 1
    MaximumDailyLoss = 300
    DrawdownWarning = 500
    DrawdownSafeMode = 800
    DrawdownStop = 1500
    MinimumRiskReward = 150
    Baseline = {b1, b2}
    Account = {a1, a2}
    AccountOf <- MCAccountOf
    DayStartOf <- MCDayStartOf
    PeakOf <- MCPeakOf
    Equity <- MCEquity
    Positions = {0, 1}
    Facts <- MCFacts
    Proposal <- MCProposal
    DayLength = 2
    MaxTime = 2
INVARIANTS
    BestVolume
    ApprovedIsSafe
    LessEquityNoMoreRisk
PROPERTIES
    ContextIsUnambiguous
