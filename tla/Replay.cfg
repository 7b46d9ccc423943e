CONSTANTS
    None = None
    Research = Research
    OutOfSample = OutOfSample
    Opens <- MCOpens
    Duration = 2
    Partition <- MCPartition
    RangeOf <- MCRangeOf
    RScale = 1
    Datasets <- MCDatasets
    Config <- MCConfig
    Schedule <- MCSchedule
    ObservedAt <- MCObservedAt
    EngineCounts = {1}
    Proposals <- MCProposals
    MaxFrames = 2
    MaxDecisions = 2
    MaxOutcomes = 3
    MaxSummaries = 1
    MaxTracked = 1
SPECIFICATION Spec
INVARIANTS
    NoLookAhead
    FirstTouch
    SummaryIsRight
    TrackedAgrees
CHECK_DEADLOCK FALSE
