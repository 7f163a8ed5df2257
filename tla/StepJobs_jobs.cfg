SPECIFICATION Spec
CONSTANTS
    Target = 1800
    PowerLimit = 100
    Ceiling = 95
    Plan <- SweepPlan
    Pairs <- ApplyPairs
    Dwells <- StepDwells
    GateDwells <- StepGateDwells
    ExtraPasses = 1
    MaxFaults = 1
    MaxRuns = 2
    MaxJobs = 2
    MaxStops = 1
    MaxReboots = 1
INVARIANTS
    QualifiedPaidItsDebt
    QualifiedIsOnRecord
    LossLeavesATrace
PROPERTIES
    JobsEnd
CHECK_DEADLOCK FALSE
