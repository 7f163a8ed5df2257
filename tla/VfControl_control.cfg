SPECIFICATION Spec
CONSTANTS
    None = None
    SaneBins <- MCSane
    ClusterGap = 40
    ClusterMin = 3
    Tables <- MCTables
    Targets = {1770, 1800}
    Dips = {0, 30}
    Results <- MCResults
    MaxJobs = 2
    MaxFaults = 2
INVARIANTS AppliedIsThePlan ConfirmedErrorIsStock NeverOverclocks VerifiedCeilingHolds
CHECK_DEADLOCK FALSE
