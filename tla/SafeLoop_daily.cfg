CONSTANTS
    SAFE_MODE_CRASH_THRESHOLD = 2
    Stock = Stock
    NoFlag = NoFlag
    NoIncident = NoIncident
    NoProfile = NoProfile
    NoCheckpoint = NoCheckpoint
    NoBaseline = NoBaseline
    NoJob = NoJob
    Pairs <- MCOnePair
    Candidates <- MCOnePair
    OperatorMenu <- DailyMenu
    OldTdr = 0
    MaxFaults = 6
    MaxOps = 2
    MaxTimers = 1
SPECIFICATION Spec
CHECK_DEADLOCK FALSE
INVARIANTS
    TypeOK
    NoReapplyAfterCrash
    CrashLoopBound
    AppliedProfileKept
    WedgedProfileStaysOff
