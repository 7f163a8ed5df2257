CONSTANTS
    SAFE_MODE_CRASH_THRESHOLD = 2
    SENTINEL_TDR_BUMP_BINS = 2
    SENTINEL_SILENT_BUMP_BINS = 1
    SENTINEL_MAX_BUMPS_PER_SESSION = 1
    Stock = Stock
    NoFlag = NoFlag
    NoIncident = NoIncident
    NoProfile = NoProfile
    NoCheckpoint = NoCheckpoint
    NoBaseline = NoBaseline
    NoJob = NoJob
    Pairs <- MCBins
    Candidates <- MCLowest
    OperatorMenu <- SentinelMenu
    OldTdr = 1
    MaxFaults = 2
    MaxOps = 3
    MaxTimers = 1
SPECIFICATION SSpec
CHECK_DEADLOCK FALSE
INVARIANTS
    OneRecoveryOwner
    LadderEnds
    CursorPassesOnlyCondemned
PROPERTIES
    ClosedUntilReboot
