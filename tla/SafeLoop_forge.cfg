CONSTANTS
    SAFE_MODE_CRASH_THRESHOLD = 2
    Stock = Stock
    NoFlag = NoFlag
    NoIncident = NoIncident
    NoProfile = NoProfile
    NoCheckpoint = NoCheckpoint
    NoBaseline = NoBaseline
    NoJob = NoJob
    Pairs <- MCPairs
    Candidates <- MCPairs
    OperatorMenu <- ForgeMenu
    OldTdr = 0
    MaxFaults = 2
    MaxOps = 3
    MaxTimers = 1
SPECIFICATION Spec
CHECK_DEADLOCK FALSE
INVARIANTS
    SafeModeIffThreshold
    InterruptedForgeAwaitsAck
    CrashedCandidateNeverRearmed
