SPECIFICATION Spec
CONSTANTS
    Curve <- ThreeBins
    PowerLimit = 200
    ClockTargets <- ThreeClocks
    Boundaries <- OneEach
    Draw <- PairDraw
    GateReadings <- Gates
    Suspects <- OldSilent
    LearningModes <- BothModes
    MaxSessions = 2
    MaxStops = 1
    MaxFailures = 1
    MaxFaults = 1
    MaxRestarts = 1
    MaxTroubles = 2
PROPERTY QualifiedOnlyByThisRun
CHECK_DEADLOCK FALSE
