SPECIFICATION Spec
CONSTANTS
    Target = 1800
    PowerLimit = 100
    Plan <- ShortPlan
    Bins <- ShortBins
    Dwells <- FaultDwells
    Quals <- FaultQuals
    Befores <- FromTop
    MaxFaults = 1
    MaxSessions = 2
    MaxStops = 1
    MaxReboots = 1
    TornWrites = FALSE
INVARIANTS
    RejectionOutlivesOptimism
    FailureIsRemembered
    SustainableStandsAboveFailures
PROPERTIES
    WritesAreGuarded
CHECK_DEADLOCK FALSE
