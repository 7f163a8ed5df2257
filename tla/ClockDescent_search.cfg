SPECIFICATION Spec
CONSTANTS
    Target = 1800
    PowerLimit = 100
    Plan <- LongPlan
    Bins <- LongBins
    Dwells <- SearchDwells
    Quals <- SearchQuals
    Befores <- Predicted
    MaxFaults = 0
    MaxSessions = 1
    MaxStops = 0
    MaxReboots = 0
    TornWrites = FALSE
INVARIANTS
    NoRehammering
    BoundaryIsTight
PROPERTIES
    SearchEnds
CHECK_DEADLOCK FALSE
