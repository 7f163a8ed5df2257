SPECIFICATION CommandSpec
CONSTANTS
    Clocks <- MCClocks
    CoreBins <- MCBins
    Margin = 12
    Options <- MCOptions
    UsefulPoints = 2
    TailBins = 2
    MaxKills = 1
    Unset = Unset
    Ladders <- MCLadders
    Raised <- MCRaised
    HwFloor = 800
    Histories <- MCHistories
    MaxLosses = 1
INVARIANTS LoadsAreSupported LadderStartIsKnown
PROPERTIES LossEndsAllProbing CommandEnds
CHECK_DEADLOCK FALSE
