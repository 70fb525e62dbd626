SPECIFICATION LiveSpec
CONSTANTS
    NSides = 3
    TricksPerRound = 1
    Scenario <- ThreeSides
    MaxWorkers = 4
    MaxOpen = 3
    MaxInput = 3
    MaxUnread = 2
    Rude = {}
    Wants <- OwnSide
    Leavers = {}
    Timeout <- ForEver
    Faults = {}
INVARIANTS
    FinalScores
PROPERTIES
    ServerEnds
CHECK_DEADLOCK FALSE
