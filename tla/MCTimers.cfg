SPECIFICATION Spec
CONSTANTS
    NSides = 2
    TricksPerRound = 2
    Scenario <- OneRound
    MaxWorkers = 3
    MaxOpen = 2
    MaxInput = 4
    MaxUnread = 3
    Rude = {}
    Wants <- InTurn
    Leavers = {}
    Timeout = 5
    Faults = {}
INVARIANTS
    MoverIsOnTimer
PROPERTIES
    OnlyTheMoverMoves
CHECK_DEADLOCK FALSE
