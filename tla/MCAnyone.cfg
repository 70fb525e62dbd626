SPECIFICATION Spec
CONSTANTS
    NSides = 2
    TricksPerRound = 2
    Scenario <- OneRound
    MaxWorkers = 4
    MaxOpen = 3
    MaxInput = 2
    MaxUnread = 2
    Rude = {3}
    Wants <- InTurn
    Leavers = {}
    Timeout <- ForEver
    Faults = {}
INVARIANTS
    JoinedIsOver
    StreamTellsRound
PROPERTIES
    OnlyTheMoverMoves
CHECK_DEADLOCK FALSE
