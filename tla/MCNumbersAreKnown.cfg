SPECIFICATION Spec
CONSTANTS
    NSides = 2
    TricksPerRound = 1
    Scenario <- OneTrick
    MaxWorkers = 4
    MaxOpen = 3
    MaxInput = 2
    MaxUnread = 2
    Rude = {}
    Wants <- InTurn
    Leavers = {}
    Timeout <- ForEver
    Faults = {}
INVARIANTS
    NumbersAreKnown
CHECK_DEADLOCK FALSE
