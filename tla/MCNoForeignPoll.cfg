SPECIFICATION Spec
CONSTANTS
    NSides = 2
    TricksPerRound = 1
    Scenario <- OneTrick
    MaxWorkers = 3
    MaxOpen = 2
    MaxInput = 3
    MaxUnread = 2
    Rude = {1, 2}
    Wants <- InTurn
    Leavers = {}
    Timeout <- ForEver
    Faults = {}
INVARIANTS
    NoForeignPoll
CHECK_DEADLOCK FALSE
