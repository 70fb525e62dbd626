SPECIFICATION Spec
CONSTANTS
    NSides = 2
    TricksPerRound = 1
    Scenario <- TwoShortRounds
    MaxWorkers = 3
    MaxOpen = 2
    MaxInput = 3
    MaxUnread = 2
    Rude = {1, 2}
    Wants <- InTurn
    Leavers = {}
    Timeout <- ForEver
    Faults = {}
INVARIANTS
    NeverThrows
CHECK_DEADLOCK FALSE
