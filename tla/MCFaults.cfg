SPECIFICATION Spec
CONSTANTS
    NSides = 2
    TricksPerRound = 1
    Scenario <- TwoShortRounds
    MaxWorkers = 3
    MaxOpen = 2
    MaxInput = 3
    MaxUnread = 2
    Rude = {}
    Wants <- AnySide
    Leavers = {}
    Timeout <- ForEver
    Faults = {"poll", "send", "read"}
INVARIANTS
    SeatedWorkerLives
    JoinedIsOver
    NeverThrows
    StreamTellsRound
PROPERTIES
    ImplementsKierki
CHECK_DEADLOCK FALSE
