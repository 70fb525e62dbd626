SPECIFICATION Spec
CONSTANTS
    NSides = 2
    TricksPerRound = 2
    Scenario <- OneRound
    MaxWorkers = 4
    MaxOpen = 2
    MaxInput = 3
    MaxUnread = 2
    Rude = {}
    Wants <- InTurn
    Leavers = {1}
    Timeout <- ForEver
    Faults = {}
INVARIANTS
    TypeOK
    SeatsAgree
    SeatedWorkerLives
    NobodySleepsOnWork
    MoverIsAsked
    StreamTellsRound
    OnlyZombiesLinger
CHECK_DEADLOCK FALSE
