SPECIFICATION TableSpec
CONSTANTS
    NSides = 2
    TricksPerRound = 2
    Scenario <- TwoRounds
    MaxWorkers = 4
    Clients = {1, 2, 3}
    Console = {2}
    Seat <- InTurn
    Frail = {1}
    MaxUnread = 1
INVARIANT
    AvailableCards
CHECK_DEADLOCK FALSE
