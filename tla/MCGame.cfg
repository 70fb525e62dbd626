SPECIFICATION GameSpec
CONSTANTS
    NSides = 4
    TricksPerRound = 3
    Scenario <- MCScenario
INVARIANTS
    GameTypeOK
    HandsInStep
    CountersAgree
    CardsInOnePlace
    NoRevoke
    MoverCanMove
    LedgerBalances
PROPERTIES
    ImplementsKierki
CHECK_DEADLOCK FALSE
