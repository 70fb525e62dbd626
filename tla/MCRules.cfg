SPECIFICATION Spec
CONSTANTS
    NSides = 4
    TricksPerRound = 13
INVARIANTS
    LoopsFindTaker
    PenaltyAddsUp
    PromptsRead
    ResultsRead
    HandsArrive
CHECK_DEADLOCK FALSE
