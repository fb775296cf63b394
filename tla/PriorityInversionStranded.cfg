SPECIFICATION Spec
CONSTANTS
    LowDelay = 1
    MidDelay = 5
    HighDelay = 3
    LowWork = 30
    MidWork = 5
    MidTurns = 4
    ScenarioTime = 60
    GapTime = 10
INVARIANT AllTasksFinish
