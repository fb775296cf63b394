SPECIFICATION BoardsSpec
CONSTANTS
    RtcKept <- DeepSleepOnly
    Table <- FactoryTable
PROPERTY SomeScenarioEnds
