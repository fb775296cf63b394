SPECIFICATION BoardSpec
CONSTANTS
    LowDelay = 1
    MidDelay = 5
    HighDelay = 3
    LowWork = 30
    MidWork = 5
    MidTurns = 4
    ScenarioTime = 60
    GapTime = 10
    Producers <- TempHumidPress
    Period <- PeriodUnits
    QUEUE_DEPTH = 8
    MaxIter = 9
    SendWait = 1
    ReceiveWait = 40
    ConsumerPrio = 5
    ProducerPrio = 4
    GroupSensors = {"A", "B", "C"}
    SensorA = "A"
    SamplingTime <- ABCDelay
    Rounds = 3
    MaxSamples = 6
    DoneWait = 20
    AndWait = 50
    OrWait = 50
    PulseTime = 1
    AlarmTime = 35
    NoWait = NoWait
    Timeout = 5
    HangTick = 15
    SensorDelay = 4
    ProcessDelay = 1
    LoggerDelay = 12
    MonitorStart = 6
    MonitorDelay = 20
INVARIANTS
    TypesOK
    OwnSemaphoreOnly
    GivenScenariosFinish
    BacklogOnlyAtStart
    RoundsInLockstep
    LoggerKeepsPace
    FiresInTime
PROPERTY
    FiresOnlyOnHang
