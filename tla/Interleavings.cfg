SPECIFICATION BoardSpec
CONSTANTS
    Iters = 4
    BenchIters = 2
    MainPrios = {1, 5}
    TaskPrio = 5
    Producers <- TwoProducers
    QUEUE_DEPTH = 2
    MaxIter = 3
    BUF_SIZE = 4
    CycleMod = 16
    MaxClock = 8
    Sensors <- TwoSensors
    SensorA = "A"
    Controller = "controller"
    Tasks <- TaskNames
    Bits <- BitNames
    NoWait = NoWait
    Rounds = 2
    MaxSamples = 2
    MaxSleeps = 12
INVARIANTS
    TypesOK
    MutexExact
    ReadAfterAllFinished
    Conservation
    NoDataRace
    SampleSpentOnce
    WakeupsCounted
PROPERTIES
    Terminates
    QueueIsFifo
    RingIsFifo
    ControllerFinishes
    SensorsNeverStuck
