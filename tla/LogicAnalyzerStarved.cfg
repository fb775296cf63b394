SPECIFICATION ScheduledSpec
CONSTANTS
    BUF_SIZE = 4
    CycleMod = 4
    MaxClock = 4
PROPERTY AnalyzerProcesses
