SPECIFICATION BoardSpec
CONSTANTS
    Wrap = 8
    MaxGap = 7
    MaxWraps = 3
    Chars = {"a", "b", "NUL"}
    BufSize = 3
    MaxTyped = 5
    CounterWrap = 9
    MaxLate = 4
    PollLimit = 2
    Sane = 4
    SAMPLES = 3
    Buckets = 2
    DaemonPrios = {1, 2}
    SAMPLE_N = 2
    Shots = 2
    SectorSizes = {64, 4096}
    TestSize = 64
    Contents <- SomeBytes
    PageSize = 3
    Entries = 4
    FlashSize = 9
    IBUS = 20
    DBUS = 4
    Window = 14
    Size = 16
    Bases = {16, 48}
    Below = 2
    Boot <- BootEntries
    Cells = 7
    Taken <- SomeTaken
    SMALL_N = 4
    LargeCells = 3
    PoolCells = 2
    POOL_SLOT_SZ = 128
    POOL_SLOT_N = 32
INVARIANTS
    TypesOK
    CountsExact
    LinesEchoed
    LatenciesTrue
    ResultsComplete
    FreshAfterInvalidation
    Translates
    OnlyTheBuffer
    HoldersKeepTheirs
    NothingLeaked
