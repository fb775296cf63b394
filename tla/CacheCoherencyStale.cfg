SPECIFICATION Spec
CONSTANTS
    SectorSizes = {4096}
    TestSize = 64
    Contents = {{}, {0, 1, 2, 3, 4, 5, 6, 7}, {1, 3, 5, 7}}
INVARIANT StaleMeansStale
