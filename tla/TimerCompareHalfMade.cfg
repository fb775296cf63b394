SPECIFICATION Spec
CONSTANTS
    SAMPLE_N = 2
    DaemonPrios = {1}
    Shots = 1
INVARIANT StatisticsWhole
