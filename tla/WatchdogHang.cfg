SPECIFICATION FairSpec
CONSTANTS
    Timeout = 5
    HangTick = 15
PROPERTY HangReboots
