SPECIFICATION Spec
CONSTANTS
    Size = 16
    Bases <- TwoBases
    Below = 0
    Boot <- BootEntries
INVARIANT StoreFaulted
