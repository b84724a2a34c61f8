SPECIFICATION FairSpec
CONSTANTS
    PumpBuf = 2
    SizeMax = 7
    MaxInput = 5
    MaxCalls = 2
    Reuses = {TRUE, FALSE}
    OutOfMemory = TRUE
    Breaks = TRUE
INVARIANTS
    NoLeak
    WithinBlocks
PROPERTIES
    KeepsPromise
    Returns
