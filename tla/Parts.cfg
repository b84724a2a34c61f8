SPECIFICATION MCSpec
CONSTANTS
    Threads = {t1, t2}
    Inline = 2
    Sizes = {2, 3, 4}
    MaxFailures = 3
    OutOfMemory = TRUE
    Width = 5
    FirstCap = 4
    Strings <- MCStrings
    MaxSets = 3
    MallocFails = TRUE
    SizeTMax = 255
    FloorCap = 20
    SizeChars = {"0", "7", "K", "m", "i", "B", " "}
    DurationChars = {"1", "9", "3", "0", ".", "n", "m", "s", "h", "e", "x"}
    MaxLen = 5
    IntMax = 255
    Base = 8
    TextCap = 5
    MinuteSecs = 4
    HourMinutes = 2
    Precision = 10
    DurationMax = 30080
    MaxPrinted = 40000
    Workers = {0, 1, 2}
    Seeds = {0, 1, 57, 62}
    PayloadSizes = {1, 2, 3}
    Gamma = 37
    MaxFills = 3
    CsprngFails = TRUE
    MaxTiers = 2
    LibTiers = {0, 1, 2, 3}
    Widths = {0, 4}
    MaxWork = 1
    Faults = TRUE
INVARIANTS
    OneWideBlock
    NeverStale
    QueryMeansPairs
    WithinBlock
    GivenUpWiped
    CapSound
    SizeMeansText
    DurationMeansText
    PrintedMeansValue
    PlaintextsDistinct
    DrawnWhole
    FiguresAreWork
\* a builder that was freed is not built again, a conversion is one call, and a
\* worker whose CSPRNG failed goes no further
CHECK_DEADLOCK FALSE
