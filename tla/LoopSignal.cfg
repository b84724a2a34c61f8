SPECIFICATION Spec
CONSTANTS
    Workers = {w1, w2}
    Main = main
    Shape = "stream"
    Iterations = 2
    MaxIter = 2
    RekeyEvery = 0
    BlobCycleEvery = 0
    Layers = {}
    RandomRefill = TRUE
    Faults = {}
    Signals = TRUE
INVARIANT
    SignalIsGraceful
