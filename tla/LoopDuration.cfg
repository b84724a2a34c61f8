SPECIFICATION FairSpec
CONSTANTS
    Workers = {w1, w2}
    Main = main
    Shape = "message"
    Iterations = 0
    MaxIter = 2
    RekeyEvery = 1
    BlobCycleEvery = 1
    Layers = {"parallax"}
    RandomRefill = TRUE
    Faults = {"csprng", "rekey", "load", "decrypt"}
    Signals = TRUE
PROPERTIES
    Terminates
