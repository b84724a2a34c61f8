SPECIFICATION Spec
CONSTANTS
    Workers = {w1, w2}
    Main = main
    Shape = "both"
    Iterations = 4
    MaxIter = 3
    RekeyEvery = 1
    BlobCycleEvery = 2
    Layers = {"parallax", "wrapper"}
    RandomRefill = TRUE
    Faults = {"build", "create", "csprng", "encrypt", "decrypt", "corrupt", "rekey", "load"}
    Signals = TRUE
INVARIANTS
    IndInv
    HandleSafety
    RoundTripKeying
    BlobMatchesLive
    PassMeansComplete
    OneHandlePerPipe
    MeasuresMainLoop
PROPERTIES
    KeepsContract
