SPECIFICATION Spec
CONSTANTS
    Callers = {c1, c2}
    Handles = {1}
    Cap = 1
    MaxSize = 3
    MaxRekey = 2
    Operations = {"init", "load", "save", "rekey", "cipher", "json", "register", "free"}
    OutOfMemory = TRUE
INVARIANTS
    ResultCurrent
    BlobOfTheCall
    TooSmallOnlyIfGrown
    NoLeak
    NoOrphanSession
SYMMETRY ThreadSymmetry
