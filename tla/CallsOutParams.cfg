SPECIFICATION Spec
CONSTANTS
    Callers = {c1}
    Handles = {1}
    Cap = 1
    MaxSize = 2
    MaxRekey = 1
    Operations = {"load", "save", "free"}
    OutOfMemory = FALSE
INVARIANT
    OutParametersSafe
