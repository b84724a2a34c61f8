SPECIFICATION Spec
CONSTANTS
    Given <- MCGiven
    MaxArgs = 3
    Profiles <- MCProfiles
    HashNames <- MCHashNames
    WideHashes <- MCWideHashes
    Macs <- MCMacs
    Drbgs <- MCDrbgs
    Environment <- MCEnvironment
    Faults = TRUE
    OutOfMemory = FALSE
INVARIANTS
    SurfaceServed
    LayersSupplied
    EnvironmentStands
PROPERTIES
    ShapedBeforeBuilt
CHECK_DEADLOCK FALSE
