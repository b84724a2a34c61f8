SPECIFICATION Spec
CONSTANTS
    Given <- MCSmall
    MaxArgs = 1
    Profiles <- MCProfiles
    HashNames <- MCHashNames
    WideHashes <- MCWideHashes
    Macs <- MCMacs
    Drbgs <- MCDrbgs
    Environment <- MCEnvironment
    Faults = FALSE
    OutOfMemory = TRUE
INVARIANT OverridesCarried
CHECK_DEADLOCK FALSE
