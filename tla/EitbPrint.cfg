SPECIFICATION Spec
CONSTANTS
    Profiles = {"streaming-triple", "singlemsg-triple", "streaming-unknown"}
    Streaming = {"streaming-triple", "streaming-unknown"}
    Served = {"streaming-triple", "singlemsg-triple"}
    Blobs <- MCBlobs
    Paths = {"a", "b"}
    Plain = "a"
    TextLen = 2
    FirstCap = 2
    SizeMax = 7
    MaxRuns = 3
    Faults = TRUE
INVARIANT BlobPrinted
CHECK_DEADLOCK FALSE
