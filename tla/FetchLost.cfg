SPECIFICATION Spec
CONSTANTS
    Threads = {t1, t2}
    Inline = 2
    Sizes = {2, 3, 4}
    MaxFailures = 3
    OutOfMemory = FALSE
INVARIANT
    EmptyOnlyIfNone
