\* A read's fill racing an under-file-system update and InvalidateFile.
CONSTANTS
    Threads <- MCThreads
    Files = {f1}
    PageIdx <- MCPageIdx
    MaxPages = 2
    MaxVersion = 1
    MaxOps = 3
    HasFetcher = TRUE
    NONE = NONE
SPECIFICATION Spec
INVARIANT InvalidationRemovesStale
CHECK_DEADLOCK FALSE
