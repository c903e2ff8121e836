\* Two names, paths of depth 2, five allocatable ids with a cursor batch of
\* two, failing operation commits and one crash.
CONSTANTS
    Names = {n1, n2}
    NoName = NoName
    MaxDepth = 2
    MaxId = 4
    IdBatch = 2
    FailingCommits <- MCOpFailures
    MaxCrashes = 1
    NONE = NONE
SPECIFICATION Spec
INVARIANTS TypeOK AllocatorMonotone DirMemoryMatchesStore
\* Terminal states are those where the id budget is spent and every
\* remaining call is an error that changes nothing.
CHECK_DEADLOCK FALSE
