\* Two threads, one file of two pages, room for one page: every Put of a
\* second page evicts, and reads, writes, prefetches and invalidations of
\* the same file interleave.
CONSTANTS
    Threads <- MCThreads
    Files = {f1}
    PageIdx <- MCPageIdx
    MaxPages = 1
    MaxVersion = 1
    MaxOps = 4
    HasFetcher = TRUE
    NONE = NONE
SPECIFICATION Spec
INVARIANTS TypeOK LruStructureConsistent IndexCoversCache
\* PageStore calls never block; terminal states are a spent call budget.
CHECK_DEADLOCK FALSE
