\* One thread: the BlockStore's sequential contract, with restarts.
CONSTANTS
    Blocks = {b1, b2, b3}
    Threads = {t1}
    Tiers <- MCTiers
    Capacity <- MCCapacity
    Sizes = {1, 2}
    PromoteThreshold = 2
    HighWM = 95
    LowWM = 80
    MaxOps = 7
    MaxRestarts = 1
    NONE = NONE
SPECIFICATION Spec
INVARIANTS TypeOK ResidencyConsistent CachedBytesAccounted
 
\* BlockStore calls never block; the only terminal states are those where
\* the request budget is spent and the worker sits idle waiting for RPCs.
CHECK_DEADLOCK FALSE
