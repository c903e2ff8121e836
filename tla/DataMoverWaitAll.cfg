\* Submit then WaitAll, as the tests do; no Stop.
CONSTANTS
    Workers <- MCWorkers
    Caller = caller
    MaxTasks = 1
    CallWaitAll = TRUE
    CallStop = FALSE
    NONE = NONE
SPECIFICATION Spec
PROPERTY WaitAllReturns
\* Idle worker threads block on cv_ for ever once no more tasks come, and
\* a stopped mover has no steps left: both are legitimate final states.
CHECK_DEADLOCK FALSE
