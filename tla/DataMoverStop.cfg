\* Submit then Stop, as WorkerServer::Stop does.
CONSTANTS
    Workers <- MCWorkers
    Caller = caller
    MaxTasks = 1
    CallWaitAll = FALSE
    CallStop = TRUE
    NONE = NONE
SPECIFICATION Spec
PROPERTY StopReturns
\* Idle worker threads block on cv_ for ever once no more tasks come, and
\* a stopped mover has no steps left: both are legitimate final states.
CHECK_DEADLOCK FALSE
