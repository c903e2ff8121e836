\* Two worker threads, a caller that submits, waits and stops.
CONSTANTS
    Workers <- MCWorkers
    Caller = caller
    MaxTasks = 3
    CallWaitAll = TRUE
    CallStop = TRUE
    NONE = NONE
SPECIFICATION Spec
INVARIANT TypeOK
PROPERTIES WaitAllMeansDone TasksEventuallyRun
\* Idle worker threads block on cv_ for ever once no more tasks come, and
\* a stopped mover has no steps left: both are legitimate final states.
CHECK_DEADLOCK FALSE
