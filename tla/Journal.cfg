\* Two proposing threads, four proposals and two crashes, on a disk that
\* accepts every write.
CONSTANTS
    Threads <- MCThreads
    MaxSeq = 3
    MaxProposals = 4
    MaxCrashes = 2
    TORN = TORN
SPECIFICATION Spec
INVARIANTS TypeOK AcknowledgedInFile
\* Terminal states: the proposal and crash budgets are spent and the
\* journal is stopped or idle.
CHECK_DEADLOCK FALSE
