\* Two worker processes, one block, a lost request or reply on any
\* registration, one crash.  Ids: two addresses need two; a third lets a
\* duplicate registration show.
CONSTANTS
    Nodes <- MCNodes
    Blocks <- MCBlocks
    UsedValues <- MCUsedOne
    RegisterFailures <- MCFailures
    MaxWid = 3
    Capacity = 1
    WordBits = 2
    MaxCrashes = 1
    NONE = NONE
SPECIFICATION Spec
INVARIANTS TypeOK OneIdPerAddress BlockIndexConsistent
PROPERTY WorkerEventuallyAlive
