\* One worker process, one block, registration never lost, one crash.
CONSTANTS
    Nodes <- MCNodesOne
    Blocks <- MCBlocks
    UsedValues <- MCUsedOne
    RegisterFailures <- MCNoFailures
    MaxWid = 1
    Capacity = 1
    WordBits = 2
    MaxCrashes = 1
    NONE = NONE
SPECIFICATION Spec
PROPERTY LocationsEventuallyKnown
