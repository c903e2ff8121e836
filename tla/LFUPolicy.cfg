\* Four block ids, frequencies up to 5: enough for two ids to share a
\* frequency after different histories and for min_freq_ to lag behind.
CONSTANTS
    Ids <- MCIds
    MaxFreq = 5
    NoId = NoId
SPECIFICATION Spec
INVARIANT IndexConsistent
PROPERTY OrderSpec
