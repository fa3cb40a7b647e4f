CONSTANTS
    FlushRunMin = 2
    CommitBytes = 3
    MaxIn = 6
    ChunkMax = 4
    MaxGen = 1
    SuspendsAtValue = TRUE
    OpensEarly = FALSE
    TakesBefore <- AllCalls
SPECIFICATION Spec
INVARIANT
    NothingLost
CHECK_DEADLOCK FALSE
