CONSTANTS
    FlushRunMin = 2
    CommitBytes = 3
    MaxIn = 6
    ChunkMax = 4
    MaxGen = 1
    SuspendsAtValue = FALSE
    OpensEarly = TRUE
    TakesBefore <- AllCalls
SPECIFICATION Spec
INVARIANT
    RunOrBuffer
CHECK_DEADLOCK FALSE
