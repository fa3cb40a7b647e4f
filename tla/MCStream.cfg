CONSTANTS
    FlushRunMin = 2
    CommitBytes = 3
    MaxIn = 6
    ChunkMax = 4
    MaxGen = 1
    SuspendsAtValue = FALSE
    OpensEarly = FALSE
    TakesBefore <- AllCalls
SPECIFICATION Spec
INVARIANTS
    TypeOK
    NothingLost
    RunOrBuffer
    HeldBeforeCommit
    AlignedIsCaughtUp
PROPERTIES
    KeepsPromise
    WriteTerminates
CHECK_DEADLOCK FALSE
