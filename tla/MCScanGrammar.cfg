CONSTANTS
    BitLevels = 2
    MaxDepth = 4
    MaxDeep = 3
    RootKinds <- MCRootKinds
SPECIFICATION Spec
INVARIANTS
    TypeOK
    DepthsAgree
    StackIsDocument
    ProgressIsDocument
PROPERTY
    RejectsLikeJSON
CHECK_DEADLOCK FALSE
