CONSTANTS
    BitLevels = 2
    MaxDepth = 5
    MaxDeep = 3
    RootKinds <- MCRootKinds
SPECIFICATION Spec
PROPERTY
    RejectsLikeJSON
CHECK_DEADLOCK FALSE
