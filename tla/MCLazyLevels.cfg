SPECIFICATION Spec
CONSTANTS
    MaxInput = 7
    MaxHooks = 2
    MaxLevels = 3
INVARIANT LevelsShape
INVARIANT OutputIsTree
INVARIANT EnterIsIdentity
CHECK_DEADLOCK FALSE
