SPECIFICATION Spec
CONSTANTS
    CommitBytes = 4
    ValCap = 2
    KeyLen = 1
    MaxIn = 6
    Budgets <- AllBudgets
    Caps <- NoCaps
    Targets <- Captured
INVARIANT FirstByteNamed
CHECK_DEADLOCK FALSE
