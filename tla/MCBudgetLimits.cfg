SPECIFICATION Spec
CONSTANTS
    CommitBytes = 7
    ValCap = 2
    KeyLen = 1
    MaxIn = 6
    Budgets <- AllBudgets
    Caps <- AllCaps
    Targets <- Captured
INVARIANT FirstByteNamed
CHECK_DEADLOCK FALSE
