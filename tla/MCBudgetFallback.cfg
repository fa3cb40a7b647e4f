SPECIFICATION Spec
CONSTANTS
    CommitBytes = 4
    ValCap = 2
    KeyLen = 1
    MaxIn = 6
    Budgets <- AllBudgets
    Caps <- AllCaps
    Targets <- Captured
INVARIANT FallbackKept
CHECK_DEADLOCK FALSE
