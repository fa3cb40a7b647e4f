SPECIFICATION Spec
CONSTANTS
    CommitBytes = 4
    ValCap = 2
    KeyLen = 1
    MaxIn = 6
    Budgets <- AllBudgets
    Caps <- OneByte
    Targets <- Prefixed
INVARIANT NoLateHook
CHECK_DEADLOCK FALSE
