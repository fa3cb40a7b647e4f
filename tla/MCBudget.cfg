SPECIFICATION Spec
CONSTANTS
    CommitBytes = 4
    ValCap = 2
    KeyLen = 1
    MaxIn = 6
    Budgets <- AllBudgets
    Caps <- AllCaps
    Targets <- AllTargets
INVARIANT HoldBounded
INVARIANT CopiesWhole
INVARIANT OverflowStops
INVARIANT WindowHeld
CHECK_DEADLOCK FALSE
