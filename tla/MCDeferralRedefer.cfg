CONSTANTS
    MaxKeys = 3
    MaxNest = 3
    MaxDefers = 3
    Uses <- Redefers
SPECIFICATION Spec
INVARIANT
    PairsAccounted
CHECK_DEADLOCK FALSE
