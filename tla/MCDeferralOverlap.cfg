CONSTANTS
    MaxKeys = 3
    MaxNest = 3
    MaxDefers = 3
    Uses <- Overlaps
SPECIFICATION Spec
INVARIANT
    RequestKept
CHECK_DEADLOCK FALSE
