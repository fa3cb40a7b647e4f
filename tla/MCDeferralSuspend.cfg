CONSTANTS
    MaxKeys = 3
    MaxNest = 3
    MaxDefers = 3
    Uses <- Suspending
SPECIFICATION Spec
INVARIANT
    PlaceIsDocument
CHECK_DEADLOCK FALSE
