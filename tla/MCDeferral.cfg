CONSTANTS
    MaxKeys = 3
    MaxNest = 3
    MaxDefers = 3
    Uses <- PlainUse
SPECIFICATION Spec
INVARIANTS
    TypeOK
    PairsAccounted
    BytesExact
    HeldIsValue
    RequestKept
    PlaceIsDocument
CHECK_DEADLOCK FALSE
