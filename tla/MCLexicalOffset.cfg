SPECIFICATION Spec
CONSTANTS
    StrBytes <- StringBytes
    TailBytes <- SequenceTails
    LitBytes <- LiteralBytes
    MaxText = 7
    MaxMulti = 5
    ChunkMax = 4
INVARIANT OffsetIsFailingByte
CHECK_DEADLOCK FALSE
