SPECIFICATION Spec
CONSTANTS
    StrBytes <- StringBytes
    TailBytes <- SequenceTails
    LitBytes <- LiteralBytes
    MaxText = 7
    MaxMulti = 5
    ChunkMax = 4
INVARIANT VerdictIsGrammar
INVARIANT IdleIsClean
INVARIANT KeyIsText
INVARIANT OffsetInCharacter
CHECK_DEADLOCK FALSE
