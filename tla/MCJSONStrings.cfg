SPECIFICATION Spec
CONSTANTS
    Units <- Chars
    Bytes <- Around
    MaxUnits = 3
    MaxBytes = 6
    Word = 3
    Wide = 2
    Narrow = 1
    vectorStringMin = 3
INVARIANT UnquoteIsMeaning
INVARIANT PrefixResumes
INVARIANT QuoteRoundTrip
INVARIANT SearchIsBytewise
CHECK_DEADLOCK FALSE
