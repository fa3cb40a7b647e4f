SPECIFICATION Spec
CONSTANTS
    Structs = {"A", "B"}
    Roots <- Tables
    Root = "A"
    MaxDepth = 3
    Keys = {"x", "y", "X"}
    Actions = {"Pass", "PassWrapped", "Skip", "Observe"}
    MaxNest = 3
    MaxValues = 3
INVARIANT OnPathIsStack
INVARIANT RootTypesAgree
INVARIANT ZeroIsMarshalled
INVARIANT NeverStricter
INVARIANT JudgesWhatItKnows
CHECK_DEADLOCK FALSE
