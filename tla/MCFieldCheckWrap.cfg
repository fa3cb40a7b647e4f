SPECIFICATION Spec
CONSTANTS
    Structs = {"A", "B"}
    Roots <- Tables
    Root = "A"
    MaxDepth = 3
    Keys = {"x", "y", "X"}
    Actions = {"PassWrapped"}
    MaxNest = 3
    MaxValues = 3
INVARIANT JudgesEveryAnswer
CHECK_DEADLOCK FALSE
