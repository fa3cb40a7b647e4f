SPECIFICATION Spec
CONSTANTS
    Structs = {"A", "B"}
    Roots <- ExoticTables
    Root = "A"
    MaxDepth = 3
    Keys = {"x", "y", "X"}
    Actions = {"Pass", "PassWrapped", "Skip", "Observe"}
    MaxNest = 3
    MaxValues = 3
INVARIANT NeverStricter
CHECK_DEADLOCK FALSE
