SPECIFICATION Spec
CONSTANTS
    Structs = {"A", "B"}
    Roots <- LoopTables
    Root = "A"
    MaxDepth = 3
    Keys = {"x", "y", "X"}
    Actions = {"Pass", "PassWrapped", "Skip", "Observe"}
    MaxNest = 3
    MaxValues = 3
INVARIANT DepthBoundsRecursion
CHECK_DEADLOCK FALSE
