SPECIFICATION ProbeSpec
CONSTANTS
    a = a
    b = b
    P = P
    H = H
    Probe = Probe
    None = None
    Words = {a, b}
    Hooks = {H, Probe}
    Protocols = {P, Probe}
    Wanted = {a}
    Slot <- MCSlot
    Answers <- MCAnswers
    Policies <- MCPolicies
    MaxMembers = 2
    MaxFrames = 3
INVARIANT ReadsFirst
PROPERTY KeepsContract
CHECK_DEADLOCK FALSE
