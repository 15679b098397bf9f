SPECIFICATION Spec
CONSTANTS
    Callers = {p1, p2, p3}
    Nobody = Nobody
    Posts <- MCPosts
    MaxCalls = 5
    MaxFaults = 2
SYMMETRY Alike
CHECK_DEADLOCK FALSE
INVARIANTS
    TypeOK
    OrderOfDurability
    ChainHolds
