SPECIFICATION Spec
CONSTANTS
    Callers = {p1, p2}
    Nobody = Nobody
    Posts <- MCPosts
    MaxCalls = 6
    MaxFaults = 0
CHECK_DEADLOCK FALSE
PROPERTY RowStaysSpent
