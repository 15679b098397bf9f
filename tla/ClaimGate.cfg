SPECIFICATION Spec
CONSTANTS
    Definitions <- Dropping
    First <- Short
    RunIds = {r1, r2}
    Keys = {k1}
    NoKey = nokey
    Gone = gone
    Starters = {s1, s2}
    Deciders = {}
    Editors = {}
    Deleters = {}
CHECK_DEADLOCK FALSE
INVARIANT
    OneOpenGate
