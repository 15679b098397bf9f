SPECIFICATION Spec
CONSTANTS
    Definitions <- Dropping
    First <- Short
    RunIds = {r1}
    Keys = {k1}
    NoKey = nokey
    Gone = gone
    Starters = {s1}
    Deciders = {d1}
    Editors = {u1}
    Deleters = {}
CHECK_DEADLOCK FALSE
INVARIANT
    WaitingCanBeClosed
