SPECIFICATION Spec
CONSTANTS
    Definitions <- Dropping
    First <- Short
    RunIds = {r1}
    Keys = {k1}
    NoKey = nokey
    Gone = gone
    Starters = {s1}
    Deciders = {}
    Editors = {}
    Deleters = {x1}
CHECK_DEADLOCK FALSE
PROPERTY
    NoGateDiscarded
