SPECIFICATION Spec
CONSTANTS
    Definitions <- Dropping
    First <- Short
    RunIds = {r1}
    Keys = {k1}
    NoKey = nokey
    Gone = gone
    Starters = {s1}
    Deciders = {d1, d2}
    Editors = {}
    Deleters = {}
CHECK_DEADLOCK FALSE
INVARIANT
    RecordTellsEffects
