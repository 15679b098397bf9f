SPECIFICATION Spec
CONSTANTS
    Definitions <- Inserting
    First <- Alone
    RunIds = {r1}
    Keys = {k1}
    NoKey = nokey
    Gone = gone
    Starters = {s1}
    Deciders = {d1}
    Editors = {u1}
    Deleters = {}
CHECK_DEADLOCK FALSE
INVARIANT
    EffectWasShown
