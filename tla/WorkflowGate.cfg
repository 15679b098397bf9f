SPECIFICATION Spec
CONSTANTS
    Definitions <- Rewording
    First <- MCFirst
    RunIds = {r1, r2}
    Keys = {k1}
    NoKey = nokey
    Gone = gone
    Starters = {s1, s2}
    Deciders = {d1}
    Editors = {u1}
    Deleters = {x1}
CHECK_DEADLOCK FALSE
INVARIANTS
    TypeOK
    EffectWasShown
    GateOvershoot
    RecordTellsEffects
SYMMETRY Symmetric
