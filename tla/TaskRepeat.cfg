SPECIFICATION Spec
CONSTANTS
    Workers = {w1}
    Keys = {k1, k2, k3, k4}
    NoKey = NoKey
    Plan <- OneWrite
    Budgets = {1}
    Callers = {FALSE}
    MaxGen = 4
    MaxCards = 2
SYMMETRY Symmetry
CHECK_DEADLOCK FALSE
INVARIANT TypeOK
INVARIANT OneConfirmedEffectPerStep
PROPERTY WorkersNeverRevive
