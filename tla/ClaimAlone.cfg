SPECIFICATION Spec
CONSTANTS
    Workers = {w1, w2}
    Keys = {k1, k2, k3}
    NoKey = NoKey
    Plan <- OneWrite
    Budgets = {1}
    Callers = {FALSE}
    MaxGen = 3
    MaxCards = 1
CHECK_DEADLOCK FALSE
INVARIANT HolderIsAloneInEffects
