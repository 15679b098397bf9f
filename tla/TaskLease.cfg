SPECIFICATION Spec
CONSTANTS
    Workers = {w1, w2}
    Keys = {k1, k2}
    NoKey = NoKey
    Plan <- OneWrite
    Budgets = {1}
    Callers = {FALSE}
    MaxGen = 3
    MaxCards = 1
SYMMETRY Symmetry
CHECK_DEADLOCK FALSE
INVARIANT OneEffectPerCard
INVARIANT EffectHasIntent
INVARIANT NoEffectOverAmbiguity
INVARIANT HolderHasCommittedTask
INVARIANT OneOpenRequest
PROPERTY VerdictsAreFinal
