SPECIFICATION Spec
CONSTANTS
    Workers = {w1, w2}
    Keys = {k1}
    NoKey = NoKey
    Plan <- OneWrite
    Budgets = {1}
    Callers = {FALSE}
    MaxGen = 2
    MaxCards = 1
CHECK_DEADLOCK FALSE
INVARIANT CompletedRequestRunsNothing
