SPECIFICATION FairSpec
CONSTANTS
    Workers = {w1}
    Keys = {k1, k2}
    NoKey = NoKey
    Plan <- ReadWriteBlocked
    Budgets = {2}
    Callers = {TRUE, FALSE}
    MaxGen = 3
    MaxCards = 1
CHECK_DEADLOCK FALSE
INVARIANT CompletedWriteHasReceipt
PROPERTY EffectsStayVisible
PROPERTY RequestsEnd
