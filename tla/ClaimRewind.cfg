SPECIFICATION Spec
CONSTANTS
    Workers = {w1}
    Keys = {k1}
    NoKey = NoKey
    Plan <- ReadRead
    Budgets = {2}
    Callers = {FALSE}
    MaxGen = 1
    MaxCards = 1
CHECK_DEADLOCK FALSE
PROPERTY RewindNeverAdvances
