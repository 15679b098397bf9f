SPECIFICATION Spec
CONSTANTS
    Legs = {1, 2, 3}
    Turns = {1, 2}
    NoLeg = 0
    MaxSteps = 2
    CouncilBudget = 1
    Seats = 2
    Settings <- MCSettings
    Cost = 1
    MaxFaults = 1
CHECK_DEADLOCK FALSE
INVARIANTS
    TypesAndShelf
    OneEffectPerYes
    TurnAllowance
    SpendOvershoot
PROPERTIES
    HaltHolds
