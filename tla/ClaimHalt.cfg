SPECIFICATION Spec
CONSTANTS
    Legs = {1, 2, 3}
    Turns = {1, 2}
    NoLeg = 0
    MaxSteps = 2
    CouncilBudget = 1
    Seats = 2
    Settings <- Uncapped
    Cost = 1
    MaxFaults = 0
CHECK_DEADLOCK FALSE
PROPERTIES
    HaltIsFinal
