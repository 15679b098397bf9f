SPECIFICATION Spec
CONSTANTS
    Workflows = {1}
    Minutes = 1
    Calendars <- SmallWeek
    Sites <- OneSite
    Dispatchers = {1, 2}
    Saves = 1
    MaxFaults = 0
    MaxTime = 2
CHECK_DEADLOCK FALSE
INVARIANTS
    ManualNeverGetsASlot
