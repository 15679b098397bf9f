SPECIFICATION Spec
CONSTANTS
    Workflows = {1}
    Minutes = 1
    Calendars <- SmallWeek
    Sites <- TwoSites
    Dispatchers = {1, 2}
    Saves = 0
    MaxFaults = 1
    MaxTime = 4
CHECK_DEADLOCK FALSE
INVARIANTS
    BacklogIsAlwaysSkipped
