SPECIFICATION Spec
CONSTANTS
    Workflows = {1, 2}
    Minutes = 1
    Calendars <- SmallWeek
    Sites <- PagedSites
    Dispatchers = {1, 2}
    Saves = 0
    MaxFaults = 0
    MaxTime = 2
CHECK_DEADLOCK FALSE
INVARIANTS
    OneDispatcherAtATime
