SPECIFICATION FairSpec
CONSTANTS
    Workflows = {1, 2}
    Minutes = 1
    Calendars <- SmallWeek
    Sites <- MCSites
    Dispatchers = {1, 2}
    Saves = 1
    MaxFaults = 1
    MaxTime = 2
CHECK_DEADLOCK FALSE
INVARIANTS
    TypeOK
    BacklogIsSkipped
    FirstStrictlyAfter
PROPERTIES
    SlotsFireOnce
    DueIsServed
