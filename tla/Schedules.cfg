SPECIFICATION FairSpec
CONSTANTS
    Goals = {1, 2}
    Ownerships <- ApartOrTogether
    Policy <- MCPolicy
    Lateness = 0
    Delays = {0, 1}
    Backoff = 1
    MaxOwners = 2
    Crons = {c1, c2}
    Manuals = {m1}
    Broken = {1}
    MaxFaults = 1
INVARIANTS
    TypeOK
PROPERTIES
    OneTaskPerGoal
    SkippedNeverRetried
    AttachedKeepsSlot
    EveryGoalDecided
