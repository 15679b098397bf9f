SPECIFICATION FairSpec
CONSTANTS
    Goals = {1, 2}
    Ownerships <- OnlyApart
    Policy <- AnyCatchesUp
    Lateness = 1
    Delays = {0, 1}
    Backoff = 2
    MaxOwners = 1
    Crons = {c1}
    Manuals = {}
    Broken = {1}
    MaxFaults = 0
PROPERTY
    LaterBatchReachesTheRest
