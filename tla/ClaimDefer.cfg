SPECIFICATION Spec
CONSTANTS
    Goals = {1, 2}
    Ownerships <- OnlyTogether
    Policy <- MCPolicy
    Lateness = 1
    Delays = {0, 1}
    Backoff = 3
    MaxOwners = 1
    Crons = {c1}
    Manuals = {m1}
    Broken = {}
    MaxFaults = 2
PROPERTY
    FailureDefers
