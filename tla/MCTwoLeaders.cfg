SPECIFICATION FairSpec
CONSTANTS
    Replica = {r1, r2}
    Device = {d1, d2}
    None = None
    Limit = 1
    Silent = TRUE
    MaxSessions = 5
    MaxFaults = 3
PROPERTY TwoLeadersEnd
CHECK_DEADLOCK FALSE
