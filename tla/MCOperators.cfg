SPECIFICATION OperatorsSpec
CONSTANTS
    Device = {d1, d2}
    Request = {q1}
    NULL = NULL
    Rings = 3
    MaxJobs = 4
    MaxMoves = 2
    Replica = {r1, r2}
    Caller = {"user", "timer"}
    None = None
    Limit = 2
    LockTime = 1
    MaxTime = 1
    MaxEvents = 1
    Mount = {1, 2}
    MaxChanges = 2
    MaxFaults = 2
    Session = {t1}
    MaxKeys = 2
    Switch = {s1, s2}
    Wizard = {a1, a2}
    MaxMishaps = 1
\* a campaign, a page, a terminal and a wizard come to rest
CHECK_DEADLOCK FALSE
INVARIANTS   SessionsAreSound
PROPERTIES  SessionsCatchUp
