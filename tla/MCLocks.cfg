SPECIFICATION LocksSpec
CONSTANTS
    Proc = {p1, p2}
    s1 = s1
    s2 = s2
    s3 = s3
    Call = {s1, s2, s3}
    FlakyCall = {s1, s2}
    None = None
    MaxEntries = 3
    Redis = "healthy"
    SlowOps = TRUE
    Evictions = TRUE
    Replica = {r1, r2}
    Device = {d1, d2}
    Limit = 1
    Silent = FALSE
    MaxSessions = 5
    MaxFaults = 3
\* finitely many calls: the pool comes to rest
CHECK_DEADLOCK FALSE
INVARIANTS  LeaderHasLock
PROPERTIES FlakyCallsSettle FlakyLockTakenBackByOwner OneSweepsAll
