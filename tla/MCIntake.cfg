SPECIFICATION IntakeSpec
CONSTANTS
    Call = {c1, c2, c3, c4}
    Other = Other
    None = None
    Legacy = 1
    PoolMax = 3
    Source = {s1, s2}
    Id = {i1}
    Absent = Absent
    Asked = Asked
    MaxMsgs = 3
    MaxEvents = 1
    MaxBatch = 1
    MaxBuffer = 1
    MapCap = 1
    Rate = 1
    Exporter = {e1, e2}
    Templated = {e2}
    Flush = {f1, f2}
    Chunk = 1
    MaxFlows = 3
    MaxFlowEvents = 2
\* finitely many calls and datagrams: everything comes to rest
CHECK_DEADLOCK FALSE
INVARIANTS ChainIntact IntakeAddsUp
PROPERTIES AppendedInOrder AuditCallsReturn IntakeSettles
