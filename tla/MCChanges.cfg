SPECIFICATION ChangesSpec
CONSTANTS
    p1 = p1
    p2 = p2
    a1 = a1
    Push = {p1, p2}
    Acceptor = {a1}
    Cutting = {p2}
    None = None
    Vendors = {"cisco", "routeros"}
    Seconds = 9
    Minute = 6
    Margin = 1
    BootTicks = 3
    Prompt = TRUE
    RedisFails = TRUE
    Meanwhile = {}
    Device = {d1, d2}
    Active = {d1}
    Line = {a, b}
    NULL = NULL
    Overlap = 1
    MaxChanges = 1
    MaxWrites = 1
    MaxBreaks = 1
INVARIANTS   HistoryIsTrue
PROPERTIES ManagementComesBack BackupsCatchUp
