SPECIFICATION FairSpec
CONSTANTS
    Poll = {p1}
    Refresh = {r1, r2}
    Vendors = {"cisco", "routeros", "aruba"}
    FlapLimit = 2
    MaxEvents <- Events
INVARIANTS OneOpenAlert OfflineIsAlerted 
PROPERTIES RowsFollow
