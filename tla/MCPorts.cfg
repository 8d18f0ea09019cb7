SPECIFICATION FairSpec
CONSTANTS
    Port = {1, 2}
    Uplink = 1
    Neighbours = {1}
    Mapped = {1}
    VLAN = {10, 20}
    Req = {q1, q2}
    None = None
    Setups <- LinksAndVlans
    AskedVlans = {20}
    AskedLists <- Lists
    MaxAsks = 2
    MaxEvents = 1
INVARIANTS BitmapsAreSound  CutPortsReturn
 
