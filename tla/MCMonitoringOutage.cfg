SPECIFICATION FairSpec
CONSTANTS
    Poll = {p1}
    Refresh = {r1}
    Vendors = {"cisco"}
    FlapLimit = 2
    MaxEvents <- Events
PROPERTY OutageAlertResolves
