SPECIFICATION Spec
CONSTANTS
    a = a
    b = b
    server = server
    a1 = a1
    b1 = b1
    Databases = {a, b, server}
    Tabs = {a1, b1}
    DatabaseOf <- TabsOfBoth
    Links <- Star
    Remarks = {}
    Names = {n1}
    Clock = {1}
    Lookups = {1, 2}
    MaxHash = 1
    MaxGen = 4
    MaxRemoves = 0
INVARIANTS CatalogueKept LatestEditWins
CHECK_DEADLOCK FALSE
