SPECIFICATION FairSpec
CONSTANTS
    a = a
    b = b
    server = server
    a1 = a1
    b1 = b1
    Databases = {a, b, server}
    Tabs = {a1, b1}
    DatabaseOf <- TabsOfBoth
    Links <- Star
    Remarks = {r1, r2}
    Names = {}
    Clock = {1}
    Lookups = {}
    MaxHash = 1
    MaxGen = 4
    MaxRemoves = 0
PROPERTIES Convergence
CHECK_DEADLOCK FALSE
