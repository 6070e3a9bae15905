SPECIFICATION FairSpec
CONSTANTS
    Tabs = {t1}
    Jobs = {j1, j2}
    Accounts = {a1}
    Tokens = {k1, k2}
    None = None
    Faults = {"lost", "late", "revoke"}
PROPERTIES SignOutCompletes SessionResolves
