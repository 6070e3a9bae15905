SPECIFICATION Spec
CONSTANTS
    Tabs = {t1, t2}
    Jobs = {j1, j2}
    Accounts = {a1}
    Tokens = {k1, k2}
    None = None
    Faults = {"revoke", "reload", "storage"}
SYMMETRY Symmetry
INVARIANTS TypeOK SyncWithinSession OneRefreshPerTab RefresherAlive
