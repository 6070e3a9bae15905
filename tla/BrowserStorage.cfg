SPECIFICATION StorageSpec
CONSTANTS
    Tabs = {t1, t2}
    Projects = {p1, p2}
    Indexed = {db1}
    Profile = profile
    Names = {n1}
    None = None
    Legacy = legacy
    Copy = copy
    Fresh = {f1, f2}
    Docs = {d1}
    Archive = {a1, a2}
    MaxAsked = 4
    Keys = {k1, k2}
    Minted = {m1, m2}
    Shared = shared
    MaxMoves = 1
    Tab = tab
    Calls = {j1, j2}
    Accounts = {acc}
    Tokens = {tk1, tk2, tk3}
SYMMETRY Symmetry
INVARIANTS StorageTypeOK ListedOnceAndWhole CodesSealed SteadyTabKeepsItsSession
PROPERTIES AtomicChanges RefreshKeeps
CHECK_DEADLOCK FALSE
