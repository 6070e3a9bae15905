SPECIFICATION Spec
CONSTANTS
    Tabs = {t1, t2}
    Jobs = {j1, j2}
    Accounts = {a1}
    Tokens = {k1, k2, k3}
    None = None
    Faults = {}
SYMMETRY Symmetry
INVARIANTS StoredTokenAccepted
