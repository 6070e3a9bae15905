SPECIFICATION Spec
CONSTANTS
    Uuids = {A, B}
    MaxTurns = 3
    None = None
INVARIANT WritesItsOwn
CHECK_DEADLOCK FALSE
