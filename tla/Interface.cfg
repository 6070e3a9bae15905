SPECIFICATION InterfaceSpec
CONSTANTS
    Things = {A, B}
    Others = {d, e}
    None = None
    Projects = {P, Q}
    Devices = {lamp}
    Paths <- SomePaths
    Renames <- SomeRenames
    Trimmed <- TypedExactly
    Fold <- FoldK
    Empty = ""
    Max <- Bounds
SYMMETRY Symmetry
INVARIANTS InterfaceTypeOK ShownIsOpen WrittenAsMeant UnderWayIsShown
PROPERTIES LateAnswersUndoNothing AskedIsServed
CHECK_DEADLOCK FALSE
