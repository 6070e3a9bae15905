SPECIFICATION AlgorithmsSpec
CONSTANTS
    r1 = r1
    t1 = t1
    t2 = t2
    None = None
    Candidates <- Brought
    RemarkIds = {r1}
    Texts = {t1, t2}
    NoText = NoText
    Labels <- Labelled
    Exports <- Exported
    ManualOf <- Derived
    PathRooms = {"Hall", "Attic"}
    Passwords = {"", "short", "long", "other"}
    LongEnough = {"long", "other"}
    MaxEntries = 5
    MaxInflated = 7
    MaxBytes = 9
    TrimmedTo <- TrimmedHere
    FoldedTo <- FoldedHere
    Filed <- ThreeFiled
    Written <- TypedIn
    LocalOnly = {"home", "rescue", "new"}
    Inputs <- Pages
    NewLocal = "new"
    NewProject = "n"
INVARIANTS OneAnswer WrittenReadsBack OneOfEach SlipsAreNoticed DamageIsRefused
CHECK_DEADLOCK FALSE
