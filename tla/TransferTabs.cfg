SPECIFICATION ScenarioSpec
CONSTANTS
    Tabs = {t1, t2}
    Docs = {d1}
    Source = source
    Projects = {p1, p2}
    None = None
    WebLocks = TRUE
    MaxFaults = 2
    Main = {t1, p1}
INVARIANTS TypeOK NothingLost IndInv WithinReachOfOneTab
PROPERTIES DestroyedIsOnServer TabsEnd
CHECK_DEADLOCK FALSE
