SPECIFICATION Spec
CONSTANTS
    project = project
    catalogue = catalogue
    rescue = rescue
    None = None
    LocalOnly = {catalogue, rescue}
    Projects = {project}
    Owned = {project}
    Home = catalogue
    RescuedAs <- Rescues
    Workers = {page}
    MaxTurns = 3
INVARIANTS TypeOK Settled RemovedStaysStopped
CHECK_DEADLOCK FALSE
