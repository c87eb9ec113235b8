SPECIFICATION FairSpec
CONSTANTS
    MaxBytes = 2
    MaxInodes = 2
    MaxRuns = 1
    MaxIncidents = 2
    None = None
INVARIANTS
    LogIsSound
    LoggedBeforeReport
PROPERTIES
    PurgeTakesShown
    WritesAreNoticed
    ExitIsReported
CHECK_DEADLOCK FALSE
