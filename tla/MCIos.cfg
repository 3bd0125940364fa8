SPECIFICATION FairSpec
CONSTANTS
    MaxTasks = 2
    MaxRuns = 2
    Loads <- MCLoads
    ProcessingCap = FALSE
INVARIANTS
    CompletedOnce
    NoListenerLeaked
    ExpirationReaches
    WantedIsScheduled
PROPERTIES
    TaskAnswered
    ExpirationStopsRun
CHECK_DEADLOCK FALSE
