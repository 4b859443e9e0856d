SPECIFICATION Spec
CONSTANTS
    Users = {u1}
    Deletable = {u1}
    JobIds = {j1, j2}
    NoJob = NoJob
    Periods = {0, 2}
    OtherKinds = {"restore_site"}
    Workers = 1
    StaleAfter = 2
    PollLimit = 1
    MaxTime = 3
    MaxCrashes = 1
    MaxSaves = 1
    DbFaults = TRUE
    Hangs = FALSE
SYMMETRY Symmetry
INVARIANTS
    NoOverlapUnlessStale
    ClaimNamesRunningJob
    RunningRowHasWorker
    ScheduledIffEnabled
PROPERTIES
    ClaimKept
    ImplementsLease
CHECK_DEADLOCK FALSE
