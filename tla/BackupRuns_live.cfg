SPECIFICATION FairSpec
CONSTANTS
    Users = {u1, u2}
    Deletable = {}
    JobIds = {j1, j2}
    NoJob = NoJob
    Periods = {1}
    OtherKinds = {"restore_site"}
    Workers = 1
    StaleAfter = 1
    PollLimit = 1
    MaxTime = 2
    MaxCrashes = 0
    MaxSaves = 1
    DbFaults = FALSE
    Hangs = TRUE
CHECK_DEADLOCK FALSE
PROPERTIES
    BackupEnds
    
