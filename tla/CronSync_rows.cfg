SPECIFICATION CronSpec
CONSTANTS
    Jobs = {j1, j2}
    Commands = {c1}
    CronRequests = {r1, r2}
    MayFail = TRUE
CHECK_DEADLOCK FALSE
INVARIANTS
    SyncedUnlessDisturbed
PROPERTIES
    DeletedStaysDeleted
