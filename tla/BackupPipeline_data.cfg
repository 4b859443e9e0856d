SPECIFICATION Spec
CONSTANTS
    s1 = s1
    d1 = d1
    d2 = d2
    Sites = {s1}
    Dbs = {d1, d2}
    Selections <- TwoSelections
    Restored = {s1, d1}
    Whole = Whole
    Torn = Torn
    Partial = Partial
    Absent = Absent
    Jobs = {j1, j2}
    Workers = 2
    KeepLasts = {1, 2}
    MaxSnapshots = 2
    MayTakeOver = TRUE
    MayFail = TRUE
SYMMETRY Symmetry
CHECK_DEADLOCK FALSE
INVARIANTS
    TypeOK
    SnapshotsHoldManifest
    SuccessHasSnapshot
    LiveIsWhole
    ExportsCleanUp
