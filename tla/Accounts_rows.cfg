SPECIFICATION Spec
CONSTANTS
    u1 = u1
    d1 = d1
    k1 = k1
    Users = {u1}
    Databases = {d1}
    Keys = {k1}
    Owner <- OneUser
    Values = {v1, v2}
    Default = v1
    Unlimited = Unlimited
    None = None
    Blank = Blank
    Requests = {r1, r2}
    Calls <- DefaultFirst
    LateCalls <- TwoDeletions
    MaxLate = 1
    MayFail = TRUE
SYMMETRY Symmetry
CHECK_DEADLOCK FALSE
INVARIANTS
    TypeOK
    StoresAgree
