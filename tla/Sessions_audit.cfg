SPECIFICATION Spec
CONSTANTS
    Users = {admin, user}
    Admins = {admin}
    Tokens = {t1, t2, t3}
    Requests = {r1, r2}
    None = None
    SessionExpiry = 3
    ImpersonationExpiry = 2
    End = 3
SYMMETRY Symmetry
CHECK_DEADLOCK FALSE
INVARIANTS
    TypeOK
    ActorsAreKnown
    StoppedIsOver
