SPECIFICATION FairSpec
CONSTANTS
    Shared = {c1, c2}
    Isolated = {}
    NoCall = NoCall
    Conns = {k1, k2}
    NoConn = NoConn
    MaxRestarts = 1
CHECK_DEADLOCK FALSE
PROPERTIES
    CallEnds
