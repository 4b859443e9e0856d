SPECIFICATION Spec
CONSTANTS
    Shared = {c1, c2}
    Isolated = {i1}
    NoCall = NoCall
    Conns = {k1, k2, k3}
    NoConn = NoConn
    MaxRestarts = 1
CHECK_DEADLOCK FALSE
INVARIANTS
    OwnAnswerUnlessGivenUp
    ConnectedIsClean
    RunsAtMostOnce
    SerialUnlessGivenUp
PROPERTIES
    ImplementsAgentCall
