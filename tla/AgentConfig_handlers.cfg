SPECIFICATION Spec
CONSTANTS
    Slots = {c1, c2}
    MaxCalls = 3
    MaxEvents = 4
    SshPorts = {22, 2222}
    DefaultPort = 22
    SshRequests <- MCRequests
    SshFiles <- MCFiles
    FirewallPorts = {3050, 80}
    PanelPort = 3050
    Versions = {"ipv4", "both"}
INVARIANTS
    ServedIsFiles
    PanelReachable
    NoProgramLost
    PanelAndAgentMatch
PROPERTIES
    AllOrNothing
    AnswerIsInForce
SYMMETRY Symmetry
CHECK_DEADLOCK FALSE
