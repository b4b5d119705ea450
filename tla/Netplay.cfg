CONSTANTS
    Hosts = {h1, h2}
    Ports = {p1}
    Default = Default
    Split = TRUE
    MaxLogs = 1
    MaxCalls = 2
    MaxLoads = 1
    MaxEdges = 2
SPECIFICATION NetSpec
INVARIANTS
    UpIsThisSession
PROPERTIES
    BounceClosesLink
    EdgesReachWindow
