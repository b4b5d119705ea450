\* What comments of netplay.cpp say and the code does not keep.  TLC stops at the
\* first it finds violated: delete that line to see the next.  With Split FALSE
\* and MaxCalls 3 OpenedAsShown is violated without a frame inside a call.
SPECIFICATION NetSpec
CONSTANTS
    Hosts = {h1, h2}
    Ports = {p1}
    Default = Default
    Split = TRUE
    MaxLogs = 1
    MaxCalls = 2
    MaxLoads = 0
    MaxEdges = 2
INVARIANTS
    OpenedAsShown
    ConnectedIsShown
