SPECIFICATION Spec
CONSTANTS
    Server = Server
    Clients = {c1}
    Options = {TRUE}
    SpeedupMax = 4
    MaxAttempts = 2
    MaxEpoch = 1
    MaxLost = 0
    MaxLoads = 1
INVARIANT LoadedSpeedupReconciled
