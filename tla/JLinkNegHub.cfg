SPECIFICATION Spec
CONSTANTS
    Server = Server
    Clients = {c1, c2}
    Options = {TRUE, FALSE}
    SpeedupMax = 4
    MaxAttempts = 2
    MaxEpoch = 1
    MaxLost = 1
    MaxLoads = 0
INVARIANTS
    FastIffConfirmed
    MultiDropStaysStock
