SPECIFICATION Spec
CONSTANTS
    Server = Server
    Clients = {c1}
    Options = {TRUE, FALSE}
    SpeedupMax = 4
    MaxAttempts = 2
    MaxEpoch = 2
    MaxLost = 1
    MaxLoads = 1
INVARIANTS
    OneSidedOnlyByLoss
    FastIffConfirmed
PROPERTIES
    FreshConnectionStartsStock
    Settles
