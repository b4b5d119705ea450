SPECIFICATION Spec
CONSTANTS
    RingSize = 1
    SpeedupMax = 4
    StateVersions = {17}
    UartVersion = 6
    SpeedVersion = 13
    MaxWrites = 2
    MaxArrivals = 2
    MaxSaves = 1
INVARIANT SpeedupNeedsTransport
