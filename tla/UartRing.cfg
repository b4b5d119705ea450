SPECIFICATION Spec
CONSTANTS
    RingSize = 2
    SpeedupMax = 4
    StateVersions = {}
    UartVersion = 6
    SpeedVersion = 13
    MaxWrites = 4
    MaxArrivals = 3
    MaxSaves = 0
INVARIANTS
    TypeOK
    StreamsInOrder
PROPERTIES
    RxDelivered
    HoldDrains
