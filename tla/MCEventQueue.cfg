SPECIFICATION Spec
CONSTANTS
    a = a
    u = u
    null = null
    NoCallback = null
    Size = 2
    Callbacks <- MCCallbacks
    Registered <- MCRegistered
    Never = 100
    Home <- MCHome
    Delays <- MCDelays
    Slices <- MCSlices
    MaxClock = 1
    MaxLate = 1
    OldImages <- MCOldImages
INVARIANTS
    Packed
    Callable
PROPERTIES
    ImplementsTimerBag
CHECK_DEADLOCK FALSE
