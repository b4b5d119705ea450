SPECIFICATION Spec
CONSTANTS
    Size = 3
    Callbacks <- MCCallbacks
    Registered <- MCCallbacks
    NoCallback = "none"
    Never = 100
    HalflinePeriod = 2
    HalfSample = 1
    NumSamples = 2
    PitPeriods <- MCPitPeriods
    SclkPeriods <- MCSclkPeriods
    VPs <- MCVPs
    DefaultVP = 1
    DefaultI2S = 2
    DefaultPit = 1
    VCMod = 3
    GpuStep = 1
    MaxOps = 2
    MaxExec = 2
    MaxInline = 1
INVARIANTS
    TimersAsProgrammed
    NoSampleAfterFull
PROPERTIES
    FrameCompletes
