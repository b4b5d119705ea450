CONSTANTS
    Apps = {x}
    Names = {m}
    NoApp = NoApp
    TotalBlocks = 6
    Slots = {0, 1}
    NumFiles = 1
    BlockSize = 2
    MaxSize = 7
SPECIFICATION Spec
CHECK_DEADLOCK FALSE
INVARIANT ChecksumMaintained
