CONSTANTS
    Apps = {x, y}
    Names = {m, n}
    NoApp = NoApp
    TotalBlocks = 6
    Slots = {0, 1}
    NumFiles = 2
    BlockSize = 1
    MaxSize = 2
SPECIFICATION Spec
CHECK_DEADLOCK FALSE
INVARIANTS FatSound HandlesFollowFiles ChecksumRightUnlessFull SearchReportsAll
PROPERTY WritesStayInFile
