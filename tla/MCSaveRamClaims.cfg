\* What comments say of the save memory and the code does not keep.  TLC stops at the
\* first it finds violated: delete that line to see the next.
CONSTANTS
    Addr = {a0}
    Zero = zero
    Blank = blank
    Saved = saved
    Word <- MCWord
    Factory <- MCFactory
    NoSave = NoSave
    NoImage = NoImage
    Contents = {"cart", "cd", "mtcart"}
    CommandData = {"AA", "55", "90", "A0", "F0", "other"}
    MaxSessions = 2
    MaxImages = 1
SPECIFICATION SaveSpec
CHECK_DEADLOCK FALSE
INVARIANTS
    SaveBufferInSync
    NeverStaleTail
PROPERTIES
    BlankWithoutFile
    StartsClean
