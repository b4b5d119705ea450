CONSTANTS
    Addr = {a0}
    Zero = blank
    Blank = blank
    Saved = saved
    Word <- MCWord
    Factory <- MCBlankFactory
    NoSave = NoSave
    NoImage = NoImage
    Contents = {"cart", "cd", "mtcart"}
    CommandData = {"AA", "55", "90", "A0", "F0", "other"}
    MaxSessions = 2
    MaxImages = 0
SPECIFICATION SaveSpec
CHECK_DEADLOCK FALSE
INVARIANT BufferAgrees
PROPERTY NothingLeaks
