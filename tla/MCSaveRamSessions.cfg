CONSTANTS
    Addr = {a0}
    Zero = blank
    Blank = blank
    Saved = saved
    Word <- MCWord
    Factory <- MCBlankFactory
    NoSave = NoSave
    NoImage = NoImage
    Contents = {"cart", "cd", "mtcart"}
    CommandData = {}
    MaxSessions = 3
    MaxImages = 1
SPECIFICATION SaveSpec
CHECK_DEADLOCK FALSE
PROPERTY FileReachesMachine
