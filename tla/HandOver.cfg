CONSTANTS
    Games = {g1, g2}
    NoGame = NoGame
    QueueLimit = 1
    MaxSerial = 3
    MaxEvents = 2
    MaxCalls = 2
SPECIFICATION Spec
INVARIANTS
    NoTearing
    PictureOfThisGame
PROPERTIES
    NeverBackwards
    TimedWhenShown
    NewestShown
