SPECIFICATION Spec
CONSTANTS
    Callers = {c1, c2}
    Opened = {TRUE, FALSE}
    Ns = {0, 1}
    MaxCmds = 2
    MaxStarts = 2
INVARIANTS
    TypeOK
    EmuOwnsCore
    Delivery
    AdvanceHonest
PROPERTIES
    BudgetBehindPosts
