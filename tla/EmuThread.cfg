SPECIFICATION Spec
CONSTANTS
    Callers = {c1}
    Opened = {TRUE}
    Ns = {1}
    MaxCmds = 2
    MaxStarts = 2
INVARIANTS
    EmuOwnsCore
    Delivery
    AdvanceHonest
PROPERTIES
    BudgetBehindPosts
    Progress
