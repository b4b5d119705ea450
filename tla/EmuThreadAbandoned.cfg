SPECIFICATION Spec
CONSTANTS
    Callers = {c1}
    Opened = {TRUE}
    Ns = {1}
    MaxCmds = 1
    MaxStarts = 1
INVARIANTS
    AbandonedLeftAlone
