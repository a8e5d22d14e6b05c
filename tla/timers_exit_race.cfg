\* Main exits while another thread still runs.
CONSTANTS
    Funcs = {f, g}
    App = app
    NumThreads = 2
    Tasks = {}
    Recycle = FALSE
    Toggles = FALSE
    Purges = FALSE
    Recursion = TRUE
    JoinAll = FALSE
    ThrottleCalls = 9
    ThrottlePercall = 10
    MaxDepth = 2
    MaxEnters = 3
    MaxTime = 1
SPECIFICATION Spec
SYMMETRY Symmetry
INVARIANT NoOverlap
