\* Thread recycling on: threads do not write their own profiles.
CONSTANTS
    Funcs = {f, g}
    App = app
    NumThreads = 2
    Tasks = {}
    Recycle = TRUE
    Toggles = FALSE
    Purges = FALSE
    Recursion = TRUE
    JoinAll = TRUE
    ThrottleCalls = 9
    ThrottlePercall = 10
    MaxDepth = 2
    MaxEnters = 3
    MaxTime = 1
SPECIFICATION Spec
SYMMETRY Symmetry
INVARIANT AllWritten
