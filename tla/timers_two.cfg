\* Two threads that throttle the functions the other one is in; main joins the
\* other thread and exits.
CONSTANTS
    Funcs = {f, g}
    App = app
    NumThreads = 2
    Tasks = {}
    Recycle = FALSE
    Toggles = FALSE
    Purges = FALSE
    Recursion = TRUE
    JoinAll = TRUE
    ThrottleCalls = 1
    ThrottlePercall = 10
    MaxDepth = 2
    MaxEnters = 2
    MaxTime = 2
SPECIFICATION FairSpec
INVARIANTS TypeOK NoOverlap TimesExact OnStackMark AllWritten
PROPERTY StopsReturn
