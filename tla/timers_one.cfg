\* One thread that does all a program can do to its timers: recursion, functions
\* that get throttled, disabling and enabling, purging, and dumps at any time.
CONSTANTS
    Funcs = {f, g}
    App = app
    NumThreads = 1
    Tasks = {}
    Recycle = FALSE
    Toggles = TRUE
    Purges = TRUE
    Recursion = TRUE
    JoinAll = TRUE
    ThrottleCalls = 1
    ThrottlePercall = 1
    MaxDepth = 3
    MaxEnters = 4
    MaxTime = 3
SPECIFICATION Spec
SYMMETRY Symmetry
INVARIANTS TimesExact DumpExact CallsAndSubrs
