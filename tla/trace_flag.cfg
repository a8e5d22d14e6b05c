\* Two threads that register functions while the other one flushes.
CONSTANTS
    Funcs = {f, g}
    Users = {}
    Counters <- NoCounters
    NumThreads = 2
    MaxRecords = 5
    MpiBuild = FALSE
    FirstNode = 0
    Nodes = {}
    MaxEvents = 3
    MaxTime = 1
    c1 = c1
SPECIFICATION Spec
SYMMETRY Symmetry
INVARIANT FunctionsDefined
