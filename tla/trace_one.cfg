\* One thread: functions, a user event, and a node id that is set late, twice.
CONSTANTS
    Funcs = {f, g}
    Users = {u}
    Counters <- NoCounters
    NumThreads = 1
    MaxRecords = 6
    MpiBuild = FALSE
    FirstNode <- NoNode
    Nodes = {0, 2}
    MaxEvents = 4
    MaxTime = 2
    c1 = c1
SPECIFICATION Spec
SYMMETRY Symmetry
INVARIANTS NodeIds TimeOrdered FunctionsDefined
