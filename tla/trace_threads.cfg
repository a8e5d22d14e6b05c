\* Two threads whose node id is set late, and which end in any order; a second
\* metric is traced with every timer.
CONSTANTS
    Funcs = {f, g}
    Users = {}
    Counters <- OneCounter
    NumThreads = 2
    MaxRecords = 5
    MpiBuild = FALSE
    FirstNode <- NoNode
    Nodes = {0}
    MaxEvents = 3
    MaxTime = 1
    c1 = c1
SPECIFICATION Spec
SYMMETRY Symmetry
INVARIANTS TypeOK InBounds FixInBounds NothingLost StartsWithInit DefinedAtEnd
