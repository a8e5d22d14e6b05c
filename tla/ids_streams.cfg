\* Threads and GPU streams that come and go one at a time, each stream with
\* at most one kernel record after its destruction.
CONSTANTS
    Pthreads = {t1, t2}
    Streams = {g1, g2}
    Recycle = TRUE
    Overlap = FALSE
    LateRecords = 1
    MaxSpawns = 6
SPECIFICATION Spec
INVARIANTS TypeOK UniqueIds IdsInRange FreeListWellFormed PeakBound
PROPERTY PoolSpec
