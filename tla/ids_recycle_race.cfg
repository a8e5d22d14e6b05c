\* Threads that start while others exit, with recycling on.
CONSTANTS
    Pthreads = {t1, t2, t3}
    Streams = {}
    Recycle = TRUE
    Overlap = TRUE
    LateRecords = 1
    MaxSpawns = 6
SPECIFICATION Spec
INVARIANT UniqueIds
