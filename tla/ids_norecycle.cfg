\* The default configuration: nothing is recycled, threads start together.
CONSTANTS
    Pthreads = {t1, t2, t3, t4}
    Streams = {}
    Recycle = FALSE
    Overlap = TRUE
    LateRecords = 1
    MaxSpawns = 6
SPECIFICATION FairSpec
INVARIANT UniqueIds
PROPERTY EveryThreadStarts
