\* Five ranks unify functions and atomic events and merge their profiles.
CONSTANTS
    NumRanks = 5
    Entries <- MCEntries
    Databases <- MCDatabases
    Growing <- MCGrowing
    NewEntries <- MCNew
    MaxEvents = 2
    NumThreads = 2
    Settings <- MCSettings
SPECIFICATION MCFairSpec
INVARIANTS MergeTypeOK MessagesMatch NamesKept GlobalIsUnion FileFaithful StatsExact
PROPERTY MergeEnds
\* Rank 0 returns when it cannot create the file, and the others wait for it.
CHECK_DEADLOCK FALSE
