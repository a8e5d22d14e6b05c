\* Two traces merged while they are written, each already begun, with -e.
CONSTANTS
    NumTraces = 2
    Locals = {1, 9}
    Names = {"f", "g", "WALL_CLOCK"}
    NameOf <- MCNameOf
    WallClock = "WALL_CLOCK"
    Times = {0, 1, 2}
    Word = 4
    Blocking = TRUE
    EdfGiven = TRUE
    Situations = {"online"}
    MaxRecords = 3
SPECIFICATION FairSpec
INVARIANTS TypeOK TimeSorted MergedInOrder NothingLost NamesKept AdjustedToZero
PROPERTY MergeEnds
