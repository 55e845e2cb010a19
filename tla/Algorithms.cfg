SPECIFICATION Spec
CONSTANTS
    Reserved = {4}
    MaxU32 = 7
    TileCount = 4
    Unset = Unset
    Nil = Nil
    Day = 2
    U32Max = 5
    SubPerSec = 4
    MilliPerSec = 2
    Hours = 4
INVARIANTS
    PathsAreReadBack
    HistoryIsComplete
    StatisticsAreExact
    TimesAreExact
    ConfigurationIsExact
    ListingIsComplete
    FilesAreReadBack
CHECK_DEADLOCK FALSE
