SPECIFICATION Spec
CONSTANTS
    Processes <- TwoDaemons
    Runs <- TwoRuns
    Items <- AllFiles
    Situations = {day, night}
    day = day
    night = night
    PipeCapacity = 2
    MaxFaults = 1
SYMMETRY SituationsAreAlike
INVARIANTS
    PublishedRunsAreWhole
    NothingIsDeletedEarly
    NothingTemporaryRemains
    ChildrenKnowTheGuards
CHECK_DEADLOCK FALSE
