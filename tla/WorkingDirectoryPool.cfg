SPECIFICATION Spec
CONSTANTS
    Commits = {c1, c2}
    Tools = {t1, t2}
    Capacity = 1
    HasDatasets = TRUE
    AutoClean = TRUE
    WaitUntilCommitDone = TRUE
    Unknown = Unknown
    MaxId = 2
    MaxToolRuns = 2
    MaxCrashes = 1
SYMMETRY Symmetry
INVARIANTS
    RunsTheCommit
    MemoryIsCurrent
    ClonesHaveRoom
    SetAsideIsNotUsed
