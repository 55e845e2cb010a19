SPECIFICATION Spec
CONSTANTS
    Commits = {c1, c2}
    Tools = {}
    Capacity = 1
    HasDatasets = FALSE
    AutoClean = TRUE
    WaitUntilCommitDone = TRUE
    Unknown = Unknown
    MaxId = 2
    MaxToolRuns = 0
    MaxCrashes = 0
PROPERTIES
    KeptUntilCommitDone
