SPECIFICATION FairSpec
CONSTANTS
    Jobs = {j1, j2}
    Params <- ParamsLive
    Pipeline <- PipelineKeeping
    HasErroneousQueue = TRUE
    HasDoneQueue = FALSE
    NoCmd = NoCmd
    NoItem = NoItem
    CrashPoints = {"stop_start", "run_job", "push"}
    MaxCrashes = 1
    MaxWithdrawals = 0
PROPERTIES
    EveryJobLeaves
    ImplementsLifecycle
