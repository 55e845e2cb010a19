SPECIFICATION Spec
CONSTANTS
    Jobs = {j1, j2}
    Params <- ParamsFew
    Pipeline <- PipelineWithInactive
    HasErroneousQueue = FALSE
    HasDoneQueue = TRUE
    NoCmd = NoCmd
    NoItem = NoItem
    CrashPoints = {"data", "select", "stop_start", "run_job", "push", "delete", "loop_end"}
    MaxCrashes = 0
    MaxWithdrawals = 0
CHECK_DEADLOCK FALSE
INVARIANT NoInactiveQueueInPipeline
