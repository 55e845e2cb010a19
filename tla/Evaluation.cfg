CONSTANTS
    NThreads = 3
    Tids = {i1, i2}
    NoTid = none
    Probes = {"outer"}
    EveryProbe = "every"
    EveryN = 2
    BufMax = 2
    Budgets <- MCBudgets
SPECIFICATION Spec
SYMMETRY Symmetry
INVARIANTS
    TreeIsTheExecution
    LogIsWholeOrRefused
    WeightsCountCalls
    CallPathsTellThreads
    TreeIsWellFormed
CHECK_DEADLOCK FALSE
