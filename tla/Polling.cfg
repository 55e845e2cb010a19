SPECIFICATION Spec
CONSTANTS
    p1 = p1
    p2 = p2
    daemon = daemon
    Pollers <- Two
    Regenerators <- Three
    Daemon = daemon
    Commits = {c, b}
    Branches = {b}
    MaxDirs = 3
    MaxCalls = 2
    MaxPushes = 1
    MaxTrouble = 1
    MaxErrors = 1
INVARIANTS
    CurrentTellsTheDirectoryInUse
    AnswersAreTrue
    OneDirectory
    IndexShowsTheQueues
PROPERTIES
    SignalsAreHandled
CHECK_DEADLOCK FALSE
