SPECIFICATION FairSpec
CONSTANTS
    p1 = p1
    p2 = p2
    Processes = {i1, i2}
    Params = {p1, p2}
    Calls <- MixedCalls
    Mortal = {i1}
    MaxCalls = 3
    Nobody = Nobody
CHECK_DEADLOCK FALSE
INVARIANTS
    InsertedOnceUnlessLate
    TableTellsInsertions
    RefusalInsertsNothing
PROPERTIES
    CallsReturn
