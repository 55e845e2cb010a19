SPECIFICATION FairSpec
CONSTANTS
    w1 = w1
    w2 = w2
    Workers = {w1, w2}
    Inserters = {i1}
    Commands = {c1}
    Listers = {l1}
    Options <- MixedOptions
    Mortal = {w2, i1}
    MaxKey = 2
    MaxDeaths = 1
    Nobody = Nobody
    NoKey = NoKey
INVARIANTS
    ActedOnOnce
    NoEntryLost
PROPERTIES
    CommandsSeeNoInsertion
    EveryEntryLeaves
