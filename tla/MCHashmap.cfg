CONSTANTS
    Keys <- MCKeys
    Vals = {u, v}
    Capacity = 3
    Hash <- MCHash
    Missing = Missing
SPECIFICATION FairSpec
INVARIANTS
    TypeOK
    WellFormed
    WalkFindsNearest
PROPERTIES
    ImplementsStore
    ReturnsWhileUnused
