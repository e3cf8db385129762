SPECIFICATION Spec
CONSTANTS
    IDBits = 3
    K = 2
    Addresses = {a1, a2}
    Self <- MCSelf
    MaxTime = 1
SYMMETRY Symmetry

INVARIANTS
    TypeOK
    NoDuplicates
    PlacedByDistance
    RecencyOrder
    ClosestIsRight
PROPERTIES
    EvictsTheOldest
