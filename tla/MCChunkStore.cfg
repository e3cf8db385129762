SPECIFICATION Spec
CONSTANTS
    Putters = {p1, p2}
    Readers = {r1}
    Inodes = {1, 2, 3, 4, 5}
    Parts = 2
    Failures = {"io", "crash", "delete"}
    None = None
SYMMETRY Symmetry

INVARIANTS
    VisibleIsComplete
    WholeAtRest
PROPERTIES
    ReadsAreComplete
    PutReturnsTruth
