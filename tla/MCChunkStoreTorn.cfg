SPECIFICATION Spec
CONSTANTS
    Putters = {p1, p2}
    Readers = {r1}
    Inodes = {1, 2, 3, 4, 5}
    Parts = 2
    Failures = {}
    None = None
SYMMETRY Symmetry

INVARIANTS
    WritesAtomically
