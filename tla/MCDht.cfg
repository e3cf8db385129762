SPECIFICATION Spec
CONSTANTS
    n1 = n1
    n2 = n2
    n3 = n3
    None = None
    Nodes = {n1, n2, n3}
    IDBits = 2
    K = 2
    Addresses <- MCAddresses
    Machine <- MCMachine
    p1 = p1
    p2 = p2
    Ports = {p1, p2}
    IDOf <- MCIDOf
    Seeds <- MCSeeds
    Target <- MCTarget
    Alpha = 2
    MaxRounds = 3

SYMMETRY PortSymmetry
CHECK_DEADLOCK FALSE

INVARIANTS
    AddressesAreTruthful
    AsksOnce
    JoinIsMutual
