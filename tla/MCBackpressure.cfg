SPECIFICATION FairSpec
CONSTANTS
    Nodes = {A, B}
    MaxCalls = 5
    SocketCapacity = 1
    RpcChCapacity = 2
CHECK_DEADLOCK FALSE

INVARIANTS
    StuckOnlyInARing
PROPERTIES
    CallsAreAnswered
