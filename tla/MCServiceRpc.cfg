SPECIFICATION FairSpec
CONSTANTS
    n1 = n1
    n2 = n2
    c1 = c1
    c2 = c2
    Nodes = {n1, n2}
    Stores = {n2}
    Calls = {c1, c2}
    Data = {d1}
    Empty = Empty
    Roots = {r1}
    Announcers = {n2}
    Workload <- MCWorkload
    None = None
    Failure = Failure

CHECK_DEADLOCK FALSE

INVARIANTS
    TypeOK
    ChannelSafe
    NoLostAnswer
    NoLeakedPending
    SuccessIsGenuine
PROPERTIES
    ImplementsRemoteCall
    CallsReturn
    ReaderResumes
