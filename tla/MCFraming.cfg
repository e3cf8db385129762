SPECIFICATION FairSpec
CONSTANTS
    Writers = {w1, w2}
    Script <- MCScript
    Size <- MCSize
    Streams = {control}
    MaxMessageSize = 3
    PeerLimit = 4
    PrefixSize = 2
    RpcChCapacity = 1
    w1 = w1
    w2 = w2
    small = small
    maximal = maximal
    large = large
    huge = huge
    control = control
    other = other
CHECK_DEADLOCK FALSE

INVARIANTS
    DecoderReverses
    InOrder
PROPERTIES
    EverythingArrives
