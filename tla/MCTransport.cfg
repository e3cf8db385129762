SPECIFICATION FairSpec
CONSTANTS
    Senders = {s1, s2}
    Targets <- MCTargets
    Listen = {A}
    Ephemeral = {e}
    Resolve <- Addresses
    Conns = {c1, c2}
    None = None
    s1 = s1
    s2 = s2
    A = A
    e = e
    localhost = localhost

INVARIANTS
    NoStaleEntry
    LiveIsFindable
PROPERTIES
    GivesUpOnlyUnconnected
    DeadIsForgotten
