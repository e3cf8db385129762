SPECIFICATION Spec
CONSTANTS
    Bytes = {0, 1}
    MaxLen = 9
    MaxCrafted = 4
    ChunkSize = 2
    Faults = {"read", "put"}
CHECK_DEADLOCK FALSE

INVARIANTS
    MetaDescribesTheFile
    RootIdentifiesFile
    RootIsCanonical
