SPECIFICATION Spec
CONSTANTS
    Bytes = {0, 1}
    MaxLen = 5
    ChunkSize = 4
    ParamChoices <- Pairs
    MaxDamage = 2
    Faults = {"read", "put", "write", "lose", "empty", "corrupt"}
CHECK_DEADLOCK FALSE

INVARIANTS
    ReconstructionIsExact
    ToleratesParityLosses
