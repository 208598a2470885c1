SPECIFICATION Spec
CONSTANTS
    HexIds = {"aa", "bb"}
    HashOf <- MCHashOf
    Services <- MCServices
    Addresses = {"a1", "a2"}
    Authored <- MCAuthored
    Pinned = {"attic"}
    Disabled = {}
    AutoRegister = TRUE
    Discovery = TRUE
    MaxPowers = 5
    MaxFailures = 1
INVARIANTS
    TypeOK
    NoDanglingQuestion
    MacsDistinct
    TargetsCurrent
    SettledIsServed
PROPERTIES
    StopReturns
CHECK_DEADLOCK FALSE
