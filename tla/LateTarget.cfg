SPECIFICATION Spec
CONSTANTS
    HexIds = {"aa", "bb"}
    HashOf <- MCHashOf
    Services <- MCServices
    Addresses = {"a1", "a2"}
    Authored <- MCAuthored
    Pinned = {"attic"}
    Disabled = {}
    AutoRegister = TRUE
    Discovery = TRUE
    MaxPowers = 5
    MaxFailures = 0
INVARIANTS
    StaticGetsTarget
CHECK_DEADLOCK FALSE
