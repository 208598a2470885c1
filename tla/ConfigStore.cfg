SPECIFICATION Spec
CONSTANTS
    HexIds = {"aa"}
    HashOf <- MCHashOf
    Devices <- MCDevices
    Creds = {"c1"}
    Names = {"n1"}
    Files <- MCFiles
    MaxOlder = 0
INVARIANTS
    TypeOK
    MacsDistinct
    StaysReadable
PROPERTIES
    KeepsUserLines
    ImplementsStore
