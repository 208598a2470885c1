SPECIFICATION Spec
CONSTANTS
    Responses <- MCResponses
    HeaderChunk = 3
    HeaderLimit = 3
    BufferSize = 3
    MetaChunk = 2
    WireSize = 3
    MaxTickets = 1
INVARIANTS
    TypeOK
    AudioIsClean
    BlocksAreWhole
    EndIsComplete
PROPERTIES
    ShutdownReturns
CHECK_DEADLOCK FALSE
