SPECIFICATION Spec
CONSTANTS
    Responses <- MCResponses
    HeaderChunk = 3
    HeaderLimit = 3
    BufferSize = 3
    MetaChunk = 2
    WireSize = 3
    MaxTickets = 1
CHECK_DEADLOCK FALSE
INVARIANTS
    NoCloseUnderRead
