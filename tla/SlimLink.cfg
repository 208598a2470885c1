SPECIFICATION Spec
CONSTANTS
    Scripts <- MCScripts
    Timeout = 1
    MaxOutages = 1
INVARIANTS
    TypeOK
    HandledInOrder
    FramesWhole
PROPERTIES
    
    StopReturns
    StaysRegistered
CHECK_DEADLOCK FALSE
