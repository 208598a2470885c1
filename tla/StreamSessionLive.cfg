SPECIFICATION FairSpec
CONSTANTS
    Requests <- LivenessRequests
PROPERTIES
    HandlersReturn
    PumpEnds
