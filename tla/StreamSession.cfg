SPECIFICATION Spec
CONSTANTS
    Requests <- SafetyRequests
INVARIANTS
    TypeOK
    TrackOutlivesPump
    OneDriver
    NoOrphanSession
    NoInheritedLoss
    EndIsReported
    LaunchedWhenReady
PROPERTIES
    HeldUntilReleased
    FlushKeepsStreaming
    ImplementsReport
