SPECIFICATION FairSpec
CONSTANTS
    Requests <- FadeRequests
PROPERTIES
    ThrottleLetsGo
