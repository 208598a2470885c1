SPECIFICATION FairSpec
CONSTANTS
    Requests <- FadeRequests
PROPERTIES
    FadeStopCompletes
