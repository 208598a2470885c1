SPECIFICATION FairSpec
CONSTANTS
    MaxSlider = 3
    Reports = {0, 3}
    Users = {3}
    Moves = {0, 1}
    Tolerance = 1
    EchoTolerance = 0
    MaxSteps = 2
    MaxStall = 1
    MaxEvents = 2
    Worlds = {TRUE, FALSE}
    Modes = {"Lms", "Fixed"}
INVARIANTS
    PressesBounded
PROPERTIES
    Converges
    StopReturns
    StepperRests
CHECK_DEADLOCK FALSE
