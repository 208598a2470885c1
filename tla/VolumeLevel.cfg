SPECIFICATION Spec
CONSTANTS
    Levels = {0, 3, 7}
    FixedPct = 5
    Modes = {"Lms", "Fixed"}
INVARIANTS
    TypeOK
    LevelIsCurrent
