SPECIFICATION FairSpec
CONSTANTS
    MaxSequence = 4
    Mislabelled = {2}
INVARIANTS
    TypeOK
    ReportsAreTrue
    NoDowngrade
    SketchInv
PROPERTIES
    CommandsAreAnswered
CHECK_DEADLOCK FALSE
