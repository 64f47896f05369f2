SPECIFICATION Spec
CONSTANTS
    NumJobs = 2
    Worker = {w1, w2}
    Handler = {h1, h2}
    MaxReceive = 2
    MaxFaults = 1
SYMMETRY Symmetric
INVARIANTS
    TypeOK
    ReleasesAreWhole
    SequencesAreSpentOnce
    DoneIsPublished
CHECK_DEADLOCK FALSE
