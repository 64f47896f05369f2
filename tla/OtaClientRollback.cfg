SPECIFICATION Spec
CONSTANTS
    MaxSequence = 2
    MaxResets = 1
INVARIANTS
    RollbackReportIsTrue
