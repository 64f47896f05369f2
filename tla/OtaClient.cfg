SPECIFICATION FairSpec
CONSTANTS
    MaxSequence = 3
    MaxResets = 2
INVARIANTS
    TypeOK
    RollbackImageKept
    OkIsTrue
    OneInFlight
    ClientInv
PROPERTIES
    EveryCommandAnswered
