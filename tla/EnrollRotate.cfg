SPECIFICATION FairSpec
CONSTANTS
    Device = {d1}
    Token = {t1}
    Handler = {h1, h2}
    Connection = {c1, c2}
    MaxSecrets = 2
    MaxRevokes = 0
    MaxFaults = 1
INVARIANTS
    NeverLockedOut
PROPERTIES
    CurrentStaysUntilProved
    DeviceComesBack
CHECK_DEADLOCK FALSE
