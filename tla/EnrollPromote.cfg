SPECIFICATION Spec
CONSTANTS
    Device = {d1}
    Token = {t1}
    Handler = {h1}
    Connection = {c1, c2}
    MaxSecrets = 3
    MaxRevokes = 0
    MaxFaults = 0
PROPERTIES
    CurrentStaysUntilProved
CHECK_DEADLOCK FALSE
