SPECIFICATION Spec
CONSTANTS
    Device = {d1, d2}
    Token = {t1, t2}
    Handler = {h1, h2}
    Connection = {}
    MaxSecrets = 2
    MaxRevokes = 1
    MaxFaults = 1
INVARIANTS
    TypeOK
    TokensBuyOneEnrollment
CHECK_DEADLOCK FALSE
