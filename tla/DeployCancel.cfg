SPECIFICATION Spec
CONSTANTS
    NumDeploys = 1
    NumDevices = 2
    CanaryPercent = 50
    FailureThreshold = 0
    Sequence <- Ascending
    Legacy = {}
    Request = {r1}
    MaxFaults = 0
PROPERTIES
    CancelledIsNeverSent
CHECK_DEADLOCK FALSE
