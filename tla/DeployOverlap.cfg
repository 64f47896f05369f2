SPECIFICATION Spec
CONSTANTS
    NumDeploys = 2
    NumDevices = 2
    CanaryPercent = 50
    FailureThreshold = 0
    Sequence <- Descending
    Legacy = {}
    Request = {}
    MaxFaults = 0
INVARIANTS
    ReportsMatchCommands
CHECK_DEADLOCK FALSE
