SPECIFICATION PagesSpec
CONSTANTS
    NumDeploys = 1
    NumDevices = 2
    CanaryPercent = 50
    FailureThreshold = 0
    Sequence <- Ascending
    Legacy = {1}
    Request = {r1}
    MaxFaults = 1
INVARIANTS
    CompletedPagesAreSettled
    PausedPagesAreExplained
PROPERTIES
    DeploysAreDecided
    ImplementsStagedRollout
CHECK_DEADLOCK FALSE
