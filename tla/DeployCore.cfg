SPECIFICATION Spec
CONSTANTS
    NumDeploys = 1
    NumDevices = 3
    CanaryPercent = 34
    FailureThreshold = 50
    Sequence <- Ascending
    Legacy = {}
    Request = {r1}
    MaxFaults = 1
INVARIANTS
    TypeOK
    CanaryGate
    IInv
PROPERTIES
    OutcomesAreFinal
    PausesAreExplained
    CompletionsAreSettled
CHECK_DEADLOCK FALSE
