SPECIFICATION FairSpec
CONSTANTS
    MaxVms = 2
    MaxCrashes = 1
    MaxFaults = 1
    MaxRetry = 2
INVARIANTS
    OwnIdentity
    StateIsOfThisVm
PROPERTIES
    DiskDataSurvives
    AgentComesUp
