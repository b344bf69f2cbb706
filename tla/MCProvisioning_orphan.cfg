SPECIFICATION Spec
CONSTANTS
    MaxVms = 1
    MaxCrashes = 1
    MaxFaults = 0
    MaxRetry = 2
INVARIANTS
    OneAgent
