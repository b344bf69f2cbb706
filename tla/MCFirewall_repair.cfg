SPECIFICATION FairSpec
CONSTANTS
    Platforms <- MCPlatforms
    MaxFaults = 1
    MaxEvents = 2
    MaxRestarts = 1
    LockOut = FALSE
    MaxReportsWhenOk = 1
    MaxReportsWhenNotOk = 2
    MaxReportsPerPeriod = 3
INVARIANT OkMeansProtected
INVARIANT PersistedRulesSurviveReboot
PROPERTY Repaired
