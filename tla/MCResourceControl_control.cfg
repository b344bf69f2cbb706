SPECIFICATION FairSpec
CONSTANTS
    Exts = {e1}
    Platforms <- MCPlatforms
    MayLoseSupport = FALSE
    DisableOnProcessCheck = TRUE
    DisableOnQuotaCheck = TRUE
    Versions = {1, 2}
    MaxVersionsRetained = 1
    MaxPerVersion = 1
    MinInterval = 1
    BreachCount = 2
    LaunchInterval = 0
    CheckPeriod = 1
    MaxTime = 3
    MaxFaults = 1
    MaxStrays = 1
    MaxRestarts = 1
INVARIANTS DirectMeansUnlimited DisabledLeavesNoQuota MemoryRestartsAreBounded
PROPERTIES UnexpectedProcessDisables
