CONSTANTS
    e1 = e1
    e2 = e2
    NoExt = NoExt
    Versions = {1, 2, 3}
    Exts = {e1}
    SupportsMC = FALSE
    SettingsSets <- SingleConfig
    ContinueOnUpdateFailure = {3}
    UpdateWithInstall = {2}
    RemoveMayFail = FALSE
    MaxGoalStates = 3
    MaxCrashes = 1
SPECIFICATION FairSpec
INVARIANTS
    OneInstalledVersion
    PolicyGate
    ProcessedMeansConverged
    HandlerStatusAvailable
PROPERTIES
    KeepsWorkingVersion
    EveryGoalStateIsProcessed
