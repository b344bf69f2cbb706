CONSTANTS
    e1 = e1
    e2 = e2
    NoExt = NoExt
    Versions = {1, 2}
    Exts = {e1, e2}
    SupportsMC = TRUE
    SettingsSets <- MultiConfig
    ContinueOnUpdateFailure = {2}
    UpdateWithInstall = {2}
    RemoveMayFail = FALSE
    MaxGoalStates = 3
    MaxCrashes = 1
SPECIFICATION Spec
INVARIANTS
    EnabledIffSomeExtensionIs
