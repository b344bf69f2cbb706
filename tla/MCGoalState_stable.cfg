SPECIFICATION Spec
CONSTANTS
    MaxTime = 3
    MaxCerts = 2
    MaxFailures = 1
    FailingRequests = {"goalState", "vmSettings", "fullGoalState"}
    MaxCrashes = 2
    MaxMigrations = 0
    NewIncarnation = TRUE
    SaveMayFail = TRUE
    ConfigMayChange = FALSE
INVARIANT CertificatesInSync
PROPERTY NeverGoesBack
PROPERTY ExecutedOnce
