SPECIFICATION FairSpec
CONSTANTS
    MaxTime = 3
    MaxCerts = 2
    MaxFailures = 1
    FailingRequests = {"goalState", "vmSettings"}
    MaxCrashes = 1
    MaxMigrations = 1
    NewIncarnation = TRUE
    SaveMayFail = FALSE
    ConfigMayChange = TRUE
PROPERTY NewestIsExecuted
