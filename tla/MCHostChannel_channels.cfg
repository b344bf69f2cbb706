SPECIFICATION ChannelFairSpec
CONSTANTS
    DefaultRetries = 2
    ThrottleRetries = 3
    Uris = 2
    Pages = 1
    MaxStatus = 1
    MaxRequestFaults = 2
    MaxChanges = 1
INVARIANTS FailuresAreExplained UnhealthyIsEarned
PROPERTIES DownloadsAreAtomic StatusIsUploaded
