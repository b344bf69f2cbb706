SPECIFICATION FairSpec
CONSTANTS
    Writers = {w1, w2}
    MaxEvents = 3
    MaxFiles = 1
    MaxPerPeriod = 1
    BufferSize = 1
    MaxDeaths = 1
    None = None
INVARIANT CleanShutdown
INVARIANT SentOnce
INVARIANT DirectoryIsBounded
PROPERTY EventsLeave
