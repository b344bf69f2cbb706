SPECIFICATION FairSpec
CONSTANTS
    Versions = {1, 2, 3, 4}
    Installed = 1
    Published = {1, 2, 3, 4}
    NoManifest = {3}
    Malformed = {}
    Crashing = {4}
    Contents <- AllContents
    MaxGoalStates = 2
    MaxKills = 1
    MaxReboots = 1
    CrashesLate = FALSE
INVARIANT BlacklistsOnlyBad
INVARIANT SuccessMeansTarget
INVARIANT CrashLoopIsBounded
PROPERTY NextAgentIsTarget
PROPERTY GoalStatesAreProcessed
