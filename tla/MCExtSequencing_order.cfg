SPECIFICATION FairSpec
CONSTANTS
    a = a
    b = b
    c = c
    Exts = {a, b, c}
    NoExt = NoExt
    MultiConfig = {c}
    Seqs = {1, 2}
    Signed = {a}
    SupportsPolicy = {a}
    Documents <- AllDocuments
    Contents <- AllContents
    PolicyFiles <- SomePolicyFiles
    CanValidate = TRUE
    None = None
    Bad = Bad
    MaxGoalStates = 2
    MaxCrashes = 1
INVARIANT EveryExtensionIsReported
PROPERTY DependencyOrder
PROPERTY RemovedOnRequest
PROPERTY InitialGoalStateConverges
PROPERTY GoalStatesAreReported
