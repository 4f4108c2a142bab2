SPECIFICATION Spec
CONSTANTS
    db1 = db1
    replica1 = replica1
    h1 = h1
    h2 = h2
    v1 = v1
    v2 = v2
    NoHash = none
    NoKey = nokey
    Keys <- OneKey
    Hashes = {h1, h2}
    Images = {v1, v2}
    Dependants <- NoDependants
    SecretSynced = {db1}
    Specs <- AllChanges
    InitialConfig <- OneDeclared
    MaxMerges = 1
    MaxFaults = 1
    MaxCli = 1
INVARIANT RemovedMeansDestroyed
\* Each of these is violated as well, when it takes the place of that one:
\* INVARIANT CliNeverCreates
\* PROPERTY CreatedIsNotRunning
\* PROPERTY CreatedMeansSynced
\* PROPERTY SkippedDeletionsLeaveNoItem
CHECK_DEADLOCK FALSE
