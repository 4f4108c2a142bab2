SPECIFICATION FairSpec
CONSTANTS
    db1 = db1
    replica1 = replica1
    h1 = h1
    h2 = h2
    v1 = v1
    v2 = v2
    NoHash = none
    NoKey = nokey
    Keys <- OneKey
    Hashes = {h1, h2}
    Images = {v1, v2}
    Dependants <- NoDependants
    SecretSynced = {db1}
    Specs <- Redeclared
    InitialConfig <- OneDeclared
    MaxMerges = 1
    MaxFaults = 1
    MaxCli = 1
PROPERTY ApplyConverges
PROPERTY RequestsAreTaken
