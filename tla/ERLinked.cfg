SPECIFICATION Spec
CONSTANTS
    db1 = db1
    replica1 = replica1
    h1 = h1
    h2 = h2
    v1 = v1
    v2 = v2
    NoHash = none
    NoKey = nokey
    Keys <- TwoKeys
    Hashes = {h1, h2}
    Images = {v1}
    Dependants <- ReplicaOf
    SecretSynced = {db1}
    Specs <- Changes
    InitialConfig <- BothDeclared
    MaxMerges = 0
    MaxFaults = 0
    MaxCli = 0
PROPERTY LinkedAlwaysRequested
