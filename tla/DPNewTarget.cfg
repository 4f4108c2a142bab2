SPECIFICATION Spec
CONSTANTS
    stage = stage
    canary = canary
    prod = prod
    staging = staging
    production = production
    channel = channel
    Targets = {stage, canary, prod}
    Jobs = {staging, production}
    JobOf <- MCJobOf
    Moving = {stage}
    New = {stage}
    Channels = {channel}
    Publishes <- MCPublishes
    Subscribes <- MCSubscribes
    SoakDays <- SoakInProd
    Runs = {r1, r2}
    r1 = r1
    r2 = r2
    MaxCommit = 1
    MaxMerges = 1
    MaxSoak = 1
    MaxFaults = 0
    TakesBack = FALSE
INVARIANT ChangesAreTriggered
SYMMETRY Alike
