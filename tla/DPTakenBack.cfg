SPECIFICATION Spec
CONSTANTS
    stage = stage
    canary = canary
    prod = prod
    staging = staging
    production = production
    channel = channel
    Targets = {stage, canary, prod}
    Jobs = {staging, production}
    JobOf <- MCJobOf
    Moving = {stage}
    New = {}
    Channels = {channel}
    Publishes <- MCPublishes
    Subscribes <- MCSubscribes
    SoakDays <- SoakInProd
    Runs = {r1, r2}
    r1 = r1
    r2 = r2
    MaxCommit = 1
    MaxMerges = 3
    MaxSoak = 1
    MaxFaults = 1
    TakesBack = TRUE
INVARIANT NothingIsLost
