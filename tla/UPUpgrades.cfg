SPECIFICATION FairSpec
CONSTANTS
    canary = canary
    first = first
    second = second
    hosted = hosted
    stage = stage
    prod = prod
    early = early
    mid = mid
    late = late
    web = web
    mutex = mutex
    None = None
    Clusters <- FourClusters
    Hypershift = {hosted}
    Orgs = {stage, prod}
    OrgOf <- OrgsOf
    InheritsFrom <- ProdFromStage
    Sectors = {early, mid, late}
    SectorOf <- SectorsOf
    Dependencies <- SectorChain
    MaxParallel <- QuarterOfLate
    Mutexes <- MutexOfProd
    Workloads <- AllWeb
    SoakDays <- SoakInLate
    Blocked <- NoneBlocked
    MaxVersion = 1
    MaxSoak = 1
    Unwell = {first}
    MaxFaults = 1
INVARIANT OneUpgradePerCluster
INVARIANT MutexesHold
INVARIANT SectorsInOrder
PROPERTY SoakedBeforeUpgrade
PROPERTY PublishersFirst
PROPERTY ClustersAreUpgraded
