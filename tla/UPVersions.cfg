SPECIFICATION Spec
CONSTANTS
    canary = canary
    first = first
    second = second
    hosted = hosted
    stage = stage
    prod = prod
    early = early
    mid = mid
    late = late
    web = web
    mutex = mutex
    None = None
    Clusters <- ThreeClusters
    Hypershift = {}
    Orgs = {stage, prod}
    OrgOf <- OrgsOf
    InheritsFrom <- ProdFromStage
    Sectors = {early, mid, late}
    SectorOf <- SectorsOf
    Dependencies <- SectorChain
    MaxParallel <- NoMaximum
    Mutexes <- MutexOfProd
    Workloads <- AllWeb
    SoakDays <- SoakInLate
    Blocked <- NoneBlocked
    MaxVersion = 2
    MaxSoak = 2
    Unwell = {}
    MaxFaults = 0
INVARIANT TypeOK
INVARIANT MutexesHold
INVARIANT SectorsInOrder
PROPERTY SoakedBeforeUpgrade
PROPERTY PublishersFirst
