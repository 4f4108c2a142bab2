SPECIFICATION Spec
CONSTANTS
    canary = canary
    first = first
    second = second
    hosted = hosted
    stage = stage
    prod = prod
    early = early
    mid = mid
    late = late
    web = web
    mutex = mutex
    None = None
    Clusters <- ProdClusters
    Hypershift = {hosted}
    Orgs = {prod}
    OrgOf <- OneOrg
    InheritsFrom <- NoneInherits
    Sectors = {early, mid, late}
    SectorOf <- SectorsOf
    Dependencies <- NoChain
    MaxParallel <- QuarterOfLate
    Mutexes <- MutexOfProd
    Workloads <- AllWeb
    SoakDays <- NoSoak
    Blocked <- NoneBlocked
    MaxVersion = 1
    MaxSoak = 2
    Unwell = {first}
    MaxFaults = 1
INVARIANT MutexIsExclusive
