SPECIFICATION FairSpec
CONSTANTS
    o1 = o1
    o2 = o2
    t1 = t1
    t2 = t2
    d1 = d1
    p1 = p1
    p2 = p2
    m1 = m1
    NoTask = notask
    NoWorker = noworker
    Orgs = {o1, o2}
    MaxVersion = 1
    Members <- GrowingMembers
    ProdTasks = {t1, t2}
    DryRuns = {d1}
    ProdWorkers = {p1, p2}
    MrWorkers = {m1}
    LockTimeout = 2
    MaxRun = 1
    MaxFaults = 1
INVARIANT ExclusiveRuns
PROPERTY NewestWins
PROPERTY DryRunsEnd
