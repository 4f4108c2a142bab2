SPECIFICATION FairSpec
CONSTANTS
    m1 = m1
    m2 = m2
    m3 = m3
    m4 = m4
    a = a
    b = b
    c = c
    External = external
    MRs = {m1, m2, m3}
    Tenants <- MCTenants
    Rank <- MCRank
    Strategies = {"old-burst", "active-cap", "active-cap-multi-merge"}
    OnDemand = FALSE
    RebaseLimit = 1
    MergeLimit = 2
    MaxExternal = 1
    MaxRelabels = 0
    MaxPushes = 0
    MaxFaults = 2
PROPERTY QueueDrains
