SPECIFICATION FairSpec
CONSTANTS
    m1 = m1
    m2 = m2
    m3 = m3
    m4 = m4
    a = a
    b = b
    c = c
    External = external
    MRs = {m1, m2}
    Tenants <- MCApart
    Rank <- MCRank
    Strategies = {"active-cap"}
    OnDemand = TRUE
    RebaseLimit = 1
    MergeLimit = 2
    MaxExternal = 1
    MaxRelabels = 0
    MaxPushes = 0
    MaxFaults = 0
PROPERTY TestedAreMerged
