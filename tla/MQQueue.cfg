SPECIFICATION Spec
CONSTANTS
    m1 = m1
    m2 = m2
    m3 = m3
    m4 = m4
    a = a
    b = b
    c = c
    External = external
    MRs = {m1, m2, m3}
    Tenants <- MCTenants
    Rank <- MCRank
    Strategies = {"old-burst", "active-cap", "active-cap-multi-merge"}
    OnDemand = FALSE
    RebaseLimit = 2
    MergeLimit = 2
    MaxExternal = 1
    MaxRelabels = 1
    MaxPushes = 1
    MaxFaults = 1
INVARIANT SerialMergesAreTested
INVARIANT GroupMergesOnGroup
INVARIANT OneGroup
PROPERTY HeldIsNotMerged
