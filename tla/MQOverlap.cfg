SPECIFICATION Spec
CONSTANTS
    m1 = m1
    m2 = m2
    m3 = m3
    m4 = m4
    a = a
    b = b
    c = c
    External = external
    MRs = {m1, m2, m3, m4}
    Tenants <- MCTenants
    Rank <- MCRank
    Strategies = {"active-cap-multi-merge"}
    OnDemand = FALSE
    RebaseLimit = 2
    MergeLimit = 2
    MaxExternal = 0
    MaxRelabels = 0
    MaxPushes = 0
    MaxFaults = 0
INVARIANT UntestedIsDisjoint
