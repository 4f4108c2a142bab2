SPECIFICATION FairSpec
CONSTANTS
    c1 = c1
    c2 = c2
    n1 = n1
    n2 = n2
    NoName = noname
    NoUid = nouid
    Clients = {c1, c2}
    Names = {n1}
    Uids = {1, 2, 3, 4, 5}
    Calls <- DryRunCalls
    Interval = 2
    Timeout <- NoTimeout
    MaxDelay = 0
    HasDeadline = TRUE
    MaxFaults = 1
PROPERTY CallsEnd
