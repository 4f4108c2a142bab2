SPECIFICATION Spec
CONSTANTS
    c1 = c1
    c2 = c2
    n1 = n1
    n2 = n2
    NoName = noname
    NoUid = nouid
    Clients = {c1}
    Names = {n1, n2}
    Uids = {1, 2, 3, 4, 5, 6}
    Calls <- ListCalls
    Interval = 2
    Timeout = 2
    MaxDelay = 0
    HasDeadline = TRUE
    MaxFaults = 0
INVARIANT ReturnedMeansFinished
