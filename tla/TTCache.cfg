SPECIFICATION FairSpec
CONSTANTS
    w1 = w1
    w2 = w2
    NoProc = noproc
    Procs = {w1, w2}
    MaxVersion = 2
    MemoryTtl = 2
    RedisTtl = 2
    LockTtl = 2
    MaxHold = 1
    Disciplines = {TRUE, FALSE}
    MaxFaults = 1
INVARIANT NoRepopulation
PROPERTY ImplementsStaleRegister
PROPERTY LockWaitsEnd
