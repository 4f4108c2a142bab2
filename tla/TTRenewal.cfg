SPECIFICATION Spec
CONSTANTS
    w1 = w1
    w2 = w2
    NoProc = noproc
    Procs = {w1, w2}
    MaxVersion = 1
    MemoryTtl = 2
    RedisTtl = 3
    LockTtl = 1
    MaxHold = 2
    Disciplines = {TRUE}
    MaxFaults = 0
INVARIANT LockIsKept
