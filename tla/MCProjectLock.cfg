CONSTANTS
    a = a
    b = b
    c = c
    Procs = {a, b, c}
    Skewed = {c}
    KillOrphans = TRUE
SPECIFICATION LockFairSpec
INVARIANTS ExclusiveUnlessReclaimed NoAbandonedLock
PROPERTY DeadHolderReclaimed
