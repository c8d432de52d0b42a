CONSTANTS
    srcA = srcA
    srcB = srcB
    x = x
    w1 = w1
    w2 = w2
    Nobody = Nobody
    Outsider = Outsider
    Sources = {srcA, srcB}
    Paths = {x}
    MaxPaths = 1
    MaxWait = 0
    UrgentFirst = FALSE
    MaxRunning = 2
    Workers = {w1, w2}
    Contested = {srcA}
    p1 = p1
    p2 = p2
    f1 = f1
    f2 = f2
    f3 = f3
    c1 = c1
    c2 = c2
    NoProc = NoProc
    Absent = Absent
    Procs <- MCProcs
    Files <- MCFiles
    Contents <- MCContents
    Scans <- MCScans
    TTL = 2
    Grace = 2
    MaxTime = 3
    MaxToken = 3
    Overrun = FALSE
SYMMETRY SideSymmetry
SPECIFICATION PublishingSpec
INVARIANTS OnePass QuietPromises WorkUnderLock ReadableComplete PendingAhead
PROPERTIES ImplementsSnapshots PublishesForward
CHECK_DEADLOCK FALSE
