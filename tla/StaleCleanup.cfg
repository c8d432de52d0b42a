CONSTANTS
    p1 = p1
    p2 = p2
    f1 = f1
    f2 = f2
    f3 = f3
    c1 = c1
    c2 = c2
    NoProc = NoProc
    Absent = Absent
    Procs <- MCProcs
    Files <- MCFiles
    Contents <- MCContents
    Scans <- MCScans
    TTL = 2
    Grace = 2
    MaxTime = 3
    MaxToken = 2
    Overrun = TRUE
SYMMETRY Symmetry
SPECIFICATION PubSpec
INVARIANTS ReadableComplete
CHECK_DEADLOCK FALSE
