CONSTANTS
    p1 = p1
    p2 = p2
    p3 = p3
    NoProc = NoProc
    Procs = {p1, p2, p3}
    TTL = 2
    MaxTime = 4
    MaxToken = 3
    h1 = h1
    h2 = h2
    g1 = g1
    g2 = g2
    NoHost = NoHost
    Gone = Gone
    Hosts = {h1, h2}
    GraphFiles = {g1, g2}
    Keys = {1, 2, 3}
    RecordsOf <- MCRecordsOf
    Trees <- MCTrees
    StagingFails = FALSE
    MaxBase = 2
    MaxGraph = 2
    MaxFaults = 1
    a = a
    b = b
    c = c
    x = x
    y = y
    Sources = {a, b, c}
    Paths = {x, y}
    MaxPaths = 1
    MaxWait = 2
    UrgentFirst = TRUE
    MaxRunning = 1
    l1 = l1
    l2 = l2
    v1 = v1
    v2 = v2
    s1 = s1
    Missing = Missing
    Keep = Keep
    NoFile = NoFile
    Labels = {l1, l2}
    Vectors = {v1, v2}
    VectorsOf <- Changing
    Searchers = {s1}
    MaxRev = 3
    Volumes = {"a", "b"}
    Editions = {"code", "mail", "note", "unread"}
    Unread = "unread"
    MayHold <- MCMay
    Declares <- MCDeclares
    Titles <- MCTitles
    Passages <- MCPassages
    Names <- MCNames
    Suffixed <- MCSuffixed
    FirstStagings <- MCFirstStagings
    MaxEdits = 2
    MaxVersions = 2
    MaxEmbedders = 2
    MaxPinned = 1
SPECIFICATION SharedSpec
INVARIANTS GraphTypeOK CurrentReadIsHolders  QueueRight NothingForgotten IndexTrusted RecordsRight
PROPERTIES WritesInTokenOrder LiveLeaseKept GraphForward
CHECK_DEADLOCK FALSE
