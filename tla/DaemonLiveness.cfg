CONSTANTS
    srcA = srcA
    srcB = srcB
    x = x
    w1 = w1
    w2 = w2
    Nobody = Nobody
    Outsider = Outsider
    Sources = {srcA, srcB}
    Paths = {x}
    MaxPaths = 1
    MaxWait = 1
    UrgentFirst = TRUE
    MaxRunning = 1
    Workers = {w1}
    Contested = {srcA}
SPECIFICATION FairScenario
PROPERTIES ChangesIndexed StopCompletes
CHECK_DEADLOCK FALSE
