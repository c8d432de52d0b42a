CONSTANTS
    h1 = h1
    h2 = h2
    g1 = g1
    g2 = g2
    NoHost = NoHost
    Gone = Gone
    Hosts <- MCHosts
    GraphFiles <- MCGraphFiles
    Keys <- MCKeys
    RecordsOf <- MCRecordsOf
    Trees <- MCTrees
    StagingFails = FALSE
    MaxBase = 2
    MaxGraph = 2
    MaxFaults = 0
SYMMETRY GraphSymmetry
SPECIFICATION GraphSpec
INVARIANTS LastGraphWhole
CHECK_DEADLOCK FALSE
