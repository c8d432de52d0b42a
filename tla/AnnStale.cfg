CONSTANTS
    l1 = l1
    l2 = l2
    v1 = v1
    v2 = v2
    s1 = s1
    Missing = Missing
    Keep = Keep
    NoFile = NoFile
    Labels <- MCLabels
    Vectors <- MCVectors
    VectorsOf <- Changing
    Searchers = {s1}
    MaxRev = 3
SPECIFICATION AnnSpec
INVARIANTS SearchTruthful
