CONSTANTS
    Contents <- MCContents
    Queries <- MCQueries
    Edges <- MCEdges
    EdgeReads <- MCEdgeReads
    MaxRead = 4
    PageSize = 2
    BaseBuilds = {1, 2}
    GraphGens = {1, 2}
SPECIFICATION ReadingSpec
INVARIANTS NearestFound
CHECK_DEADLOCK FALSE
