\* Every algorithm of algorithm/ on every input of a bounded set, and quick
\* sort with threads under every interleaving of its steps.
SPECIFICATION Spec
CONSTANTS
    sThreshold = 2
    SortInputs <- MCSortInputs
    MTInputs <- MCMTInputs
    ThreadNums = {1, 2, 4}
    SortOrder <- MCLess
    MaxDistance = 127
    UintLimit = 16
    Orders <- MCOrders
    WeightMatrices <- MCWeightMatrices
    SymmetricMatrices <- MCSymmetricMatrices
    EdgeLists <- MCEdgeLists
    EdgeMultisets <- MCEdgeMultisets
    BipartiteGraphs <- MCBipartiteGraphs
    Triangles <- MCTriangles
    RectLists <- MCRectLists
    NumberPairs <- MCNumberPairs
    Moduli <- MCModuli
INVARIANTS
    SortsSort
    ArrangementsInOrder
    PathsAreShortest
    WalksAndMatches
    FiguresAndNumbers
    ThreadsApart
    SettledIsFinal
CHECK_DEADLOCK FALSE
