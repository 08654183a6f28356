\* One object of each class of algorithm/data_structure, the allocators and
\* the running statistics, every sequence of calls up to the bounds.
SPECIFICATION Spec
CONSTANTS
    Null = Null
    Thrown = Thrown
    Elements <- MCElements
    HeapOrder <- MCHeapOrder
    HashOf <- MCHashOf
    BucketSize = 2
    K = 2
    TypeMax = 3
    TypeMin <- MCTypeMin
    BinOf <- MCBinOf
    Capacities = {1, 2}
    MaxElements = 5
    MaxAdded = 4
    Regions <- MCRegions
    BlockSizes = {1, 2, 3, 4}
    NoRegion = NoRegion
    PreferredSize = 2
    OtherSizes = {1}
    PoolSize = 2
    SizeThreshold = 4
    MaxLive = 3
    MaxStack = 4
INVARIANTS
    PeeksAgree
    StatisticsAgree
    BlocksApart
PROPERTY
    KeepPromises
CHECK_DEADLOCK FALSE
