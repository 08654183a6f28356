\* Four threads on a buffer of two places, every call including Clear.
SPECIFICATION HSpec
CONSTANTS
    Thread = {t1, t2, t3, t4}
    Object = {a, b}
    NoObject = NoObject
    MaxSize = 2
    NumProducer = 2
    NumConsumer = 1
    MayClear = TRUE
    MaxObjectId = 3
CONSTRAINT FewObjects
SYMMETRY Threads
INVARIANTS
    TypeOK
    ClosedIsEmpty
    WithinMaxSize
    NobodySleepsThroughTheEnd
    PopWakeupsSuffice
PROPERTY
    ImplementsChannel
