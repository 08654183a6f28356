\* Three threads on a buffer of two places that may be cleared.
SPECIFICATION HSpec
CONSTANTS
    Thread = {t1, t2, t3}
    Object = {a}
    NoObject = NoObject
    MaxSize = 2
    NumProducer = 2
    NumConsumer = 1
    MayClear = TRUE
    MaxObjectId = 3
CONSTRAINT FewObjects
SYMMETRY Threads
INVARIANT BlockedOnlyWhenFull
