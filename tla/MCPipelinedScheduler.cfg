\* One producer, three workers, one consumer, a monitor, queues of two places and one, three tasks.
SPECIFICATION FairSpec
CONSTANTS
    Producer = {p1}
    Worker = {w1, w2, w3}
    Consumer = {c1}
    Monitor = {m1}
    Task = {a, b, c}
    NoTask = NoTask
    BufferSize1 = 2
    BufferSize2 = 1
INVARIANTS
    TypeOK
    AssertsHold
    EachTaskInOnePlace
    JoinedMeansAllConsumed
    NoLostWakeup
PROPERTIES
    ImplementsTaskPipeline
    Termination
