\* The same computations: how long may a bundle get?
SPECIFICATION Spec
CONSTANTS
    Worker = {w1, w2}
    Sample = {1, 2, 3}
    NoTask = NoTask
    BundleSize = 2
    BufferSize1 = 128
    BufferSize2 = 128
    MaxIterations = 3
    MaxComputeTask = 6
    Options <- EveryOption
INVARIANT BundleWithinSize
