\* One worker on a grid of two by two blocks, up to three iterations.
SPECIFICATION FairSpec
CONSTANTS
    Worker = {w1}
    NoTask = NoTask
    Row = {r0, r1}
    Col = {c0, c1}
    FirstRow = r0
    FirstCol = c0
    MaxIterationOption = 3
    MonitorOption = {TRUE, FALSE}
    Options <- TrainOptions
PROPERTY
    Termination
