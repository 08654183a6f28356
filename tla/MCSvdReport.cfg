\* Two workers on a grid of three by three blocks, monitored training.
SPECIFICATION Spec
CONSTANTS
    Worker = {w1, w2}
    NoTask = NoTask
    Row = {r0, r1, r2}
    Col = {c0, c1, c2}
    FirstRow = r0
    FirstCol = c0
    MaxIterationOption = 2
    MonitorOption = {TRUE}
    Options <- TrainOptions
SYMMETRY Alike
INVARIANT ReportedIterationIsDone
