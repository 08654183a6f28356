\* Evaluations with one thread and with several, and every call that
\* prepares, converts, trains and predicts.
SPECIFICATION Spec
CONSTANTS
    Worker = {w1, w2}
    NoBundle = NoBundle
    NumUser = 3
    NumItem = 3
    BundleSize = 2
    BufferSize1 = 128
    BufferSize2 = 128
    Evaluations <- MCEvaluations
    Infinity = 1000
    RatingLists <- MCRatingLists
    RawData <- MCRawData
    Ratios <- MCRatios
    Probes <- MCProbes
    NeighborSizes = {0, 1, 2}
    ThreadNumbers = {1, 2, 3}
    Sigmoid <- MCSigmoid
    NormCoff <- MCNormCoff
    Datamodels <- MCDatamodels
    Pictures <- MCPictures
    Networks <- MCNetworks
    LabelledSamples <- MCLabelledSamples
    BpOptions <- MCBpOptions
    SharedTrainings <- MCSharedTrainings
    AutoEncoders <- MCAutoEncoders
    AutoEncoderOptions <- MCAutoEncoderOptions
    CodePairs <- MCCodePairs
    SvdTrainings <- MCSvdTrainings
    LearntModels <- MCLearntModels
    NeighborNumbers <- MCNeighborNumbers
INVARIANTS
    ListsAgree
    EvaluationsAgree
    RatingsKept
    SplitsPartition
    PredictionsAgree
    LearningAgrees
    ThreadsLearn
CHECK_DEADLOCK FALSE
