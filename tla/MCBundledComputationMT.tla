------------------------ MODULE MCBundledComputationMT ------------------------
(***************************************************************************)
(* Model checking BundledComputationMT: two workers, bundles of two tasks, *)
(* and as many samples as make bundles end before, at and after the end of *)
(* an iteration.                                                           *)
(***************************************************************************)
EXTENDS BundledComputationMT

CONSTANTS
    MaxIterations,      \* the largest "iterations" of the train options
    MaxComputeTask      \* the most Compute tasks a training may have

\* Samples are numbered; only how many there are matters.
Samples == {1..n : n \in 0..Cardinality(Sample)}

Trainings ==
    {training \in [program : {"BpNetwork", "CfAutoEncoder"}, samples : Samples \ {{}},
                   iterations : 1..MaxIterations, step : 0..2] :
        Cardinality(training.samples) * training.iterations <= MaxComputeTask}

\* No pair at all is what a single item makes.
Similarities ==
    [program : {"ItemBased", "UserBased"}, samples : Samples, iterations : {1}, step : {0}]

EveryOption == Trainings \cup Similarities
=============================================================================
