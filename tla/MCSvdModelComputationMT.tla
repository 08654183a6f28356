----------------------- MODULE MCSvdModelComputationMT -----------------------
(***************************************************************************)
(* Model checking SvdModelComputationMT: the smallest grid two workers may *)
(* be given.                                                               *)
(***************************************************************************)
EXTENDS SvdModelComputationMT, TLC

CONSTANTS
    MaxIterationOption, \* the largest "iterations" of the train options
    MonitorOption       \* the values of "monitorIteration" of the train options

TrainOptions ==
    [iterations : 1..MaxIterationOption, monitor : MonitorOption, step : {1}]

(* Row 0 and column 0 are the ones a Monitor task names; the others, and   *)
(* the workers, are alike.                                                 *)
Alike ==
    Permutations(Worker) \cup Permutations(Row \ {FirstRow}) \cup Permutations(Col \ {FirstCol})
=============================================================================
