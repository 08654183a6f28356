------------------------- MODULE BundledComputationMT -------------------------
(***************************************************************************)
(* The computations that send their tasks through a PipelinedScheduler in  *)
(* bundles of TASK_BUNDLE_SIZE:                                            *)
(*   "BpNetwork"      BpNetworkComputationMT                               *)
(*                    (src/ml/neural_network/bp_network_computation.cpp)   *)
(*   "CfAutoEncoder"  CFAE::TrainSparseLayerDelegateMT                     *)
(*   (src/recsys/neural_network/cf_auto_encoder_model_computation.cpp)     *)
(*   "ItemBased"      ItemBased::ModelComputationMT                        *)
(*           (src/recsys/neighbor/item_based_model_computation.cpp)        *)
(*   "UserBased"      UserBased::ModelComputationMT                        *)
(*           (src/recsys/neighbor/user_based_model_computation.cpp)        *)
(* One producer fills the bundles, iteration after iteration, workers      *)
(* compute the tasks of a bundle, and a consumer takes the bundles in.     *)
(* The two trainings may put Monitor tasks between the iterations, which   *)
(* report the loss: the network's consumer does so, or the auto-encoder's  *)
(* workers.  What is left out is the arithmetic; of a loss the model       *)
(* remembers the iteration it was computed in.                             *)
(*                                                                         *)
(* A sample stands for the sample of a training or the pair of items or    *)
(* users of a similarity.                                                  *)
(***************************************************************************)
EXTENDS Integers, Sequences, FiniteSets

CONSTANTS
    Worker,         \* the NumThread() worker threads
    Sample,
    NoTask,         \* nullptr
    BundleSize,     \* TASK_BUNDLE_SIZE
    BufferSize1, BufferSize2,   \* DEFAULT_BUFFER_SIZE: none of the four passes a size
    Options         \* what is computed and how: see OptionType

(* step is the step of the iterations that are monitored, and 0 for no     *)
(* monitoring; a similarity is one iteration over all pairs.               *)
OptionType ==
    [program : {"BpNetwork", "CfAutoEncoder"}, samples : SUBSET Sample,
     iterations : Nat \ {0}, step : Nat]
    \cup
    [program : {"ItemBased", "UserBased"}, samples : SUBSET Sample, iterations : {1}, step : {0}]

\* The network's Compute tasks have no iter: there it is the model's note.
ComputeTask(s, n) == [type |-> "Compute", sample |-> s, iter |-> n]
MonitorTask(n)    == [type |-> "Monitor", iter |-> n]

Task ==
    [type : {"Compute"}, sample : Sample, iter : Nat] \cup [type : {"Monitor"}, iter : Nat]

Bundle == Seq(Task)

ASSUME BundleAssumption ==
    /\ IsFiniteSet(Worker) /\ Worker # {} /\ IsFiniteSet(Sample)
    /\ Worker \cap {"producer", "consumer", "monitor"} = {}
    /\ NoTask \notin Bundle /\ BundleSize \in Nat \ {0}
    /\ BufferSize1 \in Nat \ {0} /\ BufferSize2 \in Nat \ {0}
    /\ \A option \in Options : option \in OptionType

VARIABLES
    toWork, toConsume, held, left,  \* the scheduler
    option,
    producer,   \* where the producer is
    iter,       \* its local iter
    unmade,     \* the samples it has not pushed in this iteration
    bundle,     \* currentBundle
    pos,        \* i: how far each worker and the consumer are in their bundle
    reporting,  \* the threads that are summing the loss for a Monitor task
    computed,   \* how many times each sample has been computed
    losses,     \* the iteration of the loss stored for each sample, or Never
    processed,  \* mProcessedTask
    watching,   \* whether the monitor thread is running
    worked      \* the workers that have ever been given a bundle

pipeline == <<toWork, toConsume, held, left>>
making   == <<producer, iter, unmade, bundle>>
results  == <<computed, losses, processed>>
vars     == <<pipeline, option, making, pos, reporting, results, watching, worked>>

Producer == "producer"
Consumer == "consumer"
Never    == -1

Pipeline == INSTANCE TaskPipeline WITH
    Producer <- {Producer}, Consumer <- {Consumer}, Task <- Bundle

Similarity == option.program \in {"ItemBased", "UserBased"}

\* SGDOnSample and the user-based DirectPut are in WorkerRun: the results
\* are stored before the consumer has the bundle.
WorkersStore == option.program \in {"CfAutoEncoder", "UserBased"}

\* The tasks of an iteration that exists.
WellFormed(b) ==
    /\ \A k \in DOMAIN b : b[k].iter < option.iterations
    /\ \A k \in DOMAIN b : b[k].type = "Compute" => b[k].sample \in option.samples

TypeOK ==
    /\ toWork \in Seq(Bundle) /\ toConsume \in Seq(Bundle)
    /\ \A t \in Worker \cup {Consumer} : held[t] # NoTask =>
          held[t] \in Bundle /\ WellFormed(held[t]) /\ pos[t] \in 1..(Len(held[t]) + 1)
    /\ left \subseteq Worker \cup {Producer, Consumer}
    /\ option \in Options
    /\ producer \in {"making", "finishing", "done", "left"}
    /\ iter \in 0..option.iterations
    /\ unmade \subseteq option.samples
    /\ bundle \in Bundle /\ WellFormed(bundle)
    /\ reporting \subseteq Worker \cup {Consumer}
    /\ computed \in [Sample -> 0..option.iterations]
    /\ losses \in [Sample -> {Never} \cup 0..(option.iterations - 1)]
    /\ processed \in Nat
    /\ watching \in BOOLEAN
    /\ worked \subseteq Worker

(* InitResource and Start.  Only a similarity may have a monitor thread,   *)
(* and has one when MonitorProgress() says so.                             *)
Init ==
    /\ Pipeline!Init
    /\ option \in Options
    /\ producer = "making"
    /\ iter = 0
    /\ unmade = option.samples
    /\ bundle = <<>>
    /\ pos = [t \in Worker \cup {Consumer} |-> 1]
    /\ reporting = {}
    /\ computed = [s \in Sample |-> 0]
    /\ losses = [s \in Sample |-> Never]
    /\ processed = 0
    /\ watching \in {FALSE, Similarity}
    /\ worked = {}

-----------------------------------------------------------------------------
\* The producer.

\* Mutant of Full: a bundle is full one task late.
FullOneLate == Len(bundle) > BundleSize

\* if (currentBundle->size() == TASK_BUNDLE_SIZE)
Full == Len(bundle) = BundleSize

PutFullBundle ==
    /\ producer = "making" /\ unmade # {}
    /\ Full
    /\ Pipeline!ProducerPutTask(Producer, bundle)
    /\ bundle' = <<>>
    /\ UNCHANGED <<option, producer, iter, unmade, pos, reporting, results, watching, worked>>

(* The next sample of the iteration: which one is up to the shuffle.  (The *)
(* pairs of a similarity have an order of their own, one of these.)        *)
AddComputeTask(s) ==
    /\ producer = "making" /\ s \in unmade
    /\ ~Full
    /\ bundle' = Append(bundle, ComputeTask(s, iter))
    /\ unmade' = unmade \ {s}
    /\ UNCHANGED <<pipeline, option, producer, iter, pos, reporting, results, watching, worked>>

Monitored(n) == option.step > 0 /\ n % option.step = 0

\* Mutant of Last: iter <= Iterations().
LastOneLate(n) == n = option.iterations

\* iter < Iterations() will not hold any more.
Last(n) == n = option.iterations - 1

\* The Monitor task goes into the bundle however full that is.
EndIteration ==
    /\ producer = "making" /\ unmade = {}
    /\ bundle' = IF Monitored(iter) THEN Append(bundle, MonitorTask(iter)) ELSE bundle
    /\ iter' = iter + 1
    /\ IF Last(iter)
       THEN producer' = "finishing" /\ UNCHANGED unmade
       ELSE unmade' = option.samples /\ UNCHANGED producer
    /\ UNCHANGED <<pipeline, option, pos, reporting, results, watching, worked>>

\* Mutant of PutLastBundle: a bundle that is not full is forgotten.
DropLastBundle ==
    /\ producer = "finishing"
    /\ producer' = "done"
    /\ bundle' = <<>>
    /\ UNCHANGED <<pipeline, option, iter, unmade, pos, reporting, results, watching, worked>>

\* Whatever has been made since the last full bundle, if anything.
PutLastBundle ==
    /\ producer = "finishing"
    /\ Pipeline!ProducerPutTask(Producer, bundle)
    /\ producer' = "done"
    /\ bundle' = <<>>
    /\ UNCHANGED <<option, iter, unmade, pos, reporting, results, watching, worked>>

ProducerDone ==
    /\ producer = "done"
    /\ Pipeline!ProducerDone(Producer)
    /\ producer' = "left"
    /\ UNCHANGED <<option, iter, unmade, bundle, pos, reporting, results, watching, worked>>

ProducerRun ==
    \/ PutFullBundle \/ (\E s \in Sample : AddComputeTask(s)) \/ EndIteration
    \/ PutLastBundle \/ ProducerDone

-----------------------------------------------------------------------------
\* A bundle in the hands of a worker or the consumer, task after task.

AtTask(t)  == held[t] # NoTask /\ pos[t] <= Len(held[t])
AtEnd(t)   == held[t] # NoTask /\ pos[t] > Len(held[t])
Current(t) == held[t][pos[t]]
At(t, type) == AtTask(t) /\ Current(t).type = type
Advance(t) == pos' = [pos EXCEPT ![t] = @ + 1]
Restart(t) == pos' = [pos EXCEPT ![t] = 1]

Store(task) == losses' = [losses EXCEPT ![task.sample] = task.iter]

StartReport(t) ==
    /\ At(t, "Monitor") /\ t \notin reporting
    /\ reporting' = reporting \cup {t}
    /\ UNCHANGED <<pipeline, option, making, pos, results, watching, worked>>

FinishReport(t) ==
    /\ t \in reporting
    /\ reporting' = reporting \ {t}
    /\ Advance(t)
    /\ UNCHANGED <<pipeline, option, making, results, watching, worked>>

WorkerGetTask(w) ==
    /\ Pipeline!WorkerGetTask(w)
    /\ worked' = worked \cup {w}
    /\ UNCHANGED <<option, making, pos, reporting, results, watching>>

(* The network's ProcessTask and the item-based similarity leave the       *)
(* result in the task.                                                     *)
WorkerComputes(w) ==
    /\ w \in Worker /\ At(w, "Compute")
    /\ computed' = [computed EXCEPT ![Current(w).sample] = @ + 1]
    /\ IF WorkersStore THEN Store(Current(w)) ELSE UNCHANGED losses
    /\ Advance(w)
    /\ UNCHANGED <<pipeline, option, making, reporting, processed, watching, worked>>

\* if (task.type == TaskTypeMonitor) continue
WorkerSkips(w) ==
    /\ option.program = "BpNetwork" /\ At(w, "Monitor")
    /\ Advance(w)
    /\ UNCHANGED <<pipeline, option, making, reporting, results, watching, worked>>

\* Mutant of WorkerReports: the network's workers report, too.
AnyWorkerReports(w) ==
    /\ w \in Worker
    /\ \/ reporting = {} /\ StartReport(w)
       \/ FinishReport(w)

\* Under mMonitorIterationMutex.
WorkerReports(w) ==
    /\ option.program = "CfAutoEncoder"
    /\ \/ reporting = {} /\ StartReport(w)
       \/ FinishReport(w)

WorkerPutTask(w) ==
    /\ AtEnd(w)
    /\ Pipeline!WorkerPutTask(w)
    /\ Restart(w)
    /\ UNCHANGED <<option, making, reporting, results, watching, worked>>

WorkerDone(w) ==
    /\ Pipeline!WorkerDone(w)
    /\ UNCHANGED <<option, making, pos, reporting, results, watching, worked>>

WorkerRun(w) ==
    \/ WorkerGetTask(w) \/ WorkerComputes(w) \/ WorkerSkips(w) \/ WorkerReports(w)
    \/ WorkerPutTask(w) \/ WorkerDone(w)

-----------------------------------------------------------------------------
ConsumerGetTask ==
    /\ Pipeline!ConsumerGetTask(Consumer)
    /\ UNCHANGED <<option, making, pos, reporting, results, watching, worked>>

\* mSampleLosses[task.sampleId] = task.sampleLoss, or DirectPut
ConsumerStores ==
    /\ ~WorkersStore /\ At(Consumer, "Compute")
    /\ Store(Current(Consumer))
    /\ Advance(Consumer)
    /\ UNCHANGED <<pipeline, option, making, reporting, computed, processed, watching, worked>>

\* ComputeTotalLoss
ConsumerReports ==
    /\ option.program = "BpNetwork"
    /\ StartReport(Consumer) \/ FinishReport(Consumer)

\* Mutant of CountBundle: the bundles are counted, not the tasks.
CountOne ==
    processed' = processed + (IF Similarity THEN 1 ELSE 0)

\* mProcessedTask += currentBundle->size()
CountBundle ==
    processed' = processed + (IF Similarity THEN Len(held[Consumer]) ELSE 0)

(* Where the workers store, the consumer does not look into the bundle: it *)
(* shows the auto-encoder's progress, or counts the pairs.                 *)
ConsumerDropTask ==
    /\ AtEnd(Consumer) \/ (held[Consumer] # NoTask /\ WorkersStore)
    /\ Pipeline!ConsumerDropTask(Consumer)
    /\ CountBundle
    /\ Restart(Consumer)
    /\ UNCHANGED <<option, making, reporting, computed, losses, watching, worked>>

ConsumerDone ==
    /\ Pipeline!ConsumerDone(Consumer)
    /\ UNCHANGED <<option, making, pos, reporting, results, watching, worked>>

ConsumerRun ==
    \/ ConsumerGetTask \/ ConsumerStores \/ ConsumerReports \/ ConsumerDropTask
    \/ ConsumerDone

-----------------------------------------------------------------------------
\* mTotoalTask
TotalTask == Cardinality(option.samples)

\* if (mProcessedTask >= mTotoalTask) break
MonitorEnds ==
    /\ watching
    /\ processed >= TotalTask
    /\ watching' = FALSE
    /\ UNCHANGED <<pipeline, option, making, pos, reporting, results, worked>>

\* The progress is shown; sleep for five seconds.
MonitorSleeps == watching /\ processed < TotalTask /\ UNCHANGED vars

AllLeft == left = Worker \cup {Producer, Consumer} /\ ~watching

Finished == AllLeft /\ UNCHANGED vars

Next ==
    \/ ProducerRun
    \/ \E w \in Worker : WorkerRun(w)
    \/ ConsumerRun
    \/ MonitorEnds \/ MonitorSleeps
    \/ Finished

\* Every thread that can run does run in the end.
Fairness ==
    /\ WF_vars(ProducerRun)
    /\ \A w \in Worker : WF_vars(WorkerRun(w))
    /\ WF_vars(ConsumerRun)
    /\ WF_vars(MonitorEnds)

Spec == Init /\ [][Next]_vars
FairSpec == Spec /\ Fairness

-----------------------------------------------------------------------------
\* The bundles that have been put and not yet deleted.
OnTheirWay ==
    {toWork[k] : k \in DOMAIN toWork} \cup {toConsume[k] : k \in DOMAIN toConsume}
        \cup ({held[t] : t \in Worker \cup {Consumer}} \ {NoTask})

(* The Compute tasks of a bundle are at most what reserve(TASK_BUNDLE_SIZE) *)
(* made room for, the work a worker is given at a time.  False: a Monitor  *)
(* task is pushed without a look at the size, and a bundle that has grown  *)
(* past TASK_BUNDLE_SIZE by it never has that size again: all that is left *)
(* of the training goes into this one bundle, to one worker.               *)
BundleWithinSize ==
    \A b \in OnTheirWay \cup {bundle} :
        Cardinality({k \in DOMAIN b : b[k].type = "Compute"}) <= BundleSize

(* Without Monitor tasks the work is shared out evenly: every bundle is    *)
(* full but the last.                                                      *)
BundlesAreFull ==
    option.step = 0 =>
        /\ Len(bundle) <= BundleSize
        /\ \A b \in OnTheirWay :
              Len(b) = BundleSize \/ (Len(b) < BundleSize /\ producer \in {"done", "left"})

(* However the bundles are cut and whoever gets them: when all threads     *)
(* have left, each sample has been computed once in each iteration, its    *)
(* result has been stored, and the progress has been counted to the end.   *)
EveryTaskDone ==
    AllLeft => /\ \A s \in option.samples : computed[s] = option.iterations /\ losses[s] # Never
               /\ Similarity => processed = TotalTask

(* While one worker does all the work (NumThread() = 1, or it is faster)   *)
(* the loss reported as that of an iteration is made of the losses of that *)
(* iteration, neither older nor newer, although the worker is bundles      *)
(* ahead of the network's consumer and there are no barriers.              *)
ReportsTheIteration ==
    Cardinality(worked) <= 1 =>
        \A t \in reporting : \A s \in option.samples : losses[s] = Current(t).iter

(* The computation ends, and so does the monitor that waits for the count. *)
Termination == <>AllLeft
=============================================================================
