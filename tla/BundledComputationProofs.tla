----------------------- MODULE BundledComputationProofs -----------------------
(***************************************************************************)
(* Proofs about BundledComputationMT, for any number of workers, any       *)
(* samples, any size of the bundles, any capacities of the two queues and  *)
(* any options.                                                            *)
(***************************************************************************)
EXTENDS BundledComputationMT, Counting

Getter == Worker \cup {Consumer}

-----------------------------------------------------------------------------
(* The inductive invariant.                                                *)

\* What is in the queues and the hands, ...
PipelineShape ==
    /\ toWork \in Seq(Bundle) /\ toConsume \in Seq(Bundle)
    /\ held \in [Getter -> Bundle \cup {NoTask}]
    /\ left \subseteq Getter \cup {Producer}
    /\ worked \subseteq Worker /\ \A w \in Worker : held[w] # NoTask => w \in worked

\* ... how far everybody is in his bundle, ...
PositionsShape ==
    /\ pos \in [Getter -> Nat \ {0}]
    /\ \A t \in Getter : IF held[t] = NoTask THEN pos[t] = 1 ELSE pos[t] <= Len(held[t]) + 1

TasksShape == \A b \in OnTheirWay \cup {bundle} : WellFormed(b)

\* ... where the producer is, ...
ProducerShape ==
    /\ option \in Options
    /\ bundle \in Bundle
    /\ producer \in {"making", "finishing", "done", "left"}
    /\ iter \in Nat /\ unmade \subseteq option.samples
    /\ IF producer = "making" THEN iter < option.iterations
                              ELSE iter = option.iterations /\ unmade = {}

\* ... and the results.
ResultsShape ==
    /\ computed \in [Sample -> Nat]
    /\ losses \in [Sample -> {Never} \cup 0..(option.iterations - 1)]
    /\ processed \in Nat
    /\ watching \in BOOLEAN

Shape == PipelineShape /\ PositionsShape /\ TasksShape /\ ProducerShape /\ ResultsShape

\* Only the auto-encoder's workers and the network's consumer report.
ReportersAreAtMonitors ==
    \A t \in reporting :
        /\ t \in Getter /\ At(t, "Monitor")
        /\ option.program = IF t = Consumer THEN "BpNetwork" ELSE "CfAutoEncoder"

\* Nobody leaves while something is still to come.
LeavesInOrder ==
    /\ Producer \in left <=> producer = "left"
    /\ producer \in {"done", "left"} => bundle = <<>>
    /\ \A w \in Worker \cap left : held[w] = NoTask /\ toWork = <<>> /\ Producer \in left
    /\ Consumer \in left =>
          held[Consumer] = NoTask /\ toConsume = <<>> /\ Worker \subseteq left

Base == Shape /\ ReportersAreAtMonitors /\ LeavesInOrder

\* Where the Compute tasks of a sample are in a bundle, from a position on.
Slots(b, from, s) ==
    {k \in DOMAIN b : k >= from /\ b[k].type = "Compute" /\ b[k].sample = s}

(* A queue's bundles, one after the other, are the sequence flat: rest[k]  *)
(* is what follows the first k bundles.                                    *)
IsFlat(flat, queue) ==
    \E rest \in [0..Len(queue) -> Bundle] :
        /\ rest[0] = flat /\ rest[Len(queue)] = <<>>
        /\ \A k \in 1..Len(queue) : rest[k - 1] = queue[k] \o rest[k]

InHand(t) == IF held[t] = NoTask THEN <<>> ELSE held[t]

\* How often the producer has made a task of s.
Made(s) ==
    IF s \in option.samples
    THEN iter + (IF producer = "making" /\ s \notin unmade THEN 1 ELSE 0)
    ELSE 0

\* The tasks of s that no worker has computed yet, by worker.
ToCompute(s) == [w \in Worker |-> Slots(InHand(w), pos[w], s)]

InBundle(s)         == Cardinality(Slots(bundle, 1, s))
InQueue(waiting, s) == Cardinality(Slots(waiting, 1, s))
AtWorkers(s)        == Cardinality(Tokens(Worker, ToCompute(s)))

(* Every task that has been made has been computed, or is in the bundle    *)
(* being filled, in the queue or before a worker.  waiting stands for the  *)
(* tasks in toWork, and coming for those in toConsume.                     *)
EachComputedOnce(waiting) ==
    \A s \in Sample : computed[s] + InBundle(s) + InQueue(waiting, s) + AtWorkers(s) = Made(s)

\* What has been computed has been stored, or is on its way to the consumer.
ComputedIsStored(coming) ==
    \A s \in option.samples :
        computed[s] > 0 /\ losses[s] = Never =>
            /\ ~WorkersStore
            /\ \/ \E w \in Worker : \E k \in Slots(InHand(w), 1, s) : k < pos[w]
               \/ Slots(coming, 1, s) # {}
               \/ Slots(InHand(Consumer), pos[Consumer], s) # {}

\* The tasks of the workers' bundles, all of them, by worker.
InHands       == [w \in Worker |-> DOMAIN InHand(w)]
HeldByWorkers == Cardinality(Tokens(Worker, InHands))

\* The progress of a similarity: each pair is counted when its bundle is deleted.
PairsAreCounted(waiting, coming) ==
    Similarity =>
        processed + Len(bundle) + Len(waiting) + HeldByWorkers
            + Len(coming) + Len(InHand(Consumer))
            = Cardinality(option.samples \ unmade)

-----------------------------------------------------------------------------
LEMMA RolesApart ==
    /\ Producer \notin Worker /\ Consumer \notin Worker /\ Consumer # Producer
    /\ Producer \notin Getter /\ IsFiniteSet(Worker)
    /\ NoTask \notin Bundle /\ BundleSize \in Nat \ {0}
BY BundleAssumption DEF Getter, Producer, Consumer

LEMMA OptionFacts ==
    ASSUME option \in Options
    PROVE  /\ option.iterations \in Nat \ {0} /\ option.samples \in SUBSET Sample
           /\ option.step \in Nat
           /\ Similarity => option.iterations = 1 /\ option.step = 0
BY BundleAssumption DEF OptionType, Similarity

\* The members of a queue.
Members(q) == {q[k] : k \in DOMAIN q}

LEMMA MembersAppend ==
    ASSUME NEW S, NEW q \in Seq(S), NEW x \in S
    PROVE  Members(Append(q, x)) \subseteq Members(q) \cup {x}
<1>1. /\ Len(q) \in Nat /\ DOMAIN q = 1..Len(q)
      /\ Append(q, x) \in Seq(S) /\ Len(Append(q, x)) = Len(q) + 1
      /\ \A k \in 1..Len(q) : Append(q, x)[k] = q[k]
      /\ Append(q, x)[Len(q) + 1] = x
    BY LenProperties, AppendProperties
<1>2. DOMAIN Append(q, x) = 1..(Len(q) + 1)
    BY <1>1, LenProperties
<1>3. \A k \in DOMAIN Append(q, x) : k \in DOMAIN q \/ k = Len(q) + 1
    BY <1>1, <1>2
<1> QED
    BY <1>1, <1>3 DEF Members

LEMMA MembersTail ==
    ASSUME NEW S, NEW q \in Seq(S), q # <<>>
    PROVE  Head(q) \in Members(q) /\ Members(Tail(q)) \subseteq Members(q)
<1>1. /\ Len(q) \in Nat \ {0} /\ DOMAIN q = 1..Len(q)
      /\ Tail(q) \in Seq(S) /\ Head(q) = q[1] /\ Len(Tail(q)) = Len(q) - 1
      /\ \A k \in 1..Len(Tail(q)) : Tail(q)[k] = q[k + 1]
    BY LenProperties, HeadTailProperties, EmptySeq
<1>2. DOMAIN Tail(q) = 1..(Len(q) - 1)
    BY <1>1, LenProperties
<1>3. \A k \in DOMAIN Tail(q) : Tail(q)[k] = q[k + 1] /\ k + 1 \in DOMAIN q
    BY <1>1, <1>2
<1> QED
    BY <1>1, <1>3 DEF Members

LEMMA QueueFacts ==
    ASSUME NEW S, NEW q \in Seq(S)
    PROVE  /\ q # <<>> => Head(q) \in S /\ Tail(q) \in Seq(S)
           /\ \A x \in S : /\ Append(q, x) \in Seq(S) /\ Append(q, x) # q
                          /\ q # <<>> => Append(q, x) # Tail(q)
<1>1. Len(q) \in Nat /\ \A n \in Nat : n + 1 # n /\ n + 1 # n - 1
    BY LenProperties
<1>2. q # <<>> => Head(q) \in S /\ Tail(q) \in Seq(S) /\ Len(Tail(q)) = Len(q) - 1
    BY HeadTailProperties, EmptySeq
<1>3. \A x \in S : Append(q, x) \in Seq(S) /\ Len(Append(q, x)) = Len(q) + 1
    BY AppendProperties
<1>4. ASSUME NEW x \in S PROVE Append(q, x) # q /\ (q # <<>> => Append(q, x) # Tail(q))
  <2>1. Len(Append(q, x)) # Len(q)
    BY <1>1, <1>3, Zenon
  <2>2. q # <<>> => Len(Append(q, x)) # Len(Tail(q))
    BY <1>1, <1>2, <1>3, Zenon
  <2> QED
    BY <2>1, <2>2, Zenon
<1> QED
    BY <1>2, <1>3, <1>4

LEMMA BaseInit == Init => Base
<1> SUFFICES ASSUME Init PROVE Base
    OBVIOUS
<1> USE RolesApart
<1>1. /\ toWork = <<>> /\ toConsume = <<>> /\ held = [t \in Getter |-> NoTask] /\ left = {}
    BY DEF Init, Pipeline!Init, Getter
<1>2. OnTheirWay = {}
    BY <1>1 DEF OnTheirWay, Getter
<1>3. option \in Options /\ option.iterations \in Nat \ {0}
    BY OptionFacts DEF Init
<1>4. PipelineShape /\ PositionsShape
    BY <1>1 DEF Init, PipelineShape, PositionsShape, Getter
<1>5. TasksShape
  <2>1. WellFormed(<<>>)
    BY DEF WellFormed
  <2> QED
    BY <1>2, <2>1 DEF Init, TasksShape
<1>6. ProducerShape
    BY <1>3 DEF Init, ProducerShape, Bundle
<1>7. ResultsShape
  <2>1. watching \in BOOLEAN
    <3>1. Similarity \in BOOLEAN
      BY DEF Similarity
    <3> QED
      BY <3>1 DEF Init
  <2> QED
    BY <1>3, <2>1 DEF Init, ResultsShape
<1>8. ReportersAreAtMonitors /\ LeavesInOrder
    BY <1>1 DEF Init, ReportersAreAtMonitors, LeavesInOrder
<1> QED
    BY <1>4, <1>5, <1>6, <1>7, <1>8 DEF Base, Shape

-----------------------------------------------------------------------------
(* What the steps do to the queues and to the hands.                       *)

ProducerPuts ==
    /\ toWork' = Append(toWork, bundle) /\ bundle' = <<>>
    /\ Producer \notin left
    /\ UNCHANGED <<toConsume, held, left, pos, worked>>

WorkerGets(w) ==
    /\ w \notin left /\ held[w] = NoTask /\ toWork # <<>> /\ Head(toWork) \in Bundle
    /\ toWork' = Tail(toWork) /\ held' = [held EXCEPT ![w] = Head(toWork)]
    /\ worked' = worked \cup {w}
    /\ UNCHANGED <<toConsume, left, pos, bundle>>

WorkerPuts(w) ==
    /\ held[w] \in Bundle /\ pos[w] > Len(held[w])
    /\ toConsume' = Append(toConsume, held[w]) /\ held' = [held EXCEPT ![w] = NoTask] /\ Restart(w)
    /\ UNCHANGED <<toWork, left, bundle, worked>>

ConsumerGets ==
    /\ Consumer \notin left /\ held[Consumer] = NoTask
    /\ toConsume # <<>> /\ Head(toConsume) \in Bundle
    /\ toConsume' = Tail(toConsume) /\ held' = [held EXCEPT ![Consumer] = Head(toConsume)]
    /\ UNCHANGED <<toWork, left, pos, bundle, worked>>

ConsumerDrops ==
    /\ held[Consumer] \in Bundle
    /\ held' = [held EXCEPT ![Consumer] = NoTask] /\ Restart(Consumer)
    /\ UNCHANGED <<toWork, toConsume, left, bundle, worked>>

\* A getter has done the task he is at.
Proceeds(t) == AtTask(t) /\ Advance(t) /\ UNCHANGED <<pipeline, bundle, worked>>

Leaves(t) ==
    /\ t \notin left /\ left' = left \cup {t}
    /\ UNCHANGED <<toWork, toConsume, held, pos, bundle, worked>>

LEMMA PutMoves ==
    ASSUME Base, PutFullBundle \/ PutLastBundle
    PROVE  ProducerPuts
BY DEF ProducerPuts, PutFullBundle, PutLastBundle, Pipeline!ProducerPutTask

LEMMA GetMoves ==
    ASSUME Base, NEW w \in Worker, WorkerGetTask(w)
    PROVE  WorkerGets(w)
BY QueueFacts
    DEF Base, Shape, PipelineShape, WorkerGetTask, Pipeline!WorkerGetTask, Pipeline!Ready,
        WorkerGets, making

LEMMA WorkerPutMoves ==
    ASSUME Base, NEW w \in Worker, WorkerPutTask(w)
    PROVE  WorkerPuts(w)
<1>1. held[w] \in Bundle
    BY DEF Base, Shape, PipelineShape, WorkerPutTask, AtEnd, Getter
<1> QED
    BY <1>1 DEF WorkerPuts, WorkerPutTask, Pipeline!WorkerPutTask, AtEnd, making

LEMMA ConsumerGetMoves ==
    ASSUME Base, ConsumerGetTask
    PROVE  ConsumerGets
BY QueueFacts
    DEF Base, Shape, PipelineShape, ConsumerGetTask, Pipeline!ConsumerGetTask,
        Pipeline!Ready, ConsumerGets, making

LEMMA DropMoves ==
    ASSUME Base, ConsumerDropTask
    PROVE  ConsumerDrops
<1>1. held[Consumer] \in Bundle
    BY DEF Base, Shape, PipelineShape, ConsumerDropTask, Pipeline!ConsumerDropTask, Getter
<1> QED
    BY <1>1 DEF ConsumerDrops, ConsumerDropTask, Pipeline!ConsumerDropTask, making

LEMMA TaskMoves ==
    ASSUME Base
    PROVE  /\ \A w \in Worker :
                 WorkerComputes(w) \/ WorkerSkips(w) \/ FinishReport(w) => Proceeds(w)
           /\ ConsumerStores \/ FinishReport(Consumer) => Proceeds(Consumer)
<1>1. \A t : FinishReport(t) => At(t, "Monitor")
    BY DEF Base, ReportersAreAtMonitors, FinishReport
<1> QED
    BY <1>1 DEF WorkerComputes, WorkerSkips, FinishReport, ConsumerStores, Proceeds, At,
        making

LEMMA LeaveMoves ==
    /\ ProducerDone => Leaves(Producer)
    /\ \A w \in Worker : WorkerDone(w) => Leaves(w)
    /\ ConsumerDone => Leaves(Consumer)
BY DEF ProducerDone, WorkerDone, ConsumerDone, Leaves, Pipeline!ProducerDone,
       Pipeline!WorkerDone, Pipeline!ConsumerDone, Pipeline!Ready, making

\* Everything else leaves queues, hands and positions alone.
Stays == UNCHANGED <<pipeline, pos, worked>>

LEMMA StayMoves ==
    /\ \A s \in Sample : AddComputeTask(s) => Stays
    /\ EndIteration => Stays
    /\ \A t : StartReport(t) => Stays /\ bundle' = bundle
    /\ MonitorEnds \/ MonitorSleeps \/ Finished \/ UNCHANGED vars => Stays /\ bundle' = bundle
BY DEF AddComputeTask, EndIteration, StartReport, MonitorEnds, MonitorSleeps, Finished,
       vars, Stays, making

\* The moves of a bundle through the pipeline.
Move ==
    \/ ProducerPuts
    \/ \E w \in Worker : WorkerGets(w) \/ WorkerPuts(w)
    \/ ConsumerGets \/ ConsumerDrops
    \/ \E t \in Getter : Proceeds(t)
    \/ \E t \in Getter \cup {Producer} : Leaves(t)
    \/ Stays

LEMMA NextMoves == Base /\ [Next]_vars => Move
<1> SUFFICES ASSUME Base, [Next]_vars PROVE Move
    OBVIOUS
<1>1. CASE ProducerRun
    BY <1>1, PutMoves, LeaveMoves, StayMoves DEF ProducerRun, Move
<1>2. ASSUME NEW w \in Worker, WorkerRun(w) PROVE Move
    BY <1>2, GetMoves, WorkerPutMoves, TaskMoves, LeaveMoves, StayMoves
        DEF WorkerRun, WorkerReports, Move, Getter
<1>3. CASE ConsumerRun
    BY <1>3, ConsumerGetMoves, DropMoves, TaskMoves, LeaveMoves, StayMoves
        DEF ConsumerRun, ConsumerReports, Move, Getter
<1> QED
    BY <1>1, <1>2, <1>3, StayMoves DEF Next, Move

-----------------------------------------------------------------------------
LEMMA PipelineShapeStep ==
    ASSUME Base, Move
    PROVE  PipelineShape'
<1> USE RolesApart
<1>0. PipelineShape /\ bundle \in Bundle /\ Worker \subseteq Getter /\ Consumer \in Getter
    BY DEF Base, Shape, ProducerShape, Getter
<1>1. ASSUME NEW q \in Seq(Bundle)
      PROVE  /\ \A b \in Bundle : Append(q, b) \in Seq(Bundle)
             /\ q # <<>> => Tail(q) \in Seq(Bundle)
    BY QueueFacts
<1>2. CASE ProducerPuts
    BY <1>0, <1>1, <1>2 DEF ProducerPuts, PipelineShape
<1>3. ASSUME NEW w \in Worker, WorkerGets(w) PROVE PipelineShape'
    BY <1>0, <1>1, <1>3 DEF WorkerGets, PipelineShape
<1>4. ASSUME NEW w \in Worker, WorkerPuts(w) PROVE PipelineShape'
    BY <1>0, <1>1, <1>4 DEF WorkerPuts, PipelineShape
<1>5. CASE ConsumerGets
    BY <1>0, <1>1, <1>5 DEF ConsumerGets, PipelineShape
<1>6. CASE ConsumerDrops
    BY <1>0, <1>6 DEF ConsumerDrops, PipelineShape
<1>7. ASSUME NEW t \in Getter, Proceeds(t) PROVE PipelineShape'
    BY <1>0, <1>7 DEF Proceeds, pipeline, PipelineShape
<1>8. ASSUME NEW t \in Getter \cup {Producer}, Leaves(t) PROVE PipelineShape'
    BY <1>0, <1>8 DEF Leaves, PipelineShape
<1>9. CASE Stays
    BY <1>0, <1>9 DEF Stays, pipeline, PipelineShape
<1> QED
    BY <1>2, <1>3, <1>4, <1>5, <1>6, <1>7, <1>8, <1>9 DEF Move

LEMMA PositionsShapeStep ==
    ASSUME Base, Move
    PROVE  PositionsShape'
<1> USE RolesApart
<1>0. /\ held \in [Getter -> Bundle \cup {NoTask}] /\ PositionsShape /\ bundle \in Bundle
      /\ Worker \subseteq Getter /\ Consumer \in Getter
      /\ \A b \in Bundle : Len(b) \in Nat
    BY LenProperties DEF Base, Shape, PipelineShape, ProducerShape, Getter, Bundle
<1>1. ASSUME NEW t \in Getter, NEW b \in Bundle, held[t] = NoTask,
             held' = [held EXCEPT ![t] = b], UNCHANGED pos
      PROVE  PositionsShape'
    BY <1>0, <1>1 DEF PositionsShape
<1>2. ASSUME NEW t \in Getter, held' = [held EXCEPT ![t] = NoTask], Restart(t)
      PROVE  PositionsShape'
    BY <1>0, <1>2 DEF PositionsShape, Restart
<1>3. ASSUME NEW t \in Getter, Proceeds(t) PROVE PositionsShape'
    BY <1>0, <1>3 DEF PositionsShape, Proceeds, Advance, AtTask, pipeline
<1>4. CASE UNCHANGED <<held, pos>>
    BY <1>0, <1>4 DEF PositionsShape
<1> QED
    BY <1>0, <1>1, <1>2, <1>3, <1>4
        DEF Move, ProducerPuts, WorkerGets, WorkerPuts, ConsumerGets, ConsumerDrops, Leaves,
            Stays, pipeline

\* A bundle is on its way from the time it is put.
LEMMA OnTheirWayStep ==
    ASSUME Base, Move
    PROVE  /\ OnTheirWay' \subseteq OnTheirWay \cup {bundle}
           /\ ~ProducerPuts => OnTheirWay' \subseteq OnTheirWay
<1> USE RolesApart
<1> DEFINE Hands == {held[t] : t \in Getter} \ {NoTask}
<1>0. /\ PipelineShape /\ bundle \in Bundle /\ Worker \subseteq Getter /\ Consumer \in Getter
    BY DEF Base, Shape, ProducerShape, Getter
<1>1. /\ OnTheirWay = Members(toWork) \cup Members(toConsume) \cup Hands
      /\ OnTheirWay' = Members(toWork') \cup Members(toConsume') \cup Hands'
    BY DEF OnTheirWay, Members, Getter
<1>2. /\ toWork # <<>> => Head(toWork) \in Members(toWork)
                          /\ Members(Tail(toWork)) \subseteq Members(toWork)
      /\ toConsume # <<>> => Head(toConsume) \in Members(toConsume)
                             /\ Members(Tail(toConsume)) \subseteq Members(toConsume)
    BY <1>0, MembersTail DEF PipelineShape
<1>3. ASSUME NEW b \in Bundle
      PROVE  /\ Members(Append(toWork, b)) \subseteq Members(toWork) \cup {b}
             /\ Members(Append(toConsume, b)) \subseteq Members(toConsume) \cup {b}
  <2>1. toWork \in Seq(Bundle) /\ toConsume \in Seq(Bundle)
    BY <1>0 DEF PipelineShape
  <2> QED
    BY <2>1, MembersAppend
<1>4. CASE ProducerPuts
    BY <1>0, <1>1, <1>3, <1>4 DEF ProducerPuts
<1>5. ASSUME NEW w \in Worker, WorkerGets(w) PROVE OnTheirWay' \subseteq OnTheirWay
  <2>1. Hands' \subseteq Hands \cup {Head(toWork)}
    BY <1>0, <1>5 DEF WorkerGets, PipelineShape
  <2> QED
    BY <1>1, <1>2, <1>5, <2>1 DEF WorkerGets
<1>6. ASSUME NEW w \in Worker, WorkerPuts(w) PROVE OnTheirWay' \subseteq OnTheirWay
  <2>1. Hands' \subseteq Hands /\ held[w] \in Hands
    BY <1>0, <1>6 DEF WorkerPuts, PipelineShape
  <2> QED
    BY <1>1, <1>3, <1>6, <2>1 DEF WorkerPuts
<1>7. CASE ConsumerGets
  <2>1. Hands' \subseteq Hands \cup {Head(toConsume)}
    BY <1>0, <1>7 DEF ConsumerGets, PipelineShape
  <2> QED
    BY <1>1, <1>2, <1>7, <2>1 DEF ConsumerGets
<1>8. CASE ConsumerDrops
  <2>1. Hands' \subseteq Hands
    BY <1>0, <1>8 DEF ConsumerDrops, PipelineShape
  <2> QED
    BY <1>1, <1>8, <2>1 DEF ConsumerDrops
<1>9. ASSUME UNCHANGED <<toWork, toConsume, held>> PROVE OnTheirWay' \subseteq OnTheirWay
    BY <1>9 DEF OnTheirWay
<1> QED
    BY <1>4, <1>5, <1>6, <1>7, <1>8, <1>9 DEF Move, Proceeds, Leaves, Stays, pipeline

-----------------------------------------------------------------------------
LEMMA TaskFacts ==
    /\ \A x \in Task :
          /\ x.iter \in Nat /\ x.type \in {"Compute", "Monitor"}
          /\ x.type = "Compute" => x.sample \in Sample /\ x = ComputeTask(x.sample, x.iter)
    /\ \A s \in Sample, n \in Nat :
          /\ ComputeTask(s, n) \in Task /\ ComputeTask(s, n).type = "Compute"
          /\ ComputeTask(s, n).sample = s /\ ComputeTask(s, n).iter = n
    /\ \A n \in Nat : /\ MonitorTask(n) \in Task /\ MonitorTask(n).type = "Monitor"
                      /\ MonitorTask(n).iter = n
BY DEF Task, ComputeTask, MonitorTask

LEMMA OptionKept == [Next]_vars => option' = option
BY DEF Next, vars, ProducerRun, PutFullBundle, AddComputeTask, EndIteration, PutLastBundle,
       ProducerDone, WorkerRun, WorkerGetTask, WorkerComputes, WorkerSkips, WorkerReports,
       StartReport, FinishReport, WorkerPutTask, WorkerDone, ConsumerRun, ConsumerGetTask,
       ConsumerStores, ConsumerReports, ConsumerDropTask, ConsumerDone, MonitorEnds,
       MonitorSleeps, Finished

\* The task somebody is at.
LEMMA CurrentFacts ==
    ASSUME Base, NEW t \in Getter, AtTask(t)
    PROVE  /\ held[t] \in Bundle /\ pos[t] \in DOMAIN held[t]
           /\ Current(t) \in Task /\ Current(t).iter < option.iterations
           /\ Current(t).type = "Compute" => Current(t).sample \in option.samples
<1>1. held[t] \in Bundle /\ pos[t] \in Nat \ {0} /\ pos[t] <= Len(held[t])
    BY DEF Base, Shape, PipelineShape, PositionsShape, AtTask
<1>2. pos[t] \in DOMAIN held[t] /\ held[t][pos[t]] \in Task
    BY <1>1, LenProperties DEF Bundle
<1>3. held[t] \in OnTheirWay
    BY <1>1, RolesApart DEF OnTheirWay, Getter
<1>4. WellFormed(held[t])
    BY <1>3 DEF Base, Shape, TasksShape
<1> QED
    BY <1>1, <1>2, <1>4 DEF WellFormed, Current

\* Nobody but the producer touches the bundle being filled, or puts it.
LEMMA BundleGrows ==
    ASSUME Base, [Next]_vars
    PROVE  \/ PutFullBundle \/ PutLastBundle
           \/ /\ ~ProducerPuts
              /\ \/ UNCHANGED bundle
                 \/ \E s \in option.samples : AddComputeTask(s)
                 \/ EndIteration
<1>1. ASSUME NEW s \in Sample, AddComputeTask(s) PROVE s \in option.samples
    BY <1>1 DEF AddComputeTask, Base, Shape, ProducerShape
<1>2. toWork' = toWork \/ (toWork # <<>> /\ toWork' = Tail(toWork)) => ~ProducerPuts
    BY QueueFacts DEF ProducerPuts, Base, Shape, PipelineShape, ProducerShape
<1>3. ASSUME NEW w \in Worker, WorkerGetTask(w)
      PROVE  toWork # <<>> /\ toWork' = Tail(toWork) /\ UNCHANGED bundle
    BY <1>3, GetMoves DEF WorkerGets
<1>4. CASE UNCHANGED <<toWork, bundle>>
    BY <1>2, <1>4
<1>5. ASSUME NEW w \in Worker, WorkerPutTask(w) PROVE UNCHANGED <<toWork, bundle>>
    BY <1>5, WorkerPutMoves DEF WorkerPuts
<1>6. ConsumerGetTask \/ ConsumerDropTask => UNCHANGED <<toWork, bundle>>
    BY ConsumerGetMoves, DropMoves DEF ConsumerGets, ConsumerDrops
<1>7. \A t : Leaves(t) => UNCHANGED <<toWork, bundle>>
    BY DEF Leaves
<1> QED
    BY <1>1, <1>2, <1>3, <1>4, <1>5, <1>6, <1>7, LeaveMoves
    DEF Next, vars, making, pipeline, ProducerRun, AddComputeTask, EndIteration, WorkerRun,
        WorkerComputes, WorkerSkips, WorkerReports, StartReport, FinishReport, ConsumerRun,
        ConsumerStores, ConsumerReports, MonitorEnds, MonitorSleeps, Finished

LEMMA WellFormedAppend ==
    ASSUME NEW b \in Bundle, WellFormed(b), NEW x \in Task, x.iter < option.iterations,
           x.type = "Compute" => x.sample \in option.samples
    PROVE  WellFormed(Append(b, x)) /\ Append(b, x) \in Bundle
<1> DEFINE longer == Append(b, x)
<1>1. /\ DOMAIN b = 1..Len(b) /\ Len(b) \in Nat /\ DOMAIN longer = 1..(Len(b) + 1)
      /\ \A k \in 1..Len(b) : longer[k] = b[k]
      /\ longer[Len(b) + 1] = x /\ longer \in Bundle
    BY AppendProperties, LenProperties DEF Bundle
<1> HIDE DEF longer
<1>2. WellFormed(longer)
    BY <1>1 DEF WellFormed
<1> QED
    BY <1>1, <1>2 DEF longer

LEMMA TasksShapeStep ==
    ASSUME Base, [Next]_vars
    PROVE  TasksShape' /\ bundle' \in Bundle
<1>0. /\ Move /\ TasksShape /\ ProducerShape /\ bundle \in Bundle /\ WellFormed(bundle)
      /\ option.samples \in SUBSET Sample /\ option.iterations \in Nat
    BY NextMoves, OptionFacts DEF Base, Shape, TasksShape, ProducerShape
<1>1. \A b : WellFormed(b)' <=> WellFormed(b)
    BY OptionKept DEF WellFormed
<1>2. OnTheirWay' \subseteq OnTheirWay \cup {bundle}
    BY <1>0, OnTheirWayStep
<1>3. WellFormed(bundle') /\ bundle' \in Bundle
  <2>1. CASE UNCHANGED bundle
    BY <1>0, <2>1
  <2>2. CASE PutFullBundle \/ PutLastBundle
    <3>1. bundle' = <<>>
      BY <2>2 DEF PutFullBundle, PutLastBundle
    <3>2. WellFormed(<<>>) /\ <<>> \in Bundle
      BY DEF WellFormed, Bundle
    <3> QED
      BY <3>1, <3>2
  <2>3. ASSUME NEW s \in option.samples, AddComputeTask(s)
        PROVE  WellFormed(bundle') /\ bundle' \in Bundle
    <3>1. ComputeTask(s, iter) \in Task /\ iter < option.iterations
      BY <1>0, <2>3, TaskFacts DEF AddComputeTask, ProducerShape
    <3> QED
      BY <1>0, <2>3, <3>1, TaskFacts, WellFormedAppend DEF AddComputeTask, ProducerShape
  <2>4. CASE EndIteration
    <3>1. MonitorTask(iter) \in Task /\ iter < option.iterations
      BY <1>0, <2>4, TaskFacts DEF EndIteration, ProducerShape
    <3> QED
      BY <1>0, <2>4, <3>1, TaskFacts, WellFormedAppend DEF EndIteration, ProducerShape
  <2> QED
    BY <2>1, <2>2, <2>3, <2>4, BundleGrows
<1> QED
  <2> SUFFICES ASSUME NEW b, b \in OnTheirWay' \cup {bundle'} PROVE WellFormed(b)'
      BY <1>3 DEF TasksShape
  <2> QED
      BY <1>0, <1>1, <1>2, <1>3 DEF TasksShape

LEMMA ProducerShapeStep ==
    ASSUME Base, [Next]_vars
    PROVE  ProducerShape'
<1>0. /\ ProducerShape /\ bundle' \in Bundle /\ option' = option
      /\ option.iterations \in Nat \ {0}
    BY TasksShapeStep, OptionKept, OptionFacts DEF Base, Shape, ProducerShape
<1>1. CASE ProducerRun
    BY <1>0, <1>1
        DEF ProducerShape, ProducerRun, PutFullBundle, AddComputeTask, EndIteration,
            PutLastBundle, ProducerDone, Last
<1>2. CASE UNCHANGED making
    BY <1>0, <1>2 DEF ProducerShape, making
<1> QED
    BY <1>1, <1>2 DEF Next, vars, WorkerRun, WorkerGetTask, WorkerComputes, WorkerSkips,
        WorkerReports, StartReport, FinishReport, WorkerPutTask, WorkerDone, ConsumerRun,
        ConsumerGetTask, ConsumerStores, ConsumerReports, ConsumerDropTask, ConsumerDone,
        MonitorEnds, MonitorSleeps, Finished

LEMMA ResultsShapeStep ==
    ASSUME Base, [Next]_vars
    PROVE  ResultsShape'
<1>0. /\ ResultsShape /\ option' = option /\ option.iterations \in Nat
      /\ option.samples \in SUBSET Sample
    BY OptionKept, OptionFacts DEF Base, Shape, ProducerShape
<1>1. ASSUME NEW t \in Getter, At(t, "Compute"), Store(Current(t))
      PROVE  losses' \in [Sample -> {Never} \cup 0..(option.iterations - 1)]
    BY <1>0, <1>1, CurrentFacts, TaskFacts DEF ResultsShape, At, Store
<1>2. ASSUME NEW w \in Worker, WorkerComputes(w) PROVE ResultsShape'
  <2>0. Current(w).sample \in Sample
    BY <1>0, <1>2, CurrentFacts DEF WorkerComputes, At, Getter
  <2>1. computed' \in [Sample -> Nat]
    BY <1>0, <1>2, <2>0 DEF ResultsShape, WorkerComputes
  <2> QED
    BY <1>0, <1>1, <1>2, <2>1 DEF WorkerComputes, ResultsShape, Getter
<1>3. CASE ConsumerStores
    BY <1>0, <1>1, <1>3 DEF ConsumerStores, ResultsShape, Getter
<1>4. CASE ConsumerDropTask
  <2>1. Len(held[Consumer]) \in Nat
    BY <1>4, DropMoves, LenProperties DEF ConsumerDrops, Bundle
  <2> QED
    BY <1>0, <1>4, <2>1 DEF ConsumerDropTask, CountBundle, ResultsShape
<1>5. CASE MonitorEnds
    BY <1>0, <1>5 DEF MonitorEnds, results, ResultsShape
<1>6. CASE UNCHANGED <<results, watching>>
    BY <1>0, <1>6 DEF results, ResultsShape
<1> QED
    BY <1>2, <1>3, <1>4, <1>5, <1>6
        DEF Next, vars, ProducerRun, PutFullBundle, AddComputeTask, EndIteration,
            PutLastBundle, ProducerDone, WorkerRun, WorkerGetTask, WorkerSkips,
            WorkerReports, StartReport, FinishReport, WorkerPutTask, WorkerDone,
            ConsumerRun, ConsumerGetTask, ConsumerReports, ConsumerDone, MonitorSleeps,
            Finished, results

LEMMA ReportersStep ==
    ASSUME Base, [Next]_vars
    PROVE  ReportersAreAtMonitors'
<1> USE RolesApart
<1>0. /\ Move /\ ReportersAreAtMonitors /\ option' = option
      /\ held \in [Getter -> Bundle \cup {NoTask}] /\ pos \in [Getter -> Nat \ {0}]
      /\ Worker \subseteq Getter /\ Consumer \in Getter
    BY NextMoves, OptionKept
        DEF Base, Shape, PipelineShape, PositionsShape, Getter
\* A thread that has not moved on in its bundle is where it was.
<1>1. \A t \in Getter : held'[t] = held[t] /\ pos'[t] = pos[t] /\ At(t, "Monitor")
                            => At(t, "Monitor")'
    BY DEF At, AtTask, Current
<1>2. ASSUME NEW u \in Getter, u \notin reporting',
             reporting' = reporting \ {u},
             \A t \in Getter \ {u} : held'[t] = held[t] /\ pos'[t] = pos[t]
      PROVE  ReportersAreAtMonitors'
    BY <1>0, <1>1, <1>2 DEF ReportersAreAtMonitors
<1>3. ASSUME NEW u \in Getter, StartReport(u),
             option.program = IF u = Consumer THEN "BpNetwork" ELSE "CfAutoEncoder"
      PROVE  ReportersAreAtMonitors'
    BY <1>0, <1>1, <1>3 DEF ReportersAreAtMonitors, StartReport, pipeline
<1>4. ASSUME NEW u \in Getter, FinishReport(u) PROVE ReportersAreAtMonitors'
    BY <1>0, <1>2, <1>4 DEF FinishReport, Advance, pipeline
<1>5. ASSUME reporting' = reporting, NEW u \in Getter, u \notin reporting,
             \A t \in Getter \ {u} : held'[t] = held[t] /\ pos'[t] = pos[t]
      PROVE  ReportersAreAtMonitors'
    BY <1>0, <1>2, <1>5
<1>6. ASSUME reporting' = reporting, UNCHANGED <<held, pos>> PROVE ReportersAreAtMonitors'
    BY <1>0, <1>1, <1>6 DEF ReportersAreAtMonitors
<1>7. CASE ProducerRun
    BY <1>6, <1>7 DEF ProducerRun, PutFullBundle, AddComputeTask, EndIteration,
        PutLastBundle, ProducerDone, pipeline, Pipeline!ProducerPutTask,
        Pipeline!ProducerDone
<1>8. ASSUME NEW w \in Worker, WorkerRun(w) PROVE ReportersAreAtMonitors'
  <2>1. CASE WorkerGetTask(w)
    <3>1. WorkerGets(w) /\ reporting' = reporting /\ w \notin reporting
      BY <1>0, <2>1, GetMoves
          DEF WorkerGetTask, ReportersAreAtMonitors, At, AtTask, WorkerGets
    <3> QED
      BY <1>0, <1>5, <3>1 DEF WorkerGets
  <2>2. CASE WorkerPutTask(w)
    <3>1. WorkerPuts(w) /\ reporting' = reporting /\ w \notin reporting
      <4>1. WorkerPuts(w)
        BY <2>2, WorkerPutMoves
      <4>2. ~AtTask(w)
        BY <1>0, <4>1, LenProperties DEF WorkerPuts, AtTask, Bundle
      <4> QED
        BY <1>0, <2>2, <4>1, <4>2 DEF WorkerPutTask, ReportersAreAtMonitors, At
    <3> QED
      BY <1>0, <1>5, <3>1 DEF WorkerPuts, Restart
  <2>3. CASE WorkerComputes(w) \/ WorkerSkips(w)
    <3>1. reporting' = reporting /\ w \notin reporting
      BY <1>0, <2>3 DEF WorkerComputes, WorkerSkips, ReportersAreAtMonitors, At
    <3> QED
      BY <1>0, <1>5, <2>3, <3>1 DEF WorkerComputes, WorkerSkips, Advance, pipeline
  <2>4. CASE WorkerReports(w)
    BY <1>0, <1>3, <1>4, <2>4 DEF WorkerReports
  <2>5. CASE WorkerDone(w)
    BY <1>6, <2>5 DEF WorkerDone, Pipeline!WorkerDone
  <2> QED
    BY <1>8, <2>1, <2>2, <2>3, <2>4, <2>5 DEF WorkerRun
<1>9. CASE ConsumerRun
  <2>1. CASE ConsumerGetTask
    <3>1. ConsumerGets /\ reporting' = reporting /\ Consumer \notin reporting
      BY <1>0, <2>1, ConsumerGetMoves
          DEF ConsumerGetTask, ReportersAreAtMonitors, At, AtTask, ConsumerGets
    <3> QED
      BY <1>0, <1>5, <3>1 DEF ConsumerGets
  <2>2. CASE ConsumerDropTask
    <3>1. ConsumerDrops /\ reporting' = reporting
      BY <2>2, DropMoves DEF ConsumerDropTask
    <3>2. ~AtTask(Consumer) \/ WorkersStore
      BY <1>0, <2>2, <3>1, LenProperties
          DEF ConsumerDrops, ConsumerDropTask, AtEnd, AtTask, Bundle
    <3>3. Consumer \notin reporting
      BY <1>0, <3>2 DEF ReportersAreAtMonitors, At, WorkersStore
    <3> QED
      BY <1>0, <1>5, <3>1, <3>3 DEF ConsumerDrops, Restart
  <2>3. CASE ConsumerStores
    <3>1. reporting' = reporting /\ Consumer \notin reporting
      BY <1>0, <2>3 DEF ConsumerStores, ReportersAreAtMonitors, At
    <3> QED
      BY <1>0, <1>5, <2>3, <3>1 DEF ConsumerStores, Advance, pipeline
  <2>4. CASE ConsumerReports
    BY <1>0, <1>3, <1>4, <2>4 DEF ConsumerReports
  <2>5. CASE ConsumerDone
    BY <1>6, <2>5 DEF ConsumerDone, Pipeline!ConsumerDone
  <2> QED
    BY <1>9, <2>1, <2>2, <2>3, <2>4, <2>5 DEF ConsumerRun
<1>10. CASE MonitorEnds \/ MonitorSleeps \/ Finished \/ UNCHANGED vars
    BY <1>6, <1>10 DEF MonitorEnds, MonitorSleeps, Finished, vars, pipeline
<1> QED
    BY <1>7, <1>8, <1>9, <1>10 DEF Next

LEMMA LeavesInOrderStep ==
    ASSUME Base, [Next]_vars
    PROVE  LeavesInOrder'
<1> USE RolesApart
<1>0. /\ LeavesInOrder /\ PipelineShape /\ ProducerShape /\ Worker \subseteq Getter
      /\ Consumer \in Getter /\ held \in [Getter -> Bundle \cup {NoTask}]
    BY DEF Base, Shape, PipelineShape, Getter
<1>1. CASE PutFullBundle \/ PutLastBundle
    BY <1>0, <1>1, PutMoves
        DEF LeavesInOrder, ProducerPuts, PutFullBundle, PutLastBundle, ProducerShape
<1>2. ASSUME NEW s \in Sample, AddComputeTask(s) PROVE LeavesInOrder'
    BY <1>0, <1>2 DEF LeavesInOrder, AddComputeTask, pipeline
<1>3. CASE EndIteration
    BY <1>0, <1>3 DEF LeavesInOrder, EndIteration, pipeline
<1>4. CASE ProducerDone
    BY <1>0, <1>4 DEF LeavesInOrder, ProducerDone, Pipeline!ProducerDone
<1>5. ASSUME NEW w \in Worker, WorkerGetTask(w) PROVE LeavesInOrder'
    BY <1>0, <1>5, GetMoves DEF LeavesInOrder, WorkerGets, WorkerGetTask, making
<1>6. ASSUME NEW w \in Worker, WorkerPutTask(w) PROVE LeavesInOrder'
    BY <1>0, <1>6, WorkerPutMoves DEF LeavesInOrder, WorkerPuts, WorkerPutTask, making
<1>7. ASSUME NEW w \in Worker, WorkerDone(w) PROVE LeavesInOrder'
    BY <1>0, <1>7
        DEF LeavesInOrder, WorkerDone, Pipeline!WorkerDone, Pipeline!Ready, making
<1>8. CASE ConsumerGetTask
    BY <1>0, <1>8, ConsumerGetMoves
        DEF LeavesInOrder, ConsumerGets, ConsumerGetTask, making
<1>9. CASE ConsumerDropTask
    BY <1>0, <1>9, DropMoves DEF LeavesInOrder, ConsumerDrops, ConsumerDropTask, making
<1>10. CASE ConsumerDone
    BY <1>0, <1>10
        DEF LeavesInOrder, ConsumerDone, Pipeline!ConsumerDone, Pipeline!Ready, making
<1>11. CASE UNCHANGED <<pipeline, making>>
    BY <1>0, <1>11 DEF LeavesInOrder, pipeline, making
<1> QED
    BY <1>1, <1>2, <1>3, <1>4, <1>5, <1>6, <1>7, <1>8, <1>9, <1>10, <1>11
        DEF Next, vars, ProducerRun, WorkerRun, WorkerComputes, WorkerSkips, WorkerReports,
            StartReport, FinishReport, ConsumerRun, ConsumerStores, ConsumerReports,
            MonitorEnds, MonitorSleeps, Finished

LEMMA BaseStep == Base /\ [Next]_vars => Base'
BY NextMoves, PipelineShapeStep, PositionsShapeStep, TasksShapeStep, ProducerShapeStep,
   ResultsShapeStep, ReportersStep, LeavesInOrderStep DEF Base, Shape

LEMMA BaseHolds == Spec => []Base
<1>1. Init => Base
    BY BaseInit
<1>2. Base /\ [Next]_vars => Base'
    BY BaseStep
<1> QED
    BY <1>1, <1>2, PTL DEF Spec

-----------------------------------------------------------------------------
\* Full bundles.

LEMMA FullBundlesStep == Base /\ BundlesAreFull /\ [Next]_vars => BundlesAreFull'
<1> SUFFICES ASSUME Base, BundlesAreFull, [Next]_vars, option.step = 0
    PROVE  /\ Len(bundle') <= BundleSize
           /\ \A b \in OnTheirWay' :
                 Len(b) = BundleSize \/ (Len(b) < BundleSize /\ producer' \in {"done", "left"})
    BY OptionKept DEF BundlesAreFull
<1> USE RolesApart
<1>0. /\ Move /\ Len(bundle) \in Nat /\ Len(bundle) <= BundleSize /\ bundle \in Bundle
      /\ iter \in Nat /\ option.samples \in SUBSET Sample
      /\ OnTheirWay' \subseteq OnTheirWay \cup {bundle}
      /\ ~ProducerPuts => OnTheirWay' \subseteq OnTheirWay
      /\ \A b \in OnTheirWay :
            Len(b) = BundleSize \/ (Len(b) < BundleSize /\ producer \in {"done", "left"})
    BY NextMoves, OnTheirWayStep, LenProperties, OptionFacts
        DEF BundlesAreFull, Base, Shape, ProducerShape, Bundle
<1>1. producer \in {"done", "left"} => producer' \in {"done", "left"}
    BY DEF Next, vars, making, ProducerRun, PutFullBundle, AddComputeTask, EndIteration,
           PutLastBundle, ProducerDone, WorkerRun, WorkerGetTask, WorkerComputes,
           WorkerSkips, WorkerReports, StartReport, FinishReport, WorkerPutTask, WorkerDone,
           ConsumerRun, ConsumerGetTask, ConsumerStores, ConsumerReports, ConsumerDropTask,
           ConsumerDone, MonitorEnds, MonitorSleeps, Finished
<1>2. CASE PutFullBundle \/ PutLastBundle
  <2>1. Len(bundle') <= BundleSize
    BY <1>2 DEF PutFullBundle, PutLastBundle
  <2>2. Len(bundle) = BundleSize \/ (Len(bundle) < BundleSize /\ producer' = "done")
    BY <1>0, <1>2 DEF PutFullBundle, PutLastBundle, Full
  <2> QED
    BY <1>0, <1>1, <2>1, <2>2
<1>3. ASSUME NEW s \in option.samples, AddComputeTask(s) PROVE Len(bundle') <= BundleSize
  <2>1. Len(bundle') = Len(bundle) + 1 /\ Len(bundle) # BundleSize
    BY <1>0, <1>3, TaskFacts, AppendProperties DEF AddComputeTask, Full, Bundle
  <2> QED
    BY <1>0, <2>1
<1>4. EndIteration => bundle' = bundle
    BY <1>0 DEF EndIteration, Monitored
<1>5. ASSUME ~ProducerPuts, Len(bundle') <= BundleSize
      PROVE  /\ Len(bundle') <= BundleSize
             /\ \A b \in OnTheirWay' :
                   Len(b) = BundleSize \/ (Len(b) < BundleSize /\ producer' \in {"done", "left"})
    BY <1>0, <1>1, <1>5
<1> QED
    BY <1>0, <1>2, <1>3, <1>4, <1>5, BundleGrows

(* Without Monitor tasks every bundle but the last is full, however many   *)
(* workers there are and whatever the size of the bundles.                 *)
THEOREM FullBundles == Spec => []BundlesAreFull
<1>1. Init => BundlesAreFull
  <2> SUFFICES ASSUME Init PROVE BundlesAreFull
    OBVIOUS
  <2>1. OnTheirWay = {}
    BY DEF Init, Pipeline!Init, OnTheirWay
  <2>2. bundle = <<>> /\ Len(<<>>) = 0 /\ 0 <= BundleSize
    BY RolesApart DEF Init
  <2>3. Len(bundle) <= BundleSize
    BY <2>2
  <2> QED
    BY <2>1, <2>3 DEF BundlesAreFull
<1>2. Base /\ BundlesAreFull /\ [Next]_vars => BundlesAreFull'
    BY FullBundlesStep
<1> QED
    BY <1>1, <1>2, BaseHolds, PTL DEF Spec

-----------------------------------------------------------------------------
(* The tasks of a queue, one after the other.                              *)

LEMMA ConcatFacts ==
    /\ <<>> \in Bundle
    /\ \A a \in Bundle : a \o <<>> = a /\ <<>> \o a = a
    /\ \A a, b \in Bundle : a \o b \in Bundle
    /\ \A a, b, c \in Bundle : (a \o b) \o c = a \o (b \o c)
    /\ \A a \in Bundle, x \in Task : Append(a, x) = a \o <<x>>
    /\ \A x \in Task : <<x>> \in Bundle
<1>1. <<>> \in Seq(Task) /\ \A x \in Task : <<x>> \in Seq(Task)
    OBVIOUS
<1> QED
    BY <1>1, ConcatEmptySeq, ConcatProperties, ConcatAssociative, AppendIsConcat DEF Bundle

\* What is flat of a queue, and of the queue after it has got a bundle,
\* given one away or neither.
Follows(queue, queue2, flat, flat2) ==
    /\ flat2 \in Bundle /\ IsFlat(flat2, queue2)
    /\ queue2 = queue => flat2 = flat
    /\ queue # <<>> /\ queue2 = Tail(queue) => flat = Head(queue) \o flat2
    /\ \A b \in Bundle : queue2 = Append(queue, b) => flat2 = flat \o b

LEMMA FlatOfNone ==
    /\ IsFlat(<<>>, <<>>)
    /\ \A flat : IsFlat(flat, <<>>) => flat = <<>>
<1>1. Len(<<>>) = 0 /\ <<>> \in Bundle
    BY DEF Bundle
<1>2. \A k \in 1..0 : FALSE
    OBVIOUS
<1>3. [k \in 0..0 |-> <<>>] \in [0..0 -> Bundle] /\ [k \in 0..0 |-> <<>>][0] = <<>>
    BY <1>1
<1>4. IsFlat(<<>>, <<>>)
    BY <1>1, <1>2, <1>3 DEF IsFlat
<1> QED
    BY <1>1, <1>4 DEF IsFlat

LEMMA FlatAppend ==
    ASSUME NEW q \in Seq(Bundle), NEW flat \in Bundle, IsFlat(flat, q), NEW b \in Bundle
    PROVE  IsFlat(flat \o b, Append(q, b))
<1> DEFINE n  == Len(q)
           q2 == Append(q, b)
<1>1. PICK rest \in [0..n -> Bundle] :
          /\ rest[0] = flat /\ rest[n] = <<>>
          /\ \A k \in 1..n : rest[k - 1] = q[k] \o rest[k]
    BY DEF IsFlat
<1>2. /\ n \in Nat /\ Len(q2) = n + 1 /\ q2[n + 1] = b
      /\ \A k \in 1..n : q2[k] = q[k] /\ q[k] \in Bundle
    BY AppendProperties, LenProperties, ElementOfSeq
<1> DEFINE rest2 == [k \in 0..(n + 1) |-> IF k = n + 1 THEN <<>> ELSE rest[k] \o b]
<1> HIDE DEF n, q2
<1>3. rest2 \in [0..(n + 1) -> Bundle]
    BY <1>2, ConcatFacts
<1>4. rest2[0] = flat \o b /\ rest2[n + 1] = <<>>
    BY <1>1, <1>2
<1>5. ASSUME NEW k \in 1..(n + 1) PROVE rest2[k - 1] = q2[k] \o rest2[k]
  <2>1. CASE k = n + 1
    <3>1. rest2[k - 1] = rest[n] \o b /\ rest2[k] = <<>>
      BY <1>2, <2>1
    <3> QED
      BY <1>1, <1>2, <2>1, <3>1, ConcatFacts
  <2>2. CASE k \in 1..n
    <3>1. k - 1 \in 0..n /\ k \in 0..n /\ k # n + 1 /\ k - 1 # n + 1
          /\ k - 1 \in 0..(n + 1) /\ k \in 0..(n + 1)
      BY <1>2, <2>2
    <3>2. rest2[k - 1] = rest[k - 1] \o b /\ rest2[k] = rest[k] \o b /\ rest[k] \in Bundle
      BY <3>1
    <3>3. rest[k - 1] = q[k] \o rest[k] /\ q2[k] = q[k] /\ q[k] \in Bundle
      BY <1>1, <1>2, <2>2
    <3>4. (q[k] \o rest[k]) \o b = q[k] \o (rest[k] \o b)
      BY <3>2, <3>3, ConcatFacts
    <3> HIDE DEF rest2
    <3> QED
      BY <3>2, <3>3, <3>4, Zenon
  <2>3. k = n + 1 \/ k \in 1..n
    BY <1>2
  <2> HIDE DEF rest2
  <2> QED
    BY <2>1, <2>2, <2>3
<1> HIDE DEF rest2
<1>6. IsFlat(flat \o b, q2)
    BY <1>2, <1>3, <1>4, <1>5 DEF IsFlat
<1> QED
    BY <1>6 DEF q2

LEMMA FlatTail ==
    ASSUME NEW q \in Seq(Bundle), NEW flat, IsFlat(flat, q), q # <<>>
    PROVE  \E flat2 \in Bundle : IsFlat(flat2, Tail(q)) /\ flat = Head(q) \o flat2
<1> DEFINE n  == Len(q)
           q2 == Tail(q)
<1>1. PICK rest \in [0..n -> Bundle] :
          /\ rest[0] = flat /\ rest[n] = <<>>
          /\ \A k \in 1..n : rest[k - 1] = q[k] \o rest[k]
    BY DEF IsFlat
<1>2. /\ n \in Nat \ {0} /\ Len(q2) = n - 1 /\ Head(q) = q[1]
      /\ \A k \in 1..(n - 1) : q2[k] = q[k + 1]
    BY HeadTailProperties, EmptySeq
<1> DEFINE rest2 == [k \in 0..(n - 1) |-> rest[k + 1]]
<1> HIDE DEF n, q2
<1>3. rest2 \in [0..(n - 1) -> Bundle] /\ rest2[n - 1] = <<>>
    BY <1>1, <1>2
<1>4. rest2[0] = rest[1] /\ rest[1] \in Bundle /\ flat = Head(q) \o rest[1]
  <2>1. 0 \in 0..(n - 1) /\ 1 \in 1..n /\ 1 \in 0..n /\ 1 - 1 = 0 /\ 0 + 1 = 1
    BY <1>2
  <2>2. rest[1 - 1] = q[1] \o rest[1]
    BY <1>1, <2>1
  <2>3. rest2[0] = rest[0 + 1]
    BY <2>1
  <2> QED
    BY <1>1, <1>2, <2>1, <2>2, <2>3
<1>5. ASSUME NEW k \in 1..(n - 1) PROVE rest2[k - 1] = q2[k] \o rest2[k]
  <2>1. k - 1 \in 0..(n - 1) /\ k \in 0..(n - 1) /\ k + 1 \in 1..n /\ (k + 1) - 1 = k
        /\ (k - 1) + 1 = k
    BY <1>2
  <2>2. rest[(k + 1) - 1] = q[k + 1] \o rest[k + 1]
    BY <1>1, <2>1
  <2>3. rest2[k - 1] = rest[k] /\ rest2[k] = rest[k + 1] /\ q2[k] = q[k + 1]
    BY <1>2, <2>1
  <2> QED
    BY <2>1, <2>2, <2>3
<1> HIDE DEF rest2
<1>6. IsFlat(rest[1], q2)
    BY <1>2, <1>3, <1>4, <1>5 DEF IsFlat
<1> QED
    BY <1>4, <1>6 DEF q2

LEMMA FlatFollows ==
    ASSUME NEW q \in Seq(Bundle), NEW flat \in Bundle, IsFlat(flat, q), NEW q2,
           q2 = q \/ (q # <<>> /\ q2 = Tail(q)) \/ \E b \in Bundle : q2 = Append(q, b)
    PROVE  \E flat2 : Follows(q, q2, flat, flat2)
<1>1. /\ Len(q) \in Nat
      /\ q # <<>> => Len(Tail(q)) = Len(q) - 1
      /\ \A b \in Bundle : Len(Append(q, b)) = Len(q) + 1
      /\ \A b, c \in Bundle : Append(q, b) = Append(q, c) => b = c
    BY LenProperties, HeadTailProperties, AppendProperties, AppendInjective
<1>2. ASSUME q2 = q PROVE Follows(q, q2, flat, flat)
    BY <1>1, <1>2 DEF Follows
<1>3. ASSUME q # <<>>, q2 = Tail(q) PROVE \E flat2 : Follows(q, q2, flat, flat2)
  <2>1. PICK flat2 \in Bundle : IsFlat(flat2, Tail(q)) /\ flat = Head(q) \o flat2
    BY <1>3, FlatTail
  <2>2. Len(q2) = Len(q) - 1 /\ q2 # q /\ \A b \in Bundle : q2 # Append(q, b)
    BY <1>1, <1>3
  <2>3. Follows(q, q2, flat, flat2)
    BY <1>3, <2>1, <2>2 DEF Follows
  <2> QED
    BY <2>3
<1>4. ASSUME NEW b \in Bundle, q2 = Append(q, b) PROVE Follows(q, q2, flat, flat \o b)
  <2>1. Len(q2) = Len(q) + 1 /\ q2 # q /\ (q # <<>> => q2 # Tail(q))
    BY <1>1, <1>4
  <2>2. flat \o b \in Bundle /\ IsFlat(flat \o b, q2)
    BY <1>4, FlatAppend, ConcatFacts
  <2> QED
    BY <1>1, <1>4, <2>1, <2>2 DEF Follows
<1> QED
    BY <1>2, <1>3, <1>4

\* The tasks in the two queues after a move.
LEMMA WaitingFollows ==
    ASSUME Base, Move, NEW waiting \in Bundle, IsFlat(waiting, toWork)
    PROVE  \E waiting2 : Follows(toWork, toWork', waiting, waiting2)
<1>1. toWork \in Seq(Bundle) /\ bundle \in Bundle
    BY DEF Base, Shape, PipelineShape, ProducerShape
<1>2. \/ toWork' = toWork \/ (toWork # <<>> /\ toWork' = Tail(toWork))
      \/ \E b \in Bundle : toWork' = Append(toWork, b)
    BY <1>1 DEF Move, ProducerPuts, WorkerGets, WorkerPuts, ConsumerGets, ConsumerDrops,
        Proceeds, Leaves, Stays, pipeline
<1> QED
    BY <1>1, <1>2, FlatFollows

LEMMA ComingFollows ==
    ASSUME Base, Move, NEW coming \in Bundle, IsFlat(coming, toConsume)
    PROVE  \E coming2 : Follows(toConsume, toConsume', coming, coming2)
<1>1. toConsume \in Seq(Bundle)
    BY DEF Base, Shape, PipelineShape
<1>2. \/ toConsume' = toConsume \/ (toConsume # <<>> /\ toConsume' = Tail(toConsume))
      \/ \E b \in Bundle : toConsume' = Append(toConsume, b)
    BY <1>1 DEF Move, ProducerPuts, WorkerGets, WorkerPuts, ConsumerGets, ConsumerDrops,
        Proceeds, Leaves, Stays, pipeline
<1> QED
    BY <1>1, <1>2, FlatFollows

LEMMA WaitingMoves ==
    ASSUME Base, NEW waiting, NEW waiting2, Follows(toWork, toWork', waiting, waiting2)
    PROVE  /\ waiting2 \in Bundle /\ IsFlat(waiting2, toWork)'
           /\ UNCHANGED toWork => waiting2 = waiting
           /\ ProducerPuts => waiting2 = waiting \o bundle
           /\ \A w \in Worker : WorkerGets(w) => waiting = Head(toWork) \o waiting2
<1>1. bundle \in Bundle
    BY DEF Base, Shape, ProducerShape
<1>2. IsFlat(waiting2, toWork)'
    BY DEF Follows, IsFlat
<1> QED
    BY <1>1, <1>2 DEF Follows, ProducerPuts, WorkerGets

LEMMA ComingMoves ==
    ASSUME Base, NEW coming, NEW coming2, Follows(toConsume, toConsume', coming, coming2)
    PROVE  /\ coming2 \in Bundle /\ IsFlat(coming2, toConsume)'
           /\ UNCHANGED toConsume => coming2 = coming
           /\ \A w \in Worker : WorkerPuts(w) => coming2 = coming \o held[w]
           /\ ConsumerGets => coming = Head(toConsume) \o coming2
<1>1. IsFlat(coming2, toConsume)'
    BY DEF Follows, IsFlat
<1> QED
    BY <1>1 DEF Follows, WorkerPuts, ConsumerGets

-----------------------------------------------------------------------------
(* The Compute tasks of a sample in a bundle.                              *)

Hits(x, s) == x.type = "Compute" /\ x.sample = s

LEMMA SlotsFinite ==
    ASSUME NEW b \in Bundle, NEW from, NEW s
    PROVE  IsFiniteSet(Slots(b, from, s)) /\ Cardinality(Slots(b, from, s)) \in Nat
<1>1. Len(b) \in Nat /\ DOMAIN b = 1..Len(b)
    BY LenProperties DEF Bundle
<1>2. IsFiniteSet(1..Len(b)) /\ Slots(b, from, s) \in SUBSET (1..Len(b))
    BY <1>1, FS_Interval DEF Slots
<1> QED
    BY <1>2, SubsetCardinality

LEMMA SlotsNone ==
    ASSUME NEW s
    PROVE  /\ \A from : Slots(<<>>, from, s) = {}
           /\ \A b \in Bundle, from \in Nat : from > Len(b) => Slots(b, from, s) = {}
           /\ Cardinality({}) = 0
<1>1. \A b \in Bundle : Len(b) \in Nat /\ DOMAIN b = 1..Len(b)
    BY LenProperties DEF Bundle
<1> QED
    BY <1>1, FS_EmptySet DEF Slots

LEMMA SlotsAppend ==
    ASSUME NEW b \in Bundle, NEW x \in Task, NEW s
    PROVE  Cardinality(Slots(Append(b, x), 1, s))
               = Cardinality(Slots(b, 1, s)) + (IF Hits(x, s) THEN 1 ELSE 0)
<1> DEFINE longer == Append(b, x)
           last   == Len(b) + 1
<1>1. /\ DOMAIN b = 1..Len(b) /\ Len(b) \in Nat /\ DOMAIN longer = 1..(Len(b) + 1)
      /\ \A k \in 1..Len(b) : longer[k] = b[k]
      /\ longer[last] = x
    BY AppendProperties, LenProperties DEF Bundle
<1> HIDE DEF longer
<1>2. Slots(longer, 1, s) = IF Hits(x, s) THEN Slots(b, 1, s) \cup {last} ELSE Slots(b, 1, s)
    BY <1>1 DEF Slots, Hits
<1>3. last \notin Slots(b, 1, s)
    BY <1>1 DEF Slots
<1>4. Cardinality(Slots(b, 1, s) \cup {last}) = Cardinality(Slots(b, 1, s)) + 1
    BY <1>3, SlotsFinite, FS_AddElement
<1>5. Cardinality(Slots(longer, 1, s))
          = Cardinality(Slots(b, 1, s)) + (IF Hits(x, s) THEN 1 ELSE 0)
  <2>1. Cardinality(Slots(b, 1, s)) \in Nat
    BY SlotsFinite
  <2>2. CASE Hits(x, s)
    BY <1>2, <1>4, <2>2
  <2>3. CASE ~Hits(x, s)
    BY <1>2, <2>1, <2>3
  <2> QED
    BY <2>2, <2>3
<1> QED
    BY <1>5 DEF longer

\* One task further.
LEMMA SlotsNext ==
    ASSUME NEW b \in Bundle, NEW k \in DOMAIN b, NEW s
    PROVE  /\ ~Hits(b[k], s) => Slots(b, k, s) = Slots(b, k + 1, s)
           /\ Cardinality(Slots(b, k, s))
                  = Cardinality(Slots(b, k + 1, s)) + (IF Hits(b[k], s) THEN 1 ELSE 0)
<1>1. Len(b) \in Nat /\ DOMAIN b = 1..Len(b)
    BY LenProperties DEF Bundle
<1>2. /\ Slots(b, k, s) = IF Hits(b[k], s) THEN Slots(b, k + 1, s) \cup {k}
                                           ELSE Slots(b, k + 1, s)
      /\ k \notin Slots(b, k + 1, s)
    BY <1>1 DEF Slots, Hits
<1>3. Cardinality(Slots(b, k + 1, s) \cup {k}) = Cardinality(Slots(b, k + 1, s)) + 1
    BY <1>2, SlotsFinite, FS_AddElement
<1> QED
    BY <1>2, <1>3, SlotsFinite

\* The slots of two bundles, one after the other.
LEMMA SlotsConcat ==
    ASSUME NEW a \in Bundle, NEW b \in Bundle, NEW s
    PROVE  /\ Cardinality(Slots(a \o b, 1, s))
                  = Cardinality(Slots(a, 1, s)) + Cardinality(Slots(b, 1, s))
           /\ Slots(a, 1, s) # {} \/ Slots(b, 1, s) # {} <=> Slots(a \o b, 1, s) # {}
<1> DEFINE both == a \o b
           n    == Len(a)
           A    == Slots(a, 1, s)
           B    == Slots(b, 1, s)
           C    == {k \in Slots(both, 1, s) : k > n}
<1>1. /\ n \in Nat /\ Len(b) \in Nat /\ DOMAIN a = 1..n /\ DOMAIN b = 1..Len(b)
      /\ DOMAIN both = 1..(n + Len(b))
      /\ \A i \in 1..(n + Len(b)) : both[i] = IF i <= n THEN a[i] ELSE b[i - n]
    BY LenProperties, ConcatProperties DEF Bundle
<1> HIDE DEF both, n
<1>2. Slots(both, 1, s) = A \cup C /\ A \cap C = {}
    BY <1>1 DEF Slots
<1>3. \A k \in B : k + n \in C
    BY <1>1 DEF Slots
<1>4. \A k \in C : k - n \in B
    BY <1>1 DEF Slots
<1>5. IsFiniteSet(A) /\ IsFiniteSet(B)
    BY SlotsFinite
<1>6. B \subseteq Int /\ C \subseteq Int
    BY <1>1 DEF Slots
<1> HIDE DEF A, B, C
<1>7. IsFiniteSet(C) /\ Cardinality(C) = Cardinality(B)
  <2> DEFINE shift == [k \in B |-> k + n]
  <2>1. shift \in [B -> C]
    BY <1>3
  <2>2. \A j, k \in B : shift[j] = shift[k] => j = k
    BY <1>1, <1>6
  <2>3. ASSUME NEW k \in C PROVE k - n \in B /\ shift[k - n] = k
    <3>1. k - n \in B /\ shift[k - n] = (k - n) + n
      BY <1>4
    <3> QED
      BY <1>1, <1>6, <3>1
  <2>4. shift \in Injection(B, C) /\ shift \in Surjection(B, C)
    BY <2>1, <2>2, <2>3, Fun_IsInj, Fun_IsSurj
  <2>5. ExistsBijection(B, C)
    BY <2>4 DEF ExistsBijection, Bijection
  <2> QED
    BY <1>5, <2>5, FS_Bijection
<1>8. Cardinality(A \cup C) = Cardinality(A) + Cardinality(B)
    BY <1>2, <1>5, <1>7, Disjoint
<1>9. A # {} \/ B # {} <=> A \cup C # {}
    BY <1>3, <1>4
<1> QED
    BY <1>2, <1>8, <1>9 DEF A, B, both
-----------------------------------------------------------------------------
(* Each task is computed once.                                             *)

LEMMA BundleFacts ==
    ASSUME Base
    PROVE  /\ <<>> \in Bundle /\ bundle \in Bundle
           /\ \A t \in Getter : InHand(t) \in Bundle /\ pos[t] \in Nat \ {0}
           /\ Worker \subseteq Getter /\ Consumer \in Getter
<1>1. <<>> \in Bundle
    BY DEF Bundle
<1> QED
    BY <1>1 DEF Base, Shape, PipelineShape, PositionsShape, ProducerShape, InHand, Getter

LEMMA WorkersFinite ==
    ASSUME Base, NEW s
    PROVE  /\ \A w \in Worker : IsFiniteSet(ToCompute(s)[w])
           /\ InBundle(s) \in Nat /\ AtWorkers(s) \in Nat
<1>1. \A w \in Worker : IsFiniteSet(ToCompute(s)[w])
    BY BundleFacts, SlotsFinite DEF ToCompute
<1>2. AtWorkers(s) \in Nat
    BY <1>1, RolesApart, TokensFinite DEF AtWorkers
<1> QED
    BY <1>1, <1>2, BundleFacts, SlotsFinite DEF InBundle

\* Only w has moved.
LEMMA OneWorkerMoves ==
    ASSUME Base, Base', NEW s, NEW w \in Worker,
           \A v \in Worker \ {w} : held'[v] = held[v] /\ pos'[v] = pos[v]
    PROVE  AtWorkers(s)' = AtWorkers(s) + Cardinality(Slots(InHand(w), pos[w], s))'
                               - Cardinality(Slots(InHand(w), pos[w], s))
<1> DEFINE has  == ToCompute(s)
           has2 == ToCompute(s)'
<1>1. /\ \A v \in Worker : IsFiniteSet(has[v])
      /\ has[w] = Slots(InHand(w), pos[w], s) /\ has2[w] = Slots(InHand(w), pos[w], s)'
      /\ \A v \in Worker \ {w} : has2[v] = has[v]
    BY WorkersFinite DEF ToCompute, InHand
<1>2. IsFiniteSet(has2[w])
  <2>1. InHand(w)' \in Bundle
    BY BundleFacts DEF Base, Shape, PipelineShape, InHand, Getter
  <2>2. Slots(InHand(w), pos[w], s)' = Slots(InHand(w)', pos'[w], s)
    BY DEF Slots
  <2> QED
    BY <1>1, <2>1, <2>2, SlotsFinite
<1>3. /\ AtWorkers(s) = Cardinality(Tokens(Worker, has))
      /\ AtWorkers(s)' = Cardinality(Tokens(Worker, has2))
    BY DEF AtWorkers, Tokens
<1>4. IsFiniteSet(Worker)
    BY RolesApart
<1> HIDE DEF has, has2
<1>5. Cardinality(Tokens(Worker, has2))
          = Cardinality(Tokens(Worker, has)) + Cardinality(has2[w]) - Cardinality(has[w])
  <2>1. \A v \in Worker : IsFiniteSet(has[v])
    BY ONLY <1>1
  <2>2. \A v \in Worker \ {w} : has2[v] = has[v]
    BY ONLY <1>1
  <2> QED
    BY ONLY <1>2, <1>4, <2>1, <2>2, w \in Worker, TokensChange
<1> QED
    BY <1>1, <1>3, <1>5

\* No worker has.
LEMMA NoWorkerMoves ==
    ASSUME NEW s, \A v \in Worker : held'[v] = held[v] /\ pos'[v] = pos[v]
    PROVE  AtWorkers(s)' = AtWorkers(s)
<1>1. ToCompute(s)' = ToCompute(s)
    BY DEF ToCompute, InHand
<1> QED
    BY <1>1 DEF AtWorkers

\* A worker goes past a task: it counts if it is one of s.
LEMMA AtWorkersNext ==
    ASSUME Base, Base', NEW s, NEW w \in Worker, Proceeds(w)
    PROVE  AtWorkers(s)' = AtWorkers(s) - (IF Hits(Current(w), s) THEN 1 ELSE 0)
<1> DEFINE b == held[w]
           k == pos[w]
<1>1. w \in Getter /\ held \in [Getter -> Bundle \cup {NoTask}] /\ pos \in [Getter -> Nat \ {0}]
    BY DEF Base, Shape, PipelineShape, PositionsShape, Getter
<1>2. b \in Bundle /\ k \in DOMAIN b /\ k \in Nat
    BY <1>1, CurrentFacts DEF Proceeds
<1>3. InHand(w) = b /\ InHand(w)' = b /\ pos'[w] = k + 1
    BY <1>1, <1>2, RolesApart DEF InHand, Proceeds, Advance, pipeline
<1>4. \A v \in Worker \ {w} : held'[v] = held[v] /\ pos'[v] = pos[v]
    BY <1>1 DEF Proceeds, Advance, pipeline, Getter
<1>5. AtWorkers(s)' = AtWorkers(s) + Cardinality(Slots(b, k + 1, s))
                          - Cardinality(Slots(b, k, s))
  <2>1. Slots(InHand(w), pos[w], s)' = Slots(b, k + 1, s)
    BY <1>3 DEF Slots
  <2> QED
    BY <1>3, <1>4, <2>1, OneWorkerMoves
<1>6. /\ Cardinality(Slots(b, k, s))
             = Cardinality(Slots(b, k + 1, s)) + (IF Hits(Current(w), s) THEN 1 ELSE 0)
      /\ Cardinality(Slots(b, k + 1, s)) \in Nat
    BY <1>2, SlotsNext, SlotsFinite DEF Current
<1> QED
    BY <1>5, <1>6, WorkersFinite

\* A worker is given a bundle or has put one: what he has at hand counts.
LEMMA AtWorkersGet ==
    ASSUME Base, Base', NEW s, NEW w \in Worker, WorkerGets(w)
    PROVE  AtWorkers(s)' = AtWorkers(s) + Cardinality(Slots(Head(toWork), 1, s))
<1>1. w \in Getter /\ held \in [Getter -> Bundle \cup {NoTask}] /\ pos[w] = 1
      /\ Head(toWork) \in Bundle
    BY DEF Base, Shape, PipelineShape, PositionsShape, Getter, WorkerGets
<1>2. InHand(w) = <<>> /\ InHand(w)' = Head(toWork) /\ pos'[w] = 1
    BY <1>1, RolesApart DEF InHand, WorkerGets
<1>3. \A v \in Worker \ {w} : held'[v] = held[v] /\ pos'[v] = pos[v]
    BY <1>1 DEF WorkerGets, Getter
<1>4. Slots(InHand(w), pos[w], s)' = Slots(Head(toWork), 1, s)
    BY <1>2 DEF Slots
<1>5. AtWorkers(s)' = AtWorkers(s) + Cardinality(Slots(Head(toWork), 1, s)) - 0
  <2>1. Slots(InHand(w), pos[w], s) = {} /\ Cardinality({}) = 0
    BY <1>2, SlotsNone
  <2>2. AtWorkers(s)' = AtWorkers(s) + Cardinality(Slots(InHand(w), pos[w], s))'
                            - Cardinality(Slots(InHand(w), pos[w], s))
    BY <1>3, OneWorkerMoves
  <2> QED
    BY <1>4, <2>1, <2>2
<1> QED
    BY <1>1, <1>5, WorkersFinite, SlotsFinite

LEMMA AtWorkersPut ==
    ASSUME Base, Base', NEW s, NEW w \in Worker, WorkerPuts(w)
    PROVE  AtWorkers(s)' = AtWorkers(s)
<1>1. /\ w \in Getter /\ held \in [Getter -> Bundle \cup {NoTask}]
      /\ pos \in [Getter -> Nat \ {0}] /\ held[w] \in Bundle
    BY DEF Base, Shape, PipelineShape, PositionsShape, Getter, WorkerPuts
<1>2. InHand(w) = held[w] /\ InHand(w)' = <<>> /\ pos[w] > Len(held[w]) /\ pos[w] \in Nat
    BY <1>1, RolesApart DEF InHand, WorkerPuts
<1>3. \A v \in Worker \ {w} : held'[v] = held[v] /\ pos'[v] = pos[v]
    BY <1>1 DEF WorkerPuts, Restart, Getter
<1>4. Slots(InHand(w), pos[w], s) = {} /\ Slots(InHand(w), pos[w], s)' = {}
  <2>1. Slots(InHand(w), pos[w], s)' = Slots(InHand(w)', pos'[w], s)
    BY DEF Slots
  <2> QED
    BY <1>1, <1>2, <2>1, SlotsNone
<1>5. AtWorkers(s)' = AtWorkers(s) + 0 - 0
    BY <1>3, <1>4, OneWorkerMoves, SlotsNone
<1> QED
    BY <1>5, WorkersFinite

LEMMA EachComputedOnceInit == Init => EachComputedOnce(<<>>)
<1> SUFFICES ASSUME Init, NEW s \in Sample
    PROVE  computed[s] + InBundle(s) + InQueue(<<>>, s) + AtWorkers(s) = Made(s)
    BY DEF EachComputedOnce
<1>1. computed[s] = 0 /\ Made(s) = 0
    BY DEF Init, Made
<1>2. InBundle(s) = 0 /\ InQueue(<<>>, s) = 0
    BY SlotsNone DEF Init, InBundle, InQueue
<1>3. AtWorkers(s) = 0
  <2>1. \A w \in Worker : ToCompute(s)[w] = {}
    BY SlotsNone DEF Init, Pipeline!Init, ToCompute, InHand
  <2> QED
    BY <2>1, TokensNone DEF AtWorkers
<1> QED
    BY <1>1, <1>2, <1>3

LEMMA EachComputedOnceStep ==
    ASSUME Base, [Next]_vars, NEW waiting \in Bundle, NEW waiting2,
           Follows(toWork, toWork', waiting, waiting2), EachComputedOnce(waiting)
    PROVE  EachComputedOnce(waiting2)'
<1> SUFFICES ASSUME NEW s \in Sample
    PROVE  computed'[s] + InBundle(s)' + InQueue(waiting2, s) + AtWorkers(s)' = Made(s)'
    BY DEF EachComputedOnce, InQueue, Slots
<1> DEFINE queued  == InQueue(waiting, s)
           queued2 == InQueue(waiting2, s)
<1> USE RolesApart
<1>0. /\ Base' /\ option' = option /\ option.samples \in SUBSET Sample
      /\ computed \in [Sample -> Nat] /\ ProducerShape
      /\ computed[s] + InBundle(s) + queued + AtWorkers(s) = Made(s)
      /\ InBundle(s) \in Nat /\ AtWorkers(s) \in Nat
      /\ queued \in Nat /\ queued2 \in Nat /\ computed[s] \in Nat
      /\ waiting2 \in Bundle
    BY BaseStep, OptionKept, OptionFacts, WorkersFinite, SlotsFinite, WaitingMoves
        DEF Base, Shape, ResultsShape, ProducerShape, EachComputedOnce, InQueue
\* What does not change leaves the sums alone.
<1>1. /\ UNCHANGED toWork => queued2 = queued
      /\ UNCHANGED bundle => InBundle(s)' = InBundle(s)
      /\ UNCHANGED <<held, pos>> => AtWorkers(s)' = AtWorkers(s)
      /\ UNCHANGED making => Made(s)' = Made(s)
  <2>1. UNCHANGED toWork => queued2 = queued
    BY WaitingMoves
  <2> QED
    BY <1>0, <2>1, NoWorkerMoves DEF InBundle, Slots, Made, making
<1>2. ASSUME ProducerPuts, UNCHANGED computed, Made(s)' = Made(s)
      PROVE  computed'[s] + InBundle(s)' + queued2 + AtWorkers(s)' = Made(s)'
  <2>1. waiting2 = waiting \o bundle /\ bundle \in Bundle /\ bundle' = <<>>
    BY <1>0, <1>2, WaitingMoves DEF ProducerPuts, ProducerShape
  <2>2. queued2 = queued + InBundle(s)
    BY <2>1, SlotsConcat DEF InQueue, InBundle
  <2>3. InBundle(s)' = 0
    BY <2>1, SlotsNone DEF InBundle, Slots
  <2>4. AtWorkers(s)' = AtWorkers(s)
    BY <1>1, <1>2 DEF ProducerPuts
  <2> QED
    BY <1>0, <1>2, <2>2, <2>4, <2>3
<1>3. CASE PutFullBundle \/ PutLastBundle
  <2>1. ProducerPuts /\ UNCHANGED computed
    BY <1>3, PutMoves DEF PutFullBundle, PutLastBundle, results
  <2>2. Made(s)' = Made(s)
    BY <1>0, <1>3 DEF PutFullBundle, PutLastBundle, Made
  <2> QED
    BY <1>2, <2>1, <2>2
<1>4. ASSUME NEW u \in Sample, AddComputeTask(u)
      PROVE  computed'[s] + InBundle(s)' + queued2 + AtWorkers(s)' = Made(s)'
  <2>1. ComputeTask(u, iter) \in Task /\ (Hits(ComputeTask(u, iter), s) <=> u = s)
    BY <1>0, <1>4, TaskFacts DEF AddComputeTask, ProducerShape, Hits
  <2>2. InBundle(s)' = InBundle(s) + (IF u = s THEN 1 ELSE 0)
    <3>1. Slots(bundle, 1, s)' = Slots(Append(bundle, ComputeTask(u, iter)), 1, s)
      BY <1>4 DEF AddComputeTask, Slots
    <3> QED
      BY <2>1, <3>1, SlotsAppend, BundleFacts DEF InBundle
  <2>3. Made(s)' = Made(s) + (IF u = s THEN 1 ELSE 0)
    BY <1>0, <1>4 DEF AddComputeTask, Made, ProducerShape
  <2>4. UNCHANGED <<toWork, held, pos, computed>>
    BY <1>4 DEF AddComputeTask, pipeline, results
  <2> QED
    BY <1>0, <1>1, <2>2, <2>3, <2>4
<1>5. CASE EndIteration
  <2>1. MonitorTask(iter) \in Task /\ ~Hits(MonitorTask(iter), s)
    BY <1>0, <1>5, TaskFacts DEF EndIteration, ProducerShape, Hits
  <2>2. InBundle(s)' = InBundle(s)
    <3>1. CASE bundle' = bundle
      BY <1>1, <3>1
    <3>2. CASE bundle' = Append(bundle, MonitorTask(iter))
      <4>1. Slots(bundle, 1, s)' = Slots(Append(bundle, MonitorTask(iter)), 1, s)
        BY <3>2 DEF Slots
      <4> QED
        BY <1>0, <2>1, <4>1, SlotsAppend, BundleFacts DEF InBundle
    <3> QED
      BY <1>5, <3>1, <3>2 DEF EndIteration
  <2>3. Made(s)' = Made(s)
    BY <1>0, <1>5 DEF EndIteration, Made, ProducerShape
  <2>4. UNCHANGED <<toWork, held, pos, computed>>
    BY <1>5 DEF EndIteration, pipeline, results
  <2> QED
    BY <1>0, <1>1, <2>2, <2>3, <2>4
<1>6. ASSUME NEW w \in Worker, WorkerGetTask(w)
      PROVE  computed'[s] + InBundle(s)' + queued2 + AtWorkers(s)' = Made(s)'
  <2>1. WorkerGets(w) /\ UNCHANGED <<making, computed, bundle>>
    BY <1>6, GetMoves DEF WorkerGetTask, making, results
  <2>2. waiting = Head(toWork) \o waiting2 /\ Head(toWork) \in Bundle
    BY <2>1, WaitingMoves DEF WorkerGets
  <2>3. queued = Cardinality(Slots(Head(toWork), 1, s)) + queued2
        /\ Cardinality(Slots(Head(toWork), 1, s)) \in Nat
    BY <1>0, <2>2, SlotsConcat, SlotsFinite DEF InQueue
  <2>4. AtWorkers(s)' = AtWorkers(s) + Cardinality(Slots(Head(toWork), 1, s))
    BY <1>0, <2>1, AtWorkersGet
  <2> QED
    BY <1>0, <1>1, <2>1, <2>3, <2>4
<1>7. ASSUME NEW w \in Worker, WorkerComputes(w)
      PROVE  computed'[s] + InBundle(s)' + queued2 + AtWorkers(s)' = Made(s)'
  <2>1. Current(w).sample \in Sample /\ Current(w).type = "Compute"
    BY <1>0, <1>7, CurrentFacts DEF WorkerComputes, At, Getter
  <2>2. computed'[s] = computed[s] + (IF Hits(Current(w), s) THEN 1 ELSE 0)
    BY <1>0, <1>7, <2>1 DEF WorkerComputes, Hits
  <2>3. AtWorkers(s)' = AtWorkers(s) - (IF Hits(Current(w), s) THEN 1 ELSE 0)
    BY <1>0, <1>7, TaskMoves, AtWorkersNext
  <2>4. UNCHANGED <<toWork, bundle, making>>
    BY <1>7 DEF WorkerComputes, pipeline, making
  <2> QED
    BY <1>0, <1>1, <2>2, <2>3, <2>4
<1>8. ASSUME NEW w \in Worker, WorkerSkips(w) \/ FinishReport(w)
      PROVE  computed'[s] + InBundle(s)' + queued2 + AtWorkers(s)' = Made(s)'
  <2>1. Current(w).type = "Monitor"
    BY <1>8 DEF WorkerSkips, FinishReport, At, Base, ReportersAreAtMonitors
  <2>2. AtWorkers(s)' = AtWorkers(s)
    BY <1>0, <1>8, <2>1, TaskMoves, AtWorkersNext DEF Hits
  <2>3. UNCHANGED <<toWork, bundle, making, computed>>
    BY <1>8 DEF WorkerSkips, FinishReport, pipeline, making, results
  <2> QED
    BY <1>0, <1>1, <2>2, <2>3
<1>9. ASSUME NEW w \in Worker, WorkerPutTask(w)
      PROVE  computed'[s] + InBundle(s)' + queued2 + AtWorkers(s)' = Made(s)'
  <2>1. WorkerPuts(w) /\ UNCHANGED <<toWork, bundle, making, computed>>
    BY <1>9, WorkerPutMoves DEF WorkerPutTask, WorkerPuts, making, results
  <2> QED
    BY <1>0, <1>1, <2>1, AtWorkersPut
\* The consumer's moves are none of the workers'.
<1>10. ASSUME UNCHANGED <<toWork, bundle, making, computed>>,
              \A w \in Worker : held'[w] = held[w] /\ pos'[w] = pos[w]
       PROVE  computed'[s] + InBundle(s)' + queued2 + AtWorkers(s)' = Made(s)'
    BY <1>0, <1>1, <1>10, NoWorkerMoves
<1>11. CASE ConsumerRun
  <2>1. UNCHANGED <<making, computed>>
    BY <1>11 DEF ConsumerRun, ConsumerGetTask, ConsumerStores, ConsumerReports, StartReport,
        FinishReport, ConsumerDropTask, ConsumerDone, results, making
  <2>2. ConsumerGets \/ ConsumerDrops \/ Proceeds(Consumer) \/ Leaves(Consumer) \/ Stays
    BY <1>11, ConsumerGetMoves, DropMoves, TaskMoves, LeaveMoves, StayMoves
        DEF ConsumerRun, ConsumerReports
  <2>3. UNCHANGED toWork /\ \A w \in Worker : held'[w] = held[w] /\ pos'[w] = pos[w]
    BY <2>2 DEF ConsumerGets, ConsumerDrops, Restart, Proceeds, Advance, Leaves, Stays,
        pipeline, Base, Shape, PipelineShape, PositionsShape, Getter
  <2> QED
    BY <1>10, <2>1, <2>3 DEF making
<1>12. CASE UNCHANGED <<toWork, held, pos, bundle, computed>> /\ Made(s)' = Made(s)
    BY <1>0, <1>1, <1>12
<1>13. /\ ProducerDone => UNCHANGED <<toWork, held, pos, bundle, computed>> /\ Made(s)' = Made(s)
       /\ \A w : WorkerDone(w) \/ StartReport(w)
             => UNCHANGED <<toWork, held, pos, bundle, computed>> /\ Made(s)' = Made(s)
       /\ MonitorEnds \/ MonitorSleeps \/ Finished \/ UNCHANGED vars
             => UNCHANGED <<toWork, held, pos, bundle, computed>> /\ Made(s)' = Made(s)
    BY <1>0 DEF ProducerDone, Pipeline!ProducerDone, WorkerDone, Pipeline!WorkerDone,
        StartReport, MonitorEnds, MonitorSleeps, Finished, vars, pipeline, making, results,
        Made
<1> QED
    BY <1>3, <1>4, <1>5, <1>6, <1>7, <1>8, <1>9, <1>11, <1>12, <1>13
        DEF Next, ProducerRun, WorkerRun, WorkerReports

Counted ==
    /\ Base
    /\ \E waiting \in Bundle : IsFlat(waiting, toWork) /\ EachComputedOnce(waiting)

LEMMA CountedHolds == Spec => []Counted
<1>1. Init => Counted
  <2>1. Init => IsFlat(<<>>, toWork) /\ <<>> \in Bundle
    BY FlatOfNone, ConcatFacts DEF Init, Pipeline!Init
  <2> QED
    BY <2>1, BaseInit, EachComputedOnceInit DEF Counted
<1>2. Counted /\ [Next]_vars => Counted'
  <2> SUFFICES ASSUME Base, [Next]_vars, NEW waiting \in Bundle,
                      IsFlat(waiting, toWork), EachComputedOnce(waiting)
      PROVE  Counted'
    BY DEF Counted
  <2>1. PICK waiting2 : Follows(toWork, toWork', waiting, waiting2)
    BY NextMoves, WaitingFollows
  <2>2. waiting2 \in Bundle /\ IsFlat(waiting2, toWork)' /\ EachComputedOnce(waiting2)'
    BY <2>1, WaitingMoves, EachComputedOnceStep
  <2>3. Base'
    BY BaseStep
  <2> QED
    BY <2>2, <2>3 DEF Counted
<1> QED
    BY <1>1, <1>2, PTL DEF Spec

(* The fields keep their types: no task is of an iteration or a sample     *)
(* that does not exist, nobody is beyond the end of his bundle, and no     *)
(* sample is computed more often than there are iterations.                *)
THEOREM TypeCorrect == Spec => []TypeOK
<1>1. Counted => TypeOK
  <2> SUFFICES ASSUME Base, NEW waiting \in Bundle, EachComputedOnce(waiting) PROVE TypeOK
    BY DEF Counted
  <2>0. /\ PipelineShape /\ PositionsShape /\ TasksShape /\ ProducerShape /\ ResultsShape
        /\ option.iterations \in Nat /\ option.samples \in SUBSET Sample
    BY OptionFacts DEF Base, Shape, ProducerShape
  <2>1. \A t \in Worker \cup {Consumer} : held[t] # NoTask =>
            held[t] \in Bundle /\ WellFormed(held[t]) /\ pos[t] \in 1..(Len(held[t]) + 1)
    <3> SUFFICES ASSUME NEW t \in Worker \cup {Consumer}, held[t] # NoTask
        PROVE  held[t] \in Bundle /\ WellFormed(held[t]) /\ pos[t] \in 1..(Len(held[t]) + 1)
      OBVIOUS
    <3>1. held[t] \in Bundle /\ held[t] \in OnTheirWay
      BY <2>0 DEF PipelineShape, OnTheirWay, Getter
    <3>2. pos[t] \in Nat \ {0} /\ pos[t] <= Len(held[t]) + 1 /\ Len(held[t]) \in Nat
      BY <2>0, <3>1, LenProperties DEF PositionsShape, Getter, Bundle
    <3> QED
      BY <2>0, <3>1, <3>2 DEF TasksShape
  <2>2. reporting \subseteq Worker \cup {Consumer}
    BY DEF Base, ReportersAreAtMonitors, Getter
  <2>3. iter \in 0..option.iterations /\ bundle \in Bundle /\ WellFormed(bundle)
    BY <2>0 DEF ProducerShape, TasksShape
  <2>4. computed \in [Sample -> 0..option.iterations]
    <3>1. ASSUME NEW s \in Sample PROVE computed[s] \in 0..option.iterations
      <4>1. /\ computed[s] \in Nat /\ InBundle(s) \in Nat /\ InQueue(waiting, s) \in Nat
            /\ AtWorkers(s) \in Nat
            /\ computed[s] + InBundle(s) + InQueue(waiting, s) + AtWorkers(s) = Made(s)
        BY <2>0, WorkersFinite, SlotsFinite DEF EachComputedOnce, ResultsShape, InQueue
      <4>2. Made(s) \in 0..option.iterations
        BY <2>0, <2>3 DEF Made, ProducerShape
      <4> QED
        BY <2>0, <4>1, <4>2
    <3> QED
      BY <2>0, <3>1 DEF ResultsShape
  <2> QED
    BY <2>0, <2>1, <2>2, <2>3, <2>4
        DEF TypeOK, PipelineShape, ProducerShape, ResultsShape, Getter
<1> QED
    BY <1>1, CountedHolds, PTL

-----------------------------------------------------------------------------
(* The progress of a similarity counts every pair.                         *)

LEMMA DomainFacts ==
    /\ \A b \in Bundle : /\ IsFiniteSet(DOMAIN b) /\ Cardinality(DOMAIN b) = Len(b)
                         /\ Len(b) \in Nat
    /\ Len(<<>>) = 0 /\ Cardinality({}) = 0
<1>1. ASSUME NEW b \in Bundle
      PROVE  IsFiniteSet(DOMAIN b) /\ Cardinality(DOMAIN b) = Len(b) /\ Len(b) \in Nat
  <2>1. Len(b) \in Nat /\ DOMAIN b = 1..Len(b)
    BY LenProperties DEF Bundle
  <2>2. IsFiniteSet(1..Len(b))
        /\ Cardinality(1..Len(b)) = IF 1 > Len(b) THEN 0 ELSE Len(b) - 1 + 1
    BY <2>1, FS_Interval, 1 \in Int
  <2> QED
    BY <2>1, <2>2
<1> QED
    BY <1>1, FS_EmptySet

LEMMA HeldFinite ==
    ASSUME Base
    PROVE  /\ \A w \in Worker : IsFiniteSet(InHands[w])
           /\ HeldByWorkers \in Nat
<1>1. \A w \in Worker : IsFiniteSet(InHands[w])
    BY BundleFacts, DomainFacts DEF InHands
<1> QED
    BY <1>1, RolesApart, TokensFinite DEF HeldByWorkers

LEMMA OneWorkerHolds ==
    ASSUME Base, NEW w \in Worker, NEW b \in Bundle, InHand(w)' = b,
           \A v \in Worker \ {w} : held'[v] = held[v]
    PROVE  HeldByWorkers' = HeldByWorkers + Len(b) - Len(InHand(w))
<1>1. /\ \A v \in Worker : IsFiniteSet(InHands[v])
      /\ InHands[w] = DOMAIN InHand(w) /\ InHands'[w] = DOMAIN b
      /\ \A v \in Worker \ {w} : InHands'[v] = InHands[v]
    BY HeldFinite DEF InHands, InHand
<1>2. IsFiniteSet(InHands'[w]) /\ Cardinality(InHands'[w]) = Len(b)
      /\ Cardinality(InHands[w]) = Len(InHand(w))
    BY <1>1, BundleFacts, DomainFacts
<1>3. HeldByWorkers' = HeldByWorkers + Cardinality(InHands'[w]) - Cardinality(InHands[w])
    BY <1>1, <1>2, RolesApart, TokensChange DEF HeldByWorkers
<1> QED
    BY <1>2, <1>3

LEMMA NoWorkerHolds ==
    ASSUME \A v \in Worker : held'[v] = held[v]
    PROVE  HeldByWorkers' = HeldByWorkers
<1>1. InHands' = InHands
    BY DEF InHands, InHand
<1> QED
    BY <1>1 DEF HeldByWorkers

LEMMA PairsAreCountedInit == Init => PairsAreCounted(<<>>, <<>>)
<1> SUFFICES ASSUME Init PROVE PairsAreCounted(<<>>, <<>>)
    OBVIOUS
<1>1. bundle = <<>> /\ \A t \in Getter : InHand(t) = <<>>
    BY DEF Init, Pipeline!Init, InHand, Getter
<1>2. HeldByWorkers = 0
  <2>1. \A w \in Worker : InHands[w] = {}
    BY <1>1 DEF Getter, InHands
  <2> QED
    BY <2>1, TokensNone DEF HeldByWorkers
<1>3. option.samples \ unmade = {} /\ processed = 0 /\ InHand(Consumer) = <<>>
    BY <1>1 DEF Init, Getter
<1>4. processed + Len(bundle) + Len(<<>>) + HeldByWorkers + Len(<<>>) + Len(InHand(Consumer)) = 0
    BY <1>1, <1>2, <1>3, DomainFacts
<1>5. Cardinality(option.samples \ unmade) = 0
    BY <1>3, DomainFacts
<1> QED
    BY <1>4, <1>5 DEF PairsAreCounted

LEMMA PairsAreCountedStep ==
    ASSUME Base, [Next]_vars,
           NEW waiting \in Bundle, NEW waiting2, NEW coming \in Bundle, NEW coming2,
           Follows(toWork, toWork', waiting, waiting2),
           Follows(toConsume, toConsume', coming, coming2), PairsAreCounted(waiting, coming)
    PROVE  PairsAreCounted(waiting2, coming2)'
<1> DEFINE counted  == processed + Len(bundle) + Len(waiting) + HeldByWorkers
                           + Len(coming) + Len(InHand(Consumer))
           counted2 == processed' + Len(bundle') + Len(waiting2) + HeldByWorkers'
                           + Len(coming2) + Len(InHand(Consumer)')
           made     == Cardinality(option.samples \ unmade)
<1> SUFFICES ASSUME Similarity PROVE counted2 = made'
    BY OptionKept DEF PairsAreCounted, Similarity
<1> USE RolesApart
<1>0. /\ Base' /\ option' = option /\ ProducerShape /\ Move
      /\ option.samples \in SUBSET Sample /\ IsFiniteSet(Sample)
      /\ option.iterations = 1 /\ option.step = 0
      /\ counted = made /\ processed \in Nat
      /\ Len(bundle) \in Nat /\ Len(waiting) \in Nat /\ HeldByWorkers \in Nat
      /\ Len(coming) \in Nat /\ Len(InHand(Consumer)) \in Nat
      /\ Len(waiting2) \in Nat /\ Len(coming2) \in Nat
      /\ held \in [Getter -> Bundle \cup {NoTask}] /\ Consumer \in Getter
      /\ Worker \subseteq Getter
    BY BaseStep, OptionKept, OptionFacts, BundleFacts, HeldFinite, DomainFacts, NextMoves,
       BundleAssumption, WaitingMoves, ComingMoves
        DEF Base, Shape, ResultsShape, ProducerShape, PairsAreCounted, PipelineShape
\* What does not change leaves the summands alone.
<1>1. /\ UNCHANGED toWork => Len(waiting2) = Len(waiting)
      /\ UNCHANGED toConsume => Len(coming2) = Len(coming)
      /\ UNCHANGED bundle => Len(bundle') = Len(bundle)
      /\ held'[Consumer] = held[Consumer] => Len(InHand(Consumer)') = Len(InHand(Consumer))
      /\ (\A w \in Worker : held'[w] = held[w]) => HeldByWorkers' = HeldByWorkers
      /\ UNCHANGED unmade => made' = made
  <2>1. /\ UNCHANGED toWork => waiting2 = waiting
        /\ UNCHANGED toConsume => coming2 = coming
    BY WaitingMoves, ComingMoves
  <2> QED
    BY <1>0, <2>1, NoWorkerHolds DEF InHand
\* Lengths add up.
<1>2. \A a, b \in Bundle : Len(a \o b) = Len(a) + Len(b) /\ Len(a) \in Nat
    BY ConcatProperties, LenProperties DEF Bundle
<1>3. CASE PutFullBundle \/ PutLastBundle
  <2>1. ProducerPuts /\ UNCHANGED <<processed, unmade>>
    BY <1>3, PutMoves DEF PutFullBundle, PutLastBundle, results
  <2>2. bundle' = <<>> /\ Len(waiting2) = Len(waiting) + Len(bundle)
    BY <1>0, <1>2, <2>1, WaitingMoves DEF ProducerPuts, ProducerShape
  <2>3. /\ HeldByWorkers' = HeldByWorkers /\ made' = made
        /\ Len(coming2) = Len(coming)
        /\ Len(InHand(Consumer)') = Len(InHand(Consumer))
    BY <1>1, <2>1 DEF ProducerPuts
  <2> QED
    BY <1>0, <2>1, <2>2, <2>3, DomainFacts
<1>4. ASSUME NEW u \in Sample, AddComputeTask(u) PROVE counted2 = made'
  <2>1. Len(bundle') = Len(bundle) + 1
    BY <1>0, <1>4, TaskFacts, BundleFacts, AppendProperties
        DEF AddComputeTask, ProducerShape, Bundle
  <2>2. made' = made + 1
    <3>1. option.samples \ unmade' = (option.samples \ unmade) \cup {u}
      BY <1>0, <1>4 DEF AddComputeTask, ProducerShape
    <3>2. IsFiniteSet(option.samples \ unmade)
      BY <1>0, FS_Subset
    <3>3. u \notin option.samples \ unmade
      BY <1>4 DEF AddComputeTask
    <3>4. Cardinality((option.samples \ unmade) \cup {u}) = made + 1
      BY <3>2, <3>3, FS_AddElement
    <3> QED
      BY <1>0, <3>1, <3>4
  <2>3. UNCHANGED <<pipeline, processed>>
    BY <1>4 DEF AddComputeTask, results
  <2>4. /\ Len(waiting2) = Len(waiting) /\ HeldByWorkers' = HeldByWorkers
        /\ Len(InHand(Consumer)') = Len(InHand(Consumer))
        /\ Len(coming2) = Len(coming)
    BY <1>1, <2>3 DEF pipeline
  <2>5. counted2 = counted + 1
    BY <1>0, <2>1, <2>3, <2>4
  <2> QED
    BY <1>0, <2>2, <2>5
<1>5. CASE EndIteration
  <2>1. UNCHANGED <<bundle, unmade, pipeline, processed>>
    BY <1>0, <1>5 DEF EndIteration, Monitored, Last, results, ProducerShape
  <2> QED
    BY <1>0, <1>1, <2>1 DEF pipeline
<1>6. ASSUME NEW w \in Worker, WorkerGetTask(w) PROVE counted2 = made'
  <2>1. WorkerGets(w) /\ UNCHANGED <<processed, unmade>>
    BY <1>6, GetMoves DEF WorkerGetTask, making, results
  <2>2. /\ InHand(w) = <<>> /\ InHand(w)' = Head(toWork) /\ Head(toWork) \in Bundle
        /\ held'[Consumer] = held[Consumer]
        /\ \A v \in Worker \ {w} : held'[v] = held[v]
    BY <1>0, <2>1 DEF WorkerGets, InHand
  <2>3. HeldByWorkers' = HeldByWorkers + Len(Head(toWork)) - 0
    BY <2>2, OneWorkerHolds, DomainFacts
  <2>4. Len(waiting) = Len(Head(toWork)) + Len(waiting2) /\ Len(Head(toWork)) \in Nat
    BY <1>2, <2>1, <2>2, WaitingMoves
  <2>5. HeldByWorkers' \in Nat /\ Len(waiting) = (HeldByWorkers' - HeldByWorkers) + Len(waiting2)
    BY <1>0, <2>3, <2>4
  <2>6. /\ Len(coming2) = Len(coming) /\ made' = made
        /\ Len(InHand(Consumer)') = Len(InHand(Consumer)) /\ Len(bundle') = Len(bundle)
        /\ processed' = processed
    BY <1>1, <2>1, <2>2 DEF WorkerGets
  <2>7. /\ processed \in Nat /\ Len(bundle) \in Nat /\ Len(waiting) \in Nat
        /\ HeldByWorkers \in Nat /\ Len(waiting2) \in Nat /\ Len(coming) \in Nat
        /\ Len(InHand(Consumer)) \in Nat
    BY <1>0
  <2>8. processed + Len(bundle) + Len(waiting2) + HeldByWorkers'
            = processed + Len(bundle) + Len(waiting) + HeldByWorkers
    <3> DEFINE others == processed + Len(bundle)
    <3>1. others \in Nat
      BY ONLY <2>7
    <3> HIDE DEF others
    <3>2. others + Len(waiting2) + HeldByWorkers' = others + Len(waiting) + HeldByWorkers
      BY ONLY <2>5, <2>7, <3>1
    <3> QED
      BY ONLY <3>2 DEF others
  <2> QED
    BY <1>0, <2>6, <2>8
<1>7. ASSUME NEW w \in Worker, WorkerPutTask(w) PROVE counted2 = made'
  <2>1. WorkerPuts(w) /\ UNCHANGED <<processed, unmade>>
    BY <1>7, WorkerPutMoves DEF WorkerPutTask, making, results
  <2>2. /\ InHand(w) = held[w] /\ InHand(w) \in Bundle /\ InHand(w)' = <<>>
        /\ held'[Consumer] = held[Consumer]
        /\ \A v \in Worker \ {w} : held'[v] = held[v]
    BY <1>0, <2>1 DEF WorkerPuts, InHand
  <2>3. HeldByWorkers' = HeldByWorkers + 0 - Len(InHand(w)) /\ Len(InHand(w)) \in Nat
    BY <2>2, OneWorkerHolds, BundleFacts, DomainFacts
  <2>4. /\ Len(waiting2) = Len(waiting) /\ made' = made
        /\ Len(InHand(Consumer)') = Len(InHand(Consumer)) /\ Len(bundle') = Len(bundle)
    BY <1>1, <2>1, <2>2 DEF WorkerPuts
  <2>5. Len(coming2) = Len(coming) + Len(InHand(w))
    BY <1>2, <2>1, <2>2, ComingMoves
  <2> QED
    BY <1>0, <2>1, <2>3, <2>4, <2>5
<1>8. CASE ConsumerGetTask
  <2>1. ConsumerGets /\ UNCHANGED <<processed, unmade>>
    BY <1>8, ConsumerGetMoves DEF ConsumerGetTask, making, results
  <2>2. /\ InHand(Consumer) = <<>> /\ Head(toConsume) \in Bundle
        /\ InHand(Consumer)' = Head(toConsume)
        /\ \A v \in Worker : held'[v] = held[v]
    BY <1>0, <2>1 DEF ConsumerGets, InHand
  <2>3. /\ Len(waiting2) = Len(waiting) /\ made' = made
        /\ HeldByWorkers' = HeldByWorkers /\ Len(bundle') = Len(bundle)
    BY <1>1, <2>1, <2>2 DEF ConsumerGets
  <2>4. Len(coming) = Len(InHand(Consumer)') + Len(coming2)
    BY <1>2, <2>1, <2>2, ComingMoves
  <2>5. Len(InHand(Consumer)) = 0 /\ Len(InHand(Consumer)') \in Nat
    BY <2>2, DomainFacts
  <2> QED
    BY <1>0, <2>1, <2>3, <2>4, <2>5
<1>9. CASE ConsumerDropTask
  <2>1. ConsumerDrops /\ UNCHANGED unmade
    BY <1>9, DropMoves DEF ConsumerDropTask, making
  <2>2. /\ InHand(Consumer)' = <<>> /\ InHand(Consumer) = held[Consumer]
        /\ \A v \in Worker : held'[v] = held[v]
    BY <1>0, <2>1 DEF ConsumerDrops, InHand
  <2>3. processed' = processed + Len(InHand(Consumer))
    BY <1>9, <2>2 DEF ConsumerDropTask, CountBundle
  <2>4. /\ Len(waiting2) = Len(waiting) /\ made' = made
        /\ HeldByWorkers' = HeldByWorkers /\ Len(bundle') = Len(bundle)
        /\ Len(coming2) = Len(coming)
    BY <1>1, <2>1, <2>2 DEF ConsumerDrops
  <2> QED
    BY <1>0, <2>2, <2>3, <2>4, DomainFacts
<1>10. CASE UNCHANGED <<toWork, toConsume, held, bundle, unmade, processed>>
    BY <1>0, <1>1, <1>10
<1> QED
    BY <1>3, <1>4, <1>5, <1>6, <1>7, <1>8, <1>9, <1>10
        DEF Next, vars, making, results, pipeline, ProducerRun, ProducerDone,
            Pipeline!ProducerDone, WorkerRun, WorkerComputes, WorkerSkips, WorkerReports,
            StartReport, FinishReport, WorkerDone, Pipeline!WorkerDone, ConsumerRun,
            ConsumerStores, ConsumerReports, ConsumerDone, Pipeline!ConsumerDone,
            MonitorEnds, MonitorSleeps, Finished

-----------------------------------------------------------------------------
(* A result that is not stored is on its way to the consumer.              *)

Unstored(s) == computed[s] > 0 /\ losses[s] = Never

PastAt(w, s)  == \E k \in Slots(InHand(w), 1, s) : k < pos[w]
OnItsWay(coming, s) ==
    /\ ~WorkersStore
    /\ \/ \E w \in Worker : PastAt(w, s)
       \/ Slots(coming, 1, s) # {}
       \/ Slots(InHand(Consumer), pos[Consumer], s) # {}

LEMMA ComputedIsStoredInit == Init => ComputedIsStored(<<>>)
BY OptionFacts DEF Init, ComputedIsStored

\* The positions only grow while a bundle is in the hand.
LEMMA ResultsMove ==
    ASSUME Base, Base', Move, NEW s, option' = option, NEW coming \in Bundle, NEW coming2,
           Follows(toConsume, toConsume', coming, coming2), OnItsWay(coming, s)
    PROVE  \/ OnItsWay(coming2, s)'
           \/ ConsumerDrops /\ Slots(InHand(Consumer), pos[Consumer], s) # {}
           \/ Proceeds(Consumer) /\ Hits(Current(Consumer), s)
<1> USE RolesApart
<1>0. /\ held \in [Getter -> Bundle \cup {NoTask}] /\ pos \in [Getter -> Nat \ {0}]
      /\ Worker \subseteq Getter /\ Consumer \in Getter
      /\ \A t \in Getter : held[t] = NoTask => pos[t] = 1
    BY DEF Base, Shape, PipelineShape, PositionsShape, Getter
<1>1. ASSUME NEW w \in Worker, held'[w] = held[w], pos'[w] >= pos[w], PastAt(w, s),
             pos'[w] \in Nat
      PROVE  PastAt(w, s)'
  <2>1. PICK k \in Slots(InHand(w), 1, s) : k < pos[w]
    BY <1>1 DEF PastAt
  <2>2. k \in Int
    BY <1>0, BundleFacts, LenProperties DEF Slots, Bundle
  <2>3. Slots(InHand(w), 1, s)' = Slots(InHand(w), 1, s) /\ k < pos'[w]
    BY <1>0, <1>1, <2>1, <2>2 DEF Slots, InHand
  <2> QED
    BY <2>1, <2>3 DEF PastAt
<1>2. /\ UNCHANGED toConsume => Slots(coming2, 1, s) = Slots(coming, 1, s)
      /\ held'[Consumer] = held[Consumer] /\ pos'[Consumer] = pos[Consumer] =>
             Slots(InHand(Consumer), pos[Consumer], s)'
                 = Slots(InHand(Consumer), pos[Consumer], s)
  <2>1. UNCHANGED toConsume => coming2 = coming
    BY ComingMoves
  <2> QED
    BY <2>1 DEF Slots, InHand
\* The parts of what is on its way, one by one.
<1>3. OnItsWay(coming2, s)' <=> \/ \E w \in Worker : PastAt(w, s)'
                                \/ Slots(coming2, 1, s) # {}
                                \/ Slots(InHand(Consumer), pos[Consumer], s)' # {}
    BY DEF OnItsWay, WorkersStore, Slots
<1>4. \/ \E w \in Worker : PastAt(w, s)
      \/ Slots(coming, 1, s) # {}
      \/ Slots(InHand(Consumer), pos[Consumer], s) # {}
    BY DEF OnItsWay
\* The workers go on or stay, and the consumer stays.
<1>5. ASSUME UNCHANGED toConsume,
             held'[Consumer] = held[Consumer] /\ pos'[Consumer] = pos[Consumer],
             \A w \in Worker : PastAt(w, s) => PastAt(w, s)'
      PROVE  OnItsWay(coming2, s)'
    BY <1>2, <1>5, <1>3, <1>4
<1>6. CASE ProducerPuts \/ Stays \/ \E t \in Getter \cup {Producer} : Leaves(t)
    BY <1>0, <1>1, <1>5, <1>6 DEF ProducerPuts, Stays, Leaves, pipeline
<1>7. ASSUME NEW w \in Worker, WorkerGets(w) PROVE OnItsWay(coming2, s)'
  <2>1. ~PastAt(w, s)
    BY <1>0, <1>7 DEF PastAt, Slots, InHand, WorkerGets
  <2>2. UNCHANGED toConsume /\ UNCHANGED pos /\ \A v \in Getter \ {w} : held'[v] = held[v]
    BY <1>0, <1>7 DEF WorkerGets
  <2> QED
    BY <1>0, <1>1, <1>5, <2>1, <2>2
<1>8. ASSUME NEW w \in Worker, WorkerPuts(w) PROVE OnItsWay(coming2, s)'
  <2>1. coming2 = coming \o held[w] /\ held[w] \in Bundle /\ InHand(w) = held[w]
    BY <1>0, <1>8, ComingMoves DEF WorkerPuts, InHand
  <2>2. Slots(coming, 1, s) # {} \/ Slots(held[w], 1, s) # {} => Slots(coming2, 1, s) # {}
    BY <2>1, SlotsConcat
  <2>3. PastAt(w, s) => Slots(held[w], 1, s) # {}
    BY <2>1 DEF PastAt
  <2>4. \A v \in Getter \ {w} : held'[v] = held[v] /\ pos'[v] = pos[v]
    BY <1>0, <1>8 DEF WorkerPuts, Restart
  <2>5. \A v \in Worker \ {w} : PastAt(v, s) => PastAt(v, s)'
    BY <1>0, <1>1, <2>4
  <2> QED
    BY <1>0, <1>2, <1>3, <1>4, <2>2, <2>3, <2>4, <2>5
<1>9. CASE ConsumerGets
  <2>1. /\ Slots(InHand(Consumer), pos[Consumer], s) = {}
        /\ InHand(Consumer)' = Head(toConsume) /\ pos[Consumer] = 1 /\ UNCHANGED pos
        /\ Head(toConsume) \in Bundle /\ \A w \in Worker : held'[w] = held[w]
    BY <1>0, <1>9, SlotsNone DEF ConsumerGets, InHand
  <2>2. Slots(InHand(Consumer), pos[Consumer], s)' = Slots(Head(toConsume), 1, s)
    BY <2>1 DEF Slots
  <2>3. coming = Head(toConsume) \o coming2 /\ coming2 \in Bundle
    BY <1>9, ComingMoves
  <2>4. Slots(coming, 1, s) # {} => Slots(Head(toConsume), 1, s) # {} \/ Slots(coming2, 1, s) # {}
    BY <2>1, <2>3, SlotsConcat
  <2>5. \A w \in Worker : PastAt(w, s) => PastAt(w, s)'
    BY <1>0, <1>1, <2>1
  <2> QED
    BY <1>3, <1>4, <2>1, <2>2, <2>4, <2>5
<1>10. ASSUME ConsumerDrops, Slots(InHand(Consumer), pos[Consumer], s) = {}
       PROVE  OnItsWay(coming2, s)'
  <2>1. UNCHANGED toConsume /\ \A w \in Worker : held'[w] = held[w] /\ pos'[w] = pos[w]
    BY <1>0, <1>10 DEF ConsumerDrops, Restart
  <2>2. \A w \in Worker : PastAt(w, s) => PastAt(w, s)'
    BY <1>0, <1>1, <2>1
  <2> QED
    BY <1>2, <1>10, <1>3, <1>4, <2>1, <2>2
<1>11. ASSUME NEW w \in Worker, Proceeds(w) PROVE OnItsWay(coming2, s)'
  <2>1. /\ UNCHANGED <<toConsume, held>> /\ pos'[w] = pos[w] + 1
        /\ \A v \in Getter \ {w} : pos'[v] = pos[v]
    BY <1>0, <1>11 DEF Proceeds, Advance, pipeline
  <2>2. \A v \in Worker : pos'[v] >= pos[v] /\ pos'[v] \in Nat
    BY <1>0, <2>1
  <2> QED
    BY <1>0, <1>1, <1>5, <2>1, <2>2
<1>12. ASSUME Proceeds(Consumer), ~Hits(Current(Consumer), s) PROVE OnItsWay(coming2, s)'
  <2>1. /\ UNCHANGED <<toConsume, held>> /\ pos'[Consumer] = pos[Consumer] + 1
        /\ \A v \in Worker : pos'[v] = pos[v]
    BY <1>0, <1>12 DEF Proceeds, Advance, pipeline
  <2>2. held[Consumer] \in Bundle /\ pos[Consumer] \in DOMAIN held[Consumer]
        /\ InHand(Consumer) = held[Consumer] /\ InHand(Consumer)' = held[Consumer]
    BY <1>0, <1>12, <2>1, CurrentFacts DEF Proceeds, InHand
  <2>3. Slots(InHand(Consumer), pos[Consumer], s)
            = Slots(InHand(Consumer), pos[Consumer] + 1, s)
    BY <1>12, <2>2, SlotsNext DEF Current
  <2>4. Slots(InHand(Consumer), pos[Consumer], s)'
            = Slots(InHand(Consumer), pos[Consumer], s)
    BY <2>1, <2>2, <2>3 DEF Slots
  <2>5. \A w \in Worker : PastAt(w, s) => PastAt(w, s)'
    BY <1>0, <1>1, <2>1
  <2> QED
    BY <1>2, <1>3, <1>4, <2>1, <2>4, <2>5
<1> QED
    BY <1>6, <1>7, <1>8, <1>9, <1>10, <1>11, <1>12 DEF Move, Getter

LEMMA ComputedIsStoredStep ==
    ASSUME Base, [Next]_vars, NEW coming \in Bundle, NEW coming2,
           Follows(toConsume, toConsume', coming, coming2), ComputedIsStored(coming)
    PROVE  ComputedIsStored(coming2)'
<1> SUFFICES ASSUME NEW s \in option.samples, Unstored(s)' PROVE OnItsWay(coming2, s)'
    BY OptionKept DEF ComputedIsStored, Unstored, OnItsWay, PastAt, WorkersStore, Slots
<1> USE RolesApart
<1>0. /\ Base' /\ Move /\ option' = option /\ s \in Sample
      /\ computed \in [Sample -> Nat]
      /\ losses \in [Sample -> {Never} \cup 0..(option.iterations - 1)]
      /\ Unstored(s) => OnItsWay(coming, s)
      /\ held \in [Getter -> Bundle \cup {NoTask}] /\ pos \in [Getter -> Nat \ {0}]
      /\ Worker \subseteq Getter /\ Consumer \in Getter
    BY BaseStep, NextMoves, OptionKept, OptionFacts
        DEF Base, Shape, ResultsShape, ProducerShape, PipelineShape, PositionsShape,
            ComputedIsStored, Unstored, OnItsWay, PastAt, Getter
\* Storing the loss of a task of s ends it.
<1>1. ASSUME NEW t \in Getter, At(t, "Compute"), Store(Current(t)) PROVE ~Hits(Current(t), s)
  <2>1. Current(t).iter \in Nat /\ Never \notin Nat
    BY <1>0, <1>1, CurrentFacts, TaskFacts DEF At, Never
  <2>2. Hits(Current(t), s) => losses'[s] = Current(t).iter
    BY <1>0, <1>1 DEF Hits, Store
  <2> QED
    BY <2>1, <2>2 DEF Unstored
\* A loss that is Never has been Never.
<1>2. UNCHANGED computed /\ losses[s] = Never => Unstored(s)
    BY DEF Unstored
<1>3. ASSUME NEW w \in Worker, WorkerComputes(w) PROVE OnItsWay(coming2, s)'
  <2>1. w \in Getter /\ Proceeds(w) /\ At(w, "Compute")
    BY <1>0, <1>3, TaskMoves DEF WorkerComputes
  <2>2. CASE Hits(Current(w), s)
    <3>1. ~WorkersStore
      BY <1>1, <1>3, <2>1, <2>2 DEF WorkerComputes
    <3>2. /\ held[w] \in Bundle /\ pos[w] \in DOMAIN held[w] /\ InHand(w)' = held[w]
          /\ pos'[w] = pos[w] + 1 /\ pos[w] \in Nat \ {0}
      BY <1>0, <2>1, CurrentFacts DEF Proceeds, Advance, pipeline, InHand
    <3>3. pos[w] \in Slots(InHand(w)', 1, s) /\ pos[w] < pos'[w]
      BY <2>2, <3>2 DEF Slots, Hits, Current
    <3>4. PastAt(w, s)'
      BY <3>3 DEF PastAt, Slots
    <3> QED
      BY <1>0, <3>1, <3>4 DEF OnItsWay, WorkersStore
  <2>3. CASE ~Hits(Current(w), s)
    <3>1. Current(w).type = "Compute" /\ Current(w).sample # s
      BY <2>1, <2>3 DEF At, Hits
    <3>2. computed'[s] = computed[s] /\ losses'[s] = losses[s]
      BY <1>0, <1>3, <3>1 DEF WorkerComputes, Store
    <3>3. OnItsWay(coming, s)
      BY <1>0, <3>2 DEF Unstored
    <3>4. ~ConsumerDrops /\ ~Proceeds(Consumer)
      BY <1>0, <1>3, <2>1 DEF ConsumerDrops, Proceeds, Advance, pipeline
    <3> QED
      BY <1>0, <3>3, <3>4, ResultsMove
  <2> QED
    BY <2>2, <2>3
<1>4. CASE ConsumerStores
  <2>1. /\ ~Hits(Current(Consumer), s) /\ Proceeds(Consumer)
        /\ Current(Consumer).type = "Compute" /\ UNCHANGED computed
    BY <1>0, <1>1, <1>4, TaskMoves DEF ConsumerStores, At
  <2>2. losses'[s] = losses[s]
    BY <1>0, <1>4, <2>1 DEF ConsumerStores, Store, Hits
  <2>3. ~ConsumerDrops
    BY <1>0, <2>1 DEF ConsumerDrops, Proceeds, pipeline
  <2> QED
    BY <1>0, <1>2, <2>1, <2>2, <2>3, ResultsMove DEF Unstored
<1>5. CASE ConsumerDropTask
  <2>1. ConsumerDrops /\ UNCHANGED <<computed, losses>>
    BY <1>5, DropMoves DEF ConsumerDropTask
  <2>2. OnItsWay(coming, s)
    BY <1>0, <2>1 DEF Unstored
  <2>3. ~WorkersStore
    BY <2>2 DEF OnItsWay
  <2>4. Slots(InHand(Consumer), pos[Consumer], s) = {}
    BY <1>0, <1>5, <2>3, SlotsNone DEF ConsumerDropTask, AtEnd, InHand
  <2>5. ~Proceeds(Consumer)
    BY <1>0, <2>1 DEF ConsumerDrops, Proceeds, pipeline
  <2> QED
    BY <1>0, <2>2, <2>4, <2>5, ResultsMove
<1>6. ASSUME UNCHANGED <<computed, losses>>,
             ~ConsumerDrops, Proceeds(Consumer) => ~Hits(Current(Consumer), s)
      PROVE  OnItsWay(coming2, s)'
    BY <1>0, <1>6, ResultsMove DEF Unstored
<1>7. CASE FinishReport(Consumer)
  <2>1. Proceeds(Consumer) /\ UNCHANGED <<computed, losses>> /\ ~Hits(Current(Consumer), s)
    BY <1>7, TaskMoves DEF FinishReport, results, Base, ReportersAreAtMonitors, At, Hits
  <2>2. ~ConsumerDrops
    BY <1>0, <2>1 DEF ConsumerDrops, Proceeds, pipeline
  <2> QED
    BY <1>6, <2>1, <2>2
\* The steps that are none of the consumer's.
<1>8. ASSUME UNCHANGED <<computed, losses>>, held'[Consumer] = held[Consumer],
             pos'[Consumer] = pos[Consumer]
      PROVE  OnItsWay(coming2, s)'
    BY <1>0, <1>6, <1>8 DEF ConsumerDrops, Proceeds, Advance
<1>9. CASE ConsumerGetTask
  <2>1. ConsumerGets /\ UNCHANGED <<computed, losses>>
    BY <1>9, ConsumerGetMoves DEF ConsumerGetTask, results
  <2>2. ~ConsumerDrops /\ ~Proceeds(Consumer)
    BY <1>0, <2>1 DEF ConsumerGets, ConsumerDrops, Proceeds, AtTask
  <2> QED
    BY <1>6, <2>1, <2>2
<1>10. ASSUME NEW w \in Worker, WorkerRun(w) PROVE OnItsWay(coming2, s)'
  <2>1. CASE WorkerGetTask(w)
    <3>1. UNCHANGED <<computed, losses, pos>> /\ held' = [held EXCEPT ![w] = Head(toWork)]
      BY <2>1, GetMoves DEF WorkerGets, WorkerGetTask, results
    <3>2. held'[Consumer] = held[Consumer]
      BY ONLY <1>0, <3>1, RolesApart
    <3> QED
      BY ONLY <1>8, <3>1, <3>2
  <2>2. CASE WorkerPutTask(w)
    <3>1. /\ UNCHANGED <<computed, losses>>
          /\ held' = [held EXCEPT ![w] = NoTask] /\ pos' = [pos EXCEPT ![w] = 1]
      BY <2>2, WorkerPutMoves DEF WorkerPuts, WorkerPutTask, Restart, results
    <3>2. held'[Consumer] = held[Consumer] /\ pos'[Consumer] = pos[Consumer]
      BY ONLY <1>0, <3>1, RolesApart
    <3> QED
      BY ONLY <1>8, <3>1, <3>2
  <2>3. CASE WorkerSkips(w) \/ FinishReport(w)
    <3>1. UNCHANGED <<computed, losses, held>> /\ pos' = [pos EXCEPT ![w] = @ + 1]
      BY <2>3 DEF WorkerSkips, FinishReport, Advance, pipeline, results
    <3>2. pos'[Consumer] = pos[Consumer]
      BY ONLY <1>0, <3>1, RolesApart
    <3> QED
      BY ONLY <1>8, <3>1, <3>2
  <2>4. CASE StartReport(w) \/ WorkerDone(w)
    <3>1. UNCHANGED <<computed, losses, held, pos>>
      BY <2>4 DEF StartReport, WorkerDone, Pipeline!WorkerDone, pipeline, results
    <3> QED
      BY ONLY <1>8, <3>1
  <2>5. CASE WorkerReports(w)
    BY <2>3, <2>4, <2>5 DEF WorkerReports
  <2> QED
    BY <1>3, <1>10, <2>1, <2>2, <2>3, <2>4, <2>5 DEF WorkerRun
<1>11. CASE StartReport(Consumer) \/ ConsumerDone
    BY <1>8, <1>11 DEF StartReport, ConsumerDone, Pipeline!ConsumerDone, pipeline, results
<1>12. CASE ProducerRun
    BY <1>8, <1>12
        DEF ProducerRun, PutFullBundle, AddComputeTask, EndIteration, PutLastBundle,
            ProducerDone, Pipeline!ProducerPutTask, Pipeline!ProducerDone, pipeline, results
<1>13. CASE MonitorEnds \/ MonitorSleeps \/ Finished \/ UNCHANGED vars
    BY <1>8, <1>13 DEF MonitorEnds, MonitorSleeps, Finished, vars, pipeline, results
<1> QED
    BY <1>4, <1>5, <1>7, <1>9, <1>10, <1>11, <1>12, <1>13
        DEF Next, ConsumerRun, ConsumerReports

Done ==
    /\ Base
    /\ \E waiting, coming \in Bundle :
          /\ IsFlat(waiting, toWork) /\ IsFlat(coming, toConsume)
          /\ EachComputedOnce(waiting) /\ ComputedIsStored(coming)
          /\ PairsAreCounted(waiting, coming)

LEMMA DoneStep == Done /\ [Next]_vars => Done'
<1> SUFFICES ASSUME Base, [Next]_vars, NEW waiting \in Bundle, NEW coming \in Bundle,
                    IsFlat(waiting, toWork), IsFlat(coming, toConsume),
                    EachComputedOnce(waiting), ComputedIsStored(coming),
                    PairsAreCounted(waiting, coming)
    PROVE  Done'
    BY DEF Done
<1>1. Base' /\ Move
    BY BaseStep, NextMoves
<1>2. PICK waiting2 : Follows(toWork, toWork', waiting, waiting2)
    BY <1>1, WaitingFollows
<1>3. PICK coming2 : Follows(toConsume, toConsume', coming, coming2)
    BY <1>1, ComingFollows
<1>4. /\ waiting2 \in Bundle /\ IsFlat(waiting2, toWork)'
      /\ coming2 \in Bundle /\ IsFlat(coming2, toConsume)'
    BY <1>2, <1>3, WaitingMoves, ComingMoves
<1>5. EachComputedOnce(waiting2)'
    BY <1>2, EachComputedOnceStep
<1>6. ComputedIsStored(coming2)'
    BY <1>3, ComputedIsStoredStep
<1>7. PairsAreCounted(waiting2, coming2)'
    BY <1>2, <1>3, PairsAreCountedStep
<1> QED
    BY <1>1, <1>4, <1>5, <1>6, <1>7 DEF Done

(* When all threads have left, each sample has been computed once in each  *)
(* iteration, its result has been stored and the progress counted to the   *)
(* end, however the bundles are cut, however many fit into the queues and  *)
(* whoever gets them.                                                      *)
THEOREM EveryTaskIsDone == Spec => []EveryTaskDone
<1>1. Init => Done
  <2>1. Init => IsFlat(<<>>, toWork) /\ IsFlat(<<>>, toConsume) /\ <<>> \in Bundle
    BY FlatOfNone, ConcatFacts DEF Init, Pipeline!Init
  <2> QED
    BY <2>1, BaseInit, EachComputedOnceInit, ComputedIsStoredInit, PairsAreCountedInit
        DEF Done
<1>2. Done /\ [Next]_vars => Done'
    BY DoneStep
<1>3. Done => EveryTaskDone
  <2> SUFFICES ASSUME Done, AllLeft
      PROVE  /\ \A s \in option.samples : computed[s] = option.iterations /\ losses[s] # Never
             /\ Similarity => processed = TotalTask
    BY DEF EveryTaskDone
  <2> USE RolesApart
  <2>0. /\ Base /\ ProducerShape /\ ResultsShape /\ LeavesInOrder
        /\ option.iterations \in Nat \ {0} /\ option.samples \in SUBSET Sample
    BY OptionFacts DEF Done, Base, Shape, ProducerShape
\* Nothing is left anywhere.
  <2>1. /\ bundle = <<>> /\ producer = "left"
        /\ toWork = <<>> /\ toConsume = <<>> /\ \A t \in Getter : held[t] = NoTask
    <3>1. \E w : w \in Worker
      BY BundleAssumption
    <3> QED
      BY <2>0, <3>1 DEF LeavesInOrder, AllLeft, Getter
  <2>2. \A t \in Getter : InHand(t) = <<>>
    BY <2>1 DEF InHand
  <2>3. /\ EachComputedOnce(<<>>) /\ ComputedIsStored(<<>>)
        /\ PairsAreCounted(<<>>, <<>>)
    BY <2>1, FlatOfNone DEF Done
  <2>4. ASSUME NEW s \in option.samples
        PROVE  computed[s] = option.iterations /\ losses[s] # Never
    <3>1. InBundle(s) = 0 /\ InQueue(<<>>, s) = 0
      BY <2>1, <2>2, SlotsNone DEF InBundle, InQueue
    <3>2. AtWorkers(s) = 0
      <4>1. \A w \in Worker : ToCompute(s)[w] = {}
        BY <2>2, SlotsNone DEF ToCompute, Getter
      <4> QED
        BY <4>1, TokensNone DEF AtWorkers
    <3>3. Made(s) = option.iterations
      BY <2>0, <2>1 DEF Made, ProducerShape
    <3>4. computed[s] = option.iterations
      BY <2>0, <2>3, <3>1, <3>2, <3>3 DEF EachComputedOnce, ResultsShape
    <3>5. ~OnItsWay(<<>>, s)
      BY <2>2, SlotsNone DEF OnItsWay, PastAt, Getter
    <3> QED
      BY <2>0, <2>3, <3>4, <3>5 DEF ComputedIsStored, OnItsWay, PastAt
  <2>5. ASSUME Similarity PROVE processed = TotalTask
    <3>1. HeldByWorkers = 0
      <4>1. \A w \in Worker : InHands[w] = {}
        BY <2>2 DEF InHands, Getter
      <4> QED
        BY <4>1, TokensNone DEF HeldByWorkers
    <3>2. unmade = {} /\ InHand(Consumer) = <<>> /\ processed \in Nat
      BY <2>0, <2>1, <2>2 DEF ProducerShape, ResultsShape, Getter
    <3>3. processed + 0 + 0 + 0 + 0 + 0 = Cardinality(option.samples \ {})
      BY <2>1, <2>5, <2>3, <3>1, <3>2, DomainFacts DEF PairsAreCounted
    <3> QED
      BY <3>2, <3>3 DEF TotalTask
  <2> QED
    BY <2>4, <2>5
<1> QED
    BY <1>1, <1>2, <1>3, PTL DEF Spec
-----------------------------------------------------------------------------
(* With one worker the reported losses are those of the iteration the      *)
(* report is about, for any size of the bundles, any capacities and any    *)
(* number of iterations: the tasks whose losses are still to be stored are *)
(* a stream that keeps the order the producer made them in, bundles,       *)
(* queues and threads notwithstanding.                                     *)

(* While w is the only worker: the tasks whose losses are still to be      *)
(* stored, in the order in which they will be.  The network stores a loss  *)
(* at the consumer, the auto-encoder at the worker.                        *)
From(b, k) == SubSeq(b, k, Len(b))

AtTheWorker(w) == IF option.program = "BpNetwork" THEN InHand(w) ELSE From(InHand(w), pos[w])

AtTheConsumer(coming) ==
    IF option.program = "BpNetwork" THEN From(InHand(Consumer), pos[Consumer]) \o coming ELSE <<>>

Stream(waiting, coming, w) ==
    AtTheConsumer(coming) \o (AtTheWorker(w) \o (waiting \o bundle))

\* The iterations follow one another, and a Monitor task ends its own.
InOrder(stream) ==
    \A j, k \in DOMAIN stream :
        j < k => /\ stream[j].iter <= stream[k].iter
                 /\ stream[j].type = "Monitor" => stream[j].iter < stream[k].iter

\* Nothing in the stream is newer than what the producer makes now.
NothingIsAhead(stream, now) ==
    \A k \in DOMAIN stream :
        stream[k].iter <= now /\ (stream[k].type = "Monitor" => stream[k].iter < now)

\* The losses are no newer than what is still to come, ...
LossesAreOlder(stream, samples, now, loss) ==
    \A s \in samples :
        loss[s] <= now /\ \A k \in DOMAIN stream : loss[s] <= stream[k].iter

\* ... and everything newer that has been made is still to come.
NothingIsMissing(stream, samples, loss, made) ==
    \A s \in samples, n \in Nat :
        loss[s] < n /\ n < made[s] => \E k \in DOMAIN stream : stream[k] = ComputeTask(s, n)

StreamOK(stream, samples, now, loss, made) ==
    /\ InOrder(stream) /\ NothingIsAhead(stream, now)
    /\ LossesAreOlder(stream, samples, now, loss)
    /\ NothingIsMissing(stream, samples, loss, made)

\* With one worker nobody else has a bundle in his hands.
OnlyWorker(w) == worked \subseteq {w}

MadeOf == [s \in option.samples |-> Made(s)]

OneWorkerInOrder(waiting, coming) ==
    ~Similarity =>
        \A w \in Worker : OnlyWorker(w) =>
            StreamOK(Stream(waiting, coming, w), option.samples, iter, losses, MadeOf)

-----------------------------------------------------------------------------
(* The stream is a sequence of tasks, and the steps drop its first task,   *)
(* append one or leave it alone.                                           *)

LEMMA FromFacts ==
    ASSUME NEW b \in Bundle, NEW k \in Nat \ {0}
    PROVE  /\ From(b, k) \in Bundle /\ From(b, 1) = b
           /\ k > Len(b) => From(b, k) = <<>>
<1>1. Len(b) \in Nat /\ DOMAIN b = 1..Len(b) /\ \A i \in DOMAIN b : b[i] \in Task
    BY LenProperties, ElementOfSeq DEF Bundle
<1>2. \A i \in k..Len(b) : b[i] \in Task
    BY <1>1
<1>3. From(b, k) \in Bundle
    BY <1>1, <1>2, SubSeqProperties DEF From, Bundle
<1>4. From(b, 1) = b
    BY SubSeqFull DEF From, Bundle
<1>5. k > Len(b) => From(b, k) = <<>>
    BY <1>1, SubSeqEmpty DEF From
<1> QED
    BY <1>3, <1>4, <1>5

LEMMA FromFirst ==
    ASSUME NEW b \in Bundle, NEW k \in Nat \ {0}, k <= Len(b)
    PROVE  From(b, k) = <<b[k]>> \o From(b, k + 1)
<1>1. b \in Seq(Task) /\ k \in 1..Len(b) /\ Len(b) \in k..Len(b)
    BY LenProperties DEF Bundle
<1> QED
    BY <1>1, SubSeqRecursiveFirst DEF From

\* The concatenation, as the next lemmas use it: only that it is associative.
Joined(a, b) == a \o b

LEMMA JoinedFacts ==
    /\ \A a, b \in Bundle : Joined(a, b) \in Bundle
    /\ \A a, b, c \in Bundle : Joined(Joined(a, b), c) = Joined(a, Joined(b, c))
    /\ \A a \in Bundle : Joined(<<>>, a) = a
BY ConcatFacts DEF Joined

\* The same tasks, bracketed in another way.
LEMMA TakenUp ==
    ASSUME NEW a \in Bundle, NEW b \in Bundle, NEW c \in Bundle
    PROVE  <<>> \o ((a \o b) \o c) = a \o (b \o c)
<1>1. Joined(<<>>, Joined(Joined(a, b), c)) = Joined(a, Joined(b, c))
    BY JoinedFacts
<1> QED
    BY ONLY <1>1 DEF Joined

LEMMA FirstOfTwo ==
    ASSUME NEW x \in Task, NEW a \in Bundle, NEW b \in Bundle
    PROVE  /\ (<<x>> \o a) \o b = <<x>> \o (a \o b)
           /\ a \o b \in Bundle /\ <<x>> \o (a \o b) \in Bundle
<1>1. <<x>> \in Bundle
    BY ConcatFacts
<1>2. /\ Joined(Joined(<<x>>, a), b) = Joined(<<x>>, Joined(a, b))
      /\ Joined(a, b) \in Bundle /\ Joined(<<x>>, Joined(a, b)) \in Bundle
    BY <1>1, JoinedFacts
<1> QED
    BY ONLY <1>2 DEF Joined

LEMMA FirstOfAll ==
    ASSUME NEW x \in Task, NEW a \in Bundle, NEW b \in Bundle, NEW c \in Bundle
    PROVE  /\ ((<<x>> \o a) \o b) \o c = <<x>> \o ((a \o b) \o c)
           /\ (a \o b) \o c \in Bundle
<1>1. <<x>> \in Bundle
    BY ConcatFacts
<1>2. /\ Joined(Joined(Joined(<<x>>, a), b), c) = Joined(<<x>>, Joined(Joined(a, b), c))
      /\ Joined(Joined(a, b), c) \in Bundle
    BY <1>1, JoinedFacts
<1> QED
    BY ONLY <1>2 DEF Joined

LEMMA StreamType ==
    ASSUME Base, NEW w \in Worker, NEW waiting \in Bundle, NEW coming \in Bundle
    PROVE  /\ AtTheConsumer(coming) \in Bundle /\ AtTheWorker(w) \in Bundle
           /\ bundle \in Bundle /\ InHand(w) \in Bundle /\ InHand(Consumer) \in Bundle
           /\ From(InHand(Consumer), pos[Consumer]) \in Bundle
           /\ Stream(waiting, coming, w) \in Bundle
<1>1. /\ InHand(w) \in Bundle /\ pos[w] \in Nat \ {0} /\ bundle \in Bundle
      /\ InHand(Consumer) \in Bundle /\ pos[Consumer] \in Nat \ {0}
    BY BundleFacts
<1>2. From(InHand(w), pos[w]) \in Bundle /\ From(InHand(Consumer), pos[Consumer]) \in Bundle
    BY <1>1, FromFacts
<1>3. AtTheConsumer(coming) \in Bundle /\ AtTheWorker(w) \in Bundle
    BY <1>1, <1>2, ConcatFacts DEF AtTheConsumer, AtTheWorker
<1>4. AtTheWorker(w) \o (waiting \o bundle) \in Bundle
    BY <1>1, <1>3, ConcatFacts
<1> QED
    BY <1>1, <1>2, <1>3, <1>4, ConcatFacts DEF Stream

LEMMA HoldersAreWorking ==
    ASSUME Base, NEW w \in Worker, OnlyWorker(w)
    PROVE  \A v \in Worker : held[v] # NoTask => v = w
BY DEF Base, Shape, PipelineShape, OnlyWorker

\* A move that stores no loss: the tasks stay in line.
LEMMA StreamKept ==
    ASSUME Base, Base', Move, NEW w \in Worker, OnlyWorker(w)', option' = option,
           NEW waiting \in Bundle, NEW waiting2, NEW coming \in Bundle, NEW coming2,
           Follows(toWork, toWork', waiting, waiting2),
           Follows(toConsume, toConsume', coming, coming2),
           ProducerPuts \/ UNCHANGED bundle,
           option.program = "BpNetwork" =>
               ~Proceeds(Consumer) /\ (ConsumerDrops => AtEnd(Consumer)),
           option.program # "BpNetwork" => ~Proceeds(w)
    PROVE  Stream(waiting2, coming2, w)' = Stream(waiting, coming, w)
<1> DEFINE bp   == option.program = "BpNetwork"
           inC  == From(InHand(Consumer), pos[Consumer])
           inW  == AtTheWorker(w)
           old  == Stream(waiting, coming, w)
           new  == Stream(waiting2, coming2, w)'
<1> USE RolesApart
<1>0. /\ held \in [Getter -> Bundle \cup {NoTask}] /\ pos \in [Getter -> Nat \ {0}]
      /\ Worker \subseteq Getter /\ Consumer \in Getter /\ bundle \in Bundle
      /\ \A t \in Getter : held[t] = NoTask => pos[t] = 1
      /\ worked \subseteq worked'
      /\ inC \in Bundle /\ inW \in Bundle /\ waiting2 \in Bundle /\ coming2 \in Bundle
      /\ \A v \in Worker : held[v] # NoTask => v = w
  <2>1. worked \subseteq worked'
    BY DEF Move, ProducerPuts, WorkerGets, WorkerPuts, ConsumerGets, ConsumerDrops, Proceeds,
        Leaves, Stays
  <2>2. OnlyWorker(w)
    BY <2>1 DEF OnlyWorker
  <2> QED
    BY <2>1, <2>2, HoldersAreWorking, StreamType, WaitingMoves, ComingMoves
        DEF Base, Shape, PipelineShape, PositionsShape, ProducerShape, Getter
<1>1. /\ Stream(waiting, coming, w)
             = (IF bp THEN inC \o coming ELSE <<>>) \o (inW \o (waiting \o bundle))
      /\ Stream(waiting2, coming2, w)'
             = (IF bp THEN inC' \o coming2 ELSE <<>>) \o (inW' \o (waiting2 \o bundle'))
    BY DEF Stream, AtTheConsumer
\* A part that is not touched.
<1>2. /\ UNCHANGED toWork => waiting2 = waiting
      /\ UNCHANGED toConsume => coming2 = coming
      /\ held'[Consumer] = held[Consumer] /\ pos'[Consumer] = pos[Consumer] => inC' = inC
      /\ held'[w] = held[w] /\ (pos'[w] = pos[w] \/ bp) => inW' = inW
  <2>1. /\ UNCHANGED toWork => waiting2 = waiting
        /\ UNCHANGED toConsume => coming2 = coming
    BY WaitingMoves, ComingMoves
  <2> QED
    BY <2>1 DEF InHand, AtTheWorker, From
<1>3. \A t \in Getter : held[t] = NoTask => InHand(t) = <<>> /\ From(InHand(t), pos[t]) = <<>>
    BY <1>0, FromFacts, ConcatFacts DEF InHand
<1>4. /\ inC' = From(InHand(Consumer)', pos'[Consumer])
      /\ inW' = IF bp THEN InHand(w)' ELSE From(InHand(w)', pos'[w])
      /\ inW = IF bp THEN InHand(w) ELSE From(InHand(w), pos[w])
    BY DEF AtTheWorker, From
<1> DEFINE ahead   == IF bp THEN inC \o coming ELSE <<>>
           ahead2  == IF bp THEN inC' \o coming2 ELSE <<>>
           behind  == inW \o (waiting \o bundle)
           behind2 == inW' \o (waiting2 \o bundle')
<1>5. ASSUME ahead2 = ahead, behind2 = behind PROVE new = old
  <2>1. old = ahead \o behind /\ new = ahead2 \o behind2
    BY <1>1
  <2> HIDE DEF ahead, ahead2, behind, behind2, old, new
  <2> QED
    BY <1>5, <2>1
<1>6. CASE ProducerPuts
  <2>1. /\ waiting2 = waiting \o bundle /\ bundle' = <<>>
        /\ UNCHANGED <<toConsume, held, pos>>
    BY <1>6, WaitingMoves DEF ProducerPuts
  <2>2. inC' = inC /\ coming2 = coming /\ inW' = inW
    BY <1>2, <2>1
  <2>3. waiting2 \o bundle' = waiting \o bundle
    BY <1>0, <2>1, ConcatFacts
  <2>4. (IF bp THEN inC' \o coming2 ELSE <<>>) = (IF bp THEN inC \o coming ELSE <<>>)
    BY <2>2
  <2>5. inW' \o (waiting2 \o bundle') = inW \o (waiting \o bundle)
    BY <2>2, <2>3
  <2> QED
    BY <1>5, <2>4, <2>5
<1>7. ASSUME UNCHANGED bundle, UNCHANGED <<toWork, toConsume>>, inC' = inC, inW' = inW
      PROVE  new = old
  <2>1. waiting2 = waiting /\ coming2 = coming
    BY <1>2, <1>7
  <2>2. (IF bp THEN inC' \o coming2 ELSE <<>>) = (IF bp THEN inC \o coming ELSE <<>>)
    BY <1>7, <2>1
  <2>3. inW' \o (waiting2 \o bundle') = inW \o (waiting \o bundle)
    BY <1>7, <2>1
  <2> QED
    BY <1>5, <2>2, <2>3
<1>8. ASSUME UNCHANGED bundle, NEW v \in Worker, WorkerGets(v) PROVE new = old
  <2>1. v = w /\ Head(toWork) \in Bundle
    BY <1>8 DEF WorkerGets, OnlyWorker
  <2>2. /\ InHand(w)' = Head(toWork) /\ pos'[w] = 1 /\ UNCHANGED toConsume
        /\ held'[Consumer] = held[Consumer] /\ pos'[Consumer] = pos[Consumer]
        /\ held[w] = NoTask
    BY <1>0, <1>8, <2>1 DEF WorkerGets, InHand
  <2>3. inW = <<>> /\ inW' = Head(toWork)
    BY <1>0, <1>3, <1>4, <2>1, <2>2, FromFacts
  <2>4. waiting = Head(toWork) \o waiting2
    BY <1>8, WaitingMoves
  <2>5. inC' = inC /\ coming2 = coming
    BY <1>2, <2>2
  <2>6. <<>> \o ((Head(toWork) \o waiting2) \o bundle) = Head(toWork) \o (waiting2 \o bundle)
    <3>1. waiting2 \in Bundle /\ bundle \in Bundle
      BY <1>0
    <3> QED
      BY ONLY <2>1, <3>1, TakenUp
  <2>7. inW \o (waiting \o bundle) = inW' \o (waiting2 \o bundle')
    BY <1>8, <2>3, <2>4, <2>6
  <2> QED
    BY <1>1, <2>5, <2>7
<1>9. ASSUME UNCHANGED bundle, NEW v \in Worker, WorkerPuts(v) PROVE new = old
  <2>1. v = w
    BY <1>0, <1>9 DEF WorkerPuts
  <2>2. /\ InHand(w) = held[w] /\ InHand(w)' = <<>> /\ pos'[w] = 1 /\ UNCHANGED toWork
        /\ held'[Consumer] = held[Consumer] /\ pos'[Consumer] = pos[Consumer]
        /\ pos[w] > Len(InHand(w)) /\ InHand(w) \in Bundle
    BY <1>0, <1>9, <2>1 DEF WorkerPuts, Restart, InHand
  <2>3. inW' = <<>> /\ inC' = inC /\ waiting2 = waiting
    BY <1>2, <1>4, <2>2, FromFacts, ConcatFacts
  <2>4. CASE bp
    <3>1. inW = InHand(w) /\ coming2 = coming \o InHand(w)
      BY <1>4, <1>9, <2>1, <2>2, <2>4, ComingMoves
    <3> DEFINE rest == waiting \o bundle
    <3>2. inC \in Bundle /\ coming \in Bundle /\ inW \in Bundle /\ rest \in Bundle
      BY <1>0, ConcatFacts
    <3> HIDE DEF inC, inW, rest
    <3>3. (inC \o (coming \o inW)) \o (<<>> \o rest) = (inC \o coming) \o (inW \o rest)
      <4>1. Joined(Joined(inC, Joined(coming, inW)), Joined(<<>>, rest))
                = Joined(Joined(inC, coming), Joined(inW, rest))
        BY ONLY <3>2, JoinedFacts
      <4> QED
        BY ONLY <4>1 DEF Joined
    <3> USE DEF rest
    <3> QED
      BY <1>1, <1>9, <2>3, <2>4, <3>1, <3>3
  <2>5. CASE ~bp
    <3>1. inW = <<>>
      BY <1>0, <1>4, <2>2, <2>5, FromFacts
    <3> QED
      BY <1>1, <1>9, <2>3, <2>5, <3>1
  <2> QED
    BY <2>4, <2>5
<1>10. ASSUME UNCHANGED bundle, ConsumerGets PROVE new = old
  <2>1. /\ waiting2 = waiting /\ inW' = inW /\ held[Consumer] = NoTask
        /\ InHand(Consumer)' = Head(toConsume) /\ pos'[Consumer] = 1
        /\ Head(toConsume) \in Bundle
    BY <1>0, <1>2, <1>10 DEF ConsumerGets, InHand
  <2>2. inC = <<>> /\ inC' = Head(toConsume)
    BY <1>0, <1>3, <1>4, <2>1, FromFacts
  <2>3. coming = Head(toConsume) \o coming2
    BY <1>10, ComingMoves
  <2>4. inC \o coming = inC' \o coming2
    BY <1>0, <2>2, <2>3, ConcatFacts
  <2> QED
    BY <1>1, <1>10, <2>1, <2>4
<1>11. ASSUME UNCHANGED bundle, ConsumerDrops PROVE new = old
  <2>1. /\ waiting2 = waiting /\ inW' = inW /\ coming2 = coming /\ pos'[Consumer] = 1
        /\ InHand(Consumer)' = <<>> /\ InHand(Consumer) = held[Consumer]
        /\ held[Consumer] \in Bundle
    BY <1>0, <1>2, <1>11 DEF ConsumerDrops, Restart, InHand
  <2>2. inC' = <<>>
    BY <1>4, <2>1, FromFacts, ConcatFacts
  <2>3. ASSUME bp PROVE inC = <<>>
    <3>1. pos[Consumer] > Len(held[Consumer])
      BY <1>11, <2>3 DEF AtEnd
    <3> QED
      BY <1>0, <2>1, <3>1, FromFacts
  <2>4. (IF bp THEN inC' \o coming2 ELSE <<>>) = (IF bp THEN inC \o coming ELSE <<>>)
    BY <2>1, <2>2, <2>3
  <2> HIDE DEF inC, inW
  <2> QED
    BY <1>1, <1>11, <2>1, <2>4
<1>12. ASSUME UNCHANGED bundle, NEW t \in Getter, Proceeds(t) PROVE new = old
  <2>1. /\ UNCHANGED <<toWork, toConsume, held>> /\ held[t] # NoTask
        /\ \A u \in Getter \ {t} : pos'[u] = pos[u]
    BY <1>0, <1>12 DEF Proceeds, Advance, AtTask, pipeline
  <2>2. CASE bp
    <3>1. t # Consumer
      BY <1>12, <2>2
    <3>2. inC' = inC /\ inW' = inW
      BY <1>0, <1>2, <2>1, <2>2, <3>1
    <3> QED
      BY <1>7, <1>12, <2>1, <3>2
  <2>3. CASE ~bp
    <3>1. t = Consumer
      BY <1>0, <1>12, <2>1, <2>3 DEF Getter
    <3>2. inW' = inW /\ waiting2 = waiting
      BY <1>0, <1>2, <2>1, <3>1
    <3> QED
      BY <1>1, <1>12, <2>3, <3>2
  <2> QED
    BY <2>2, <2>3
<1>13. ASSUME UNCHANGED bundle, Stays \/ \E t \in Getter \cup {Producer} : Leaves(t)
       PROVE  new = old
    BY <1>2, <1>7, <1>13 DEF Stays, Leaves, pipeline
<1> QED
    BY <1>6, <1>8, <1>9, <1>10, <1>11, <1>12, <1>13 DEF Move

\* The task that is done is the first one.
LEMMA StreamDrops ==
    ASSUME Base, Base', NEW w \in Worker, NEW t, Proceeds(t), option' = option,
           t = IF option.program = "BpNetwork" THEN Consumer ELSE w,
           NEW waiting \in Bundle, NEW coming \in Bundle
    PROVE  /\ Stream(waiting, coming, w) = <<Current(t)>> \o Stream(waiting, coming, w)'
           /\ Stream(waiting, coming, w)' \in Bundle /\ Current(t) \in Task
<1> DEFINE x   == Current(t)
           inT == From(InHand(t), pos[t])
           rest == From(held[t], pos[t] + 1)
           inW == AtTheWorker(w)
<1> USE RolesApart
<1>0. /\ held \in [Getter -> Bundle \cup {NoTask}] /\ pos \in [Getter -> Nat \ {0}]
      /\ Worker \subseteq Getter /\ Consumer \in Getter /\ t \in Getter
      /\ inW \in Bundle /\ bundle \in Bundle
    BY StreamType DEF Base, Shape, PipelineShape, PositionsShape, Getter
<1>1. /\ held[t] \in Bundle /\ pos[t] \in DOMAIN held[t] /\ x \in Task
      /\ x = held[t][pos[t]]
    BY <1>0, CurrentFacts DEF Proceeds, Current
<1>2. /\ UNCHANGED <<toWork, toConsume, held, bundle>> /\ pos'[t] = pos[t] + 1
      /\ \A u \in Getter \ {t} : pos'[u] = pos[u]
    BY <1>0 DEF Proceeds, Advance, pipeline
<1>3. InHand(t) = held[t] /\ InHand(t)' = held[t]
    BY <1>1, <1>2 DEF InHand
<1>4. inT' = rest /\ rest \in Bundle /\ inT = <<x>> \o rest
  <2>1. pos[t] \in Nat \ {0} /\ pos[t] + 1 \in Nat \ {0} /\ pos[t] <= Len(held[t])
    BY <1>0, <1>1, LenProperties DEF Bundle
  <2>2. From(held[t], pos[t]) = <<held[t][pos[t]]>> \o From(held[t], pos[t] + 1)
    BY <1>1, <2>1, FromFirst, Zenon
  <2>3. inT' = rest
    BY <1>2, <1>3 DEF From
  <2>4. inT = <<x>> \o rest
    BY <1>1, <1>3, <2>2
  <2> QED
    BY <1>1, <2>1, <2>3, <2>4, FromFacts
<1>5. bundle' = bundle
    BY <1>2
<1>6. <<x>> \in Bundle /\ waiting \o bundle \in Bundle /\ inW \o (waiting \o bundle) \in Bundle
    BY <1>0, <1>1, ConcatFacts
<1>7. CASE option.program = "BpNetwork"
  <2>1. t = Consumer /\ inW' = inW
    BY <1>2, <1>7 DEF AtTheWorker, InHand
  <2>2. /\ Stream(waiting, coming, w) = ((<<x>> \o rest) \o coming) \o (inW \o (waiting \o bundle))
        /\ Stream(waiting, coming, w)' = (rest \o coming) \o (inW \o (waiting \o bundle))
    BY <1>4, <1>5, <1>7, <2>1 DEF Stream, AtTheConsumer
  <2> HIDE DEF x, rest, inW
  <2>3. /\ ((<<x>> \o rest) \o coming) \o (inW \o (waiting \o bundle))
               = <<x>> \o ((rest \o coming) \o (inW \o (waiting \o bundle)))
        /\ (rest \o coming) \o (inW \o (waiting \o bundle)) \in Bundle
    <3>1. x \in Task /\ rest \in Bundle /\ coming \in Bundle
      BY <1>0, <1>1, <1>4
    <3> QED
      BY <1>6, <3>1, FirstOfAll, Zenon
  <2>4. /\ Stream(waiting, coming, w) = <<x>> \o Stream(waiting, coming, w)'
        /\ Stream(waiting, coming, w)' \in Bundle
    BY <2>2, <2>3
  <2> QED
    BY <1>1, <2>4 DEF x
<1>8. CASE option.program # "BpNetwork"
  <2>1. t = w /\ inW = inT /\ inW' = inT'
    BY <1>8 DEF AtTheWorker
  <2>2. /\ Stream(waiting, coming, w) = <<>> \o ((<<x>> \o rest) \o (waiting \o bundle))
        /\ Stream(waiting, coming, w)' = <<>> \o (rest \o (waiting \o bundle))
    BY <1>4, <1>5, <1>8, <2>1 DEF Stream, AtTheConsumer
  <2> HIDE DEF x, rest, inW
  <2>3. /\ (<<x>> \o rest) \o (waiting \o bundle) = <<x>> \o (rest \o (waiting \o bundle))
        /\ rest \o (waiting \o bundle) \in Bundle
        /\ <<x>> \o (rest \o (waiting \o bundle)) \in Bundle
    <3>1. x \in Task /\ rest \in Bundle /\ waiting \o bundle \in Bundle
      BY <1>1, <1>4, <1>6
    <3> QED
      BY ONLY <3>1, FirstOfTwo
  <2>4. /\ Stream(waiting, coming, w)' = rest \o (waiting \o bundle)
        /\ Stream(waiting, coming, w) = <<x>> \o (rest \o (waiting \o bundle))
    BY <2>2, <2>3, ConcatFacts
  <2> QED
    BY <1>1, <2>3, <2>4 DEF x
<1> QED
    BY <1>7, <1>8

\* The task that is made is the last one.
LEMMA StreamAppends ==
    ASSUME Base, NEW w \in Worker, NEW x \in Task, UNCHANGED <<pipeline, pos, option>>,
           bundle' = Append(bundle, x), NEW waiting \in Bundle, NEW coming \in Bundle
    PROVE  Stream(waiting, coming, w)' = Stream(waiting, coming, w) \o <<x>>
<1> DEFINE c == AtTheConsumer(coming)
           a == AtTheWorker(w)
<1>1. /\ c \in Bundle /\ a \in Bundle /\ bundle \in Bundle /\ <<x>> \in Bundle
      /\ bundle' = bundle \o <<x>>
    BY StreamType, ConcatFacts
<1>2. c' = c /\ a' = a
    BY DEF AtTheConsumer, AtTheWorker, From, InHand, pipeline
<1> DEFINE last   == <<x>>
           before == Joined(c, Joined(a, Joined(waiting, bundle)))
           after  == Joined(c, Joined(a, Joined(waiting, Joined(bundle, last))))
<1>3. Stream(waiting, coming, w) = before /\ Stream(waiting, coming, w)' = after
    BY <1>1, <1>2 DEF Stream, Joined
<1>4. after = Joined(before, last)
  <2>1. /\ c \in Bundle /\ a \in Bundle /\ waiting \in Bundle /\ bundle \in Bundle
        /\ last \in Bundle
    BY <1>1
  <2> HIDE DEF c, a, last
  <2> QED
    BY ONLY <2>1, JoinedFacts
<1> QED
    BY ONLY <1>3, <1>4 DEF Joined

-----------------------------------------------------------------------------
(* What dropping and appending do to the order.                            *)

LEMMA FirstFacts ==
    ASSUME NEW x \in Task, NEW r \in Bundle, NEW st, st = <<x>> \o r
    PROVE  /\ 1 \in DOMAIN st /\ st[1] = x
           /\ \A k \in DOMAIN r : k \in Nat \ {0} /\ k + 1 \in DOMAIN st /\ st[k + 1] = r[k]
           /\ \A k \in DOMAIN st : k \in Nat \ {0} /\
                 (k # 1 => k - 1 \in DOMAIN r /\ r[k - 1] = st[k])
           /\ \A k \in DOMAIN st : st[k] \in Task
<1>1. /\ <<x>> \in Seq(Task) /\ r \in Seq(Task) /\ Len(<<x>>) = 1 /\ <<x>>[1] = x
      /\ Len(r) \in Nat /\ DOMAIN r = 1..Len(r)
    BY LenProperties DEF Bundle
<1>2. /\ st \in Seq(Task) /\ Len(st) = 1 + Len(r)
      /\ \A i \in 1..(1 + Len(r)) : st[i] = IF i <= 1 THEN <<x>>[i] ELSE r[i - 1]
    BY <1>1, ConcatProperties
<1>3. DOMAIN st = 1..(1 + Len(r)) /\ \A k \in DOMAIN st : st[k] \in Task
    BY <1>1, <1>2, LenProperties, ElementOfSeq
<1>4. st[1] = x
    BY <1>1, <1>2
<1>5. \A k \in DOMAIN st : k # 1 => k - 1 \in DOMAIN r /\ r[k - 1] = st[k]
    BY <1>1, <1>2, <1>3
<1>6. \A k \in DOMAIN r : k + 1 \in DOMAIN st /\ st[k + 1] = r[k]
    BY <1>1, <1>2, <1>3
<1> QED
    BY <1>1, <1>3, <1>4, <1>5, <1>6

LEMMA LastFacts ==
    ASSUME NEW x \in Task, NEW r \in Bundle, NEW st, st = r \o <<x>>
    PROVE  /\ Len(r) \in Nat /\ DOMAIN r = 1..Len(r) /\ DOMAIN st = 1..(Len(r) + 1)
           /\ \A k \in 1..Len(r) : st[k] = r[k] /\ r[k] \in Task
           /\ st[Len(r) + 1] = x
<1>1. /\ <<x>> \in Seq(Task) /\ r \in Seq(Task) /\ Len(<<x>>) = 1 /\ <<x>>[1] = x
      /\ Len(r) \in Nat /\ DOMAIN r = 1..Len(r) /\ \A k \in 1..Len(r) : r[k] \in Task
    BY LenProperties, ElementOfSeq DEF Bundle
<1>2. /\ st \in Seq(Task) /\ Len(st) = Len(r) + 1
      /\ \A i \in 1..(Len(r) + 1) : st[i] = IF i <= Len(r) THEN r[i] ELSE <<x>>[i - Len(r)]
    BY <1>1, ConcatProperties
<1>3. DOMAIN st = 1..(Len(r) + 1)
    BY <1>1, <1>2, LenProperties
<1>4. (Len(r) + 1) - Len(r) = 1 /\ ~(Len(r) + 1 <= Len(r)) /\ Len(r) + 1 \in 1..(Len(r) + 1)
    BY <1>1
<1>5. st[Len(r) + 1] = x
    BY <1>1, <1>2, <1>4
<1> QED
    BY <1>1, <1>2, <1>3, <1>5

\* The first task is done, and its loss stored if it has one.
LEMMA OrderDropped ==
    ASSUME NEW x \in Task, NEW r \in Bundle, NEW samples \in SUBSET Sample, NEW now \in Nat,
           NEW loss \in [Sample -> Int], NEW made, NEW loss2,
           StreamOK(<<x>> \o r, samples, now, loss, made),
           \/ x.type = "Compute" /\ loss2 = [loss EXCEPT ![x.sample] = x.iter]
           \/ x.type = "Monitor" /\ loss2 = loss
    PROVE  StreamOK(r, samples, now, loss2, made)
<1> DEFINE st == <<x>> \o r
<1>1. /\ 1 \in DOMAIN st /\ st[1] = x
      /\ \A k \in DOMAIN r : k \in Nat \ {0} /\ k + 1 \in DOMAIN st /\ st[k + 1] = r[k]
      /\ \A k \in DOMAIN st : k \in Nat \ {0} /\
            (k # 1 => k - 1 \in DOMAIN r /\ r[k - 1] = st[k])
      /\ \A k \in DOMAIN st : st[k] \in Task
    BY FirstFacts
<1>2. StreamOK(st, samples, now, loss, made)
    OBVIOUS
<1>3. \A s \in samples : s \in Sample /\ loss[s] \in Int
    OBVIOUS
<1>4. /\ x.iter \in Nat /\ x.type \in {"Compute", "Monitor"}
      /\ x.type = "Compute" => x.sample \in Sample
      /\ \A k \in DOMAIN r : r[k] \in Task /\ r[k].iter \in Nat
  <2>1. /\ x.iter \in Nat /\ x.type \in {"Compute", "Monitor"}
        /\ x.type = "Compute" => x.sample \in Sample
    BY TaskFacts
  <2>2. \A k \in DOMAIN r : r[k] \in Task
    BY LenProperties, ElementOfSeq DEF Bundle
  <2>3. \A k \in DOMAIN r : r[k].iter \in Nat
    BY <2>2, TaskFacts
  <2> QED
    BY <2>1, <2>2, <2>3
<1> HIDE DEF st
<1>5. InOrder(r)
    BY <1>1, <1>2 DEF StreamOK, InOrder
<1>6. NothingIsAhead(r, now)
    BY <1>1, <1>2 DEF StreamOK, NothingIsAhead
<1>7. x.iter <= now /\ \A k \in DOMAIN r : x.iter <= r[k].iter
    BY <1>1, <1>2 DEF StreamOK, NothingIsAhead, InOrder
<1>8. \A s \in samples : loss2[s] = loss[s]
          \/ (loss2[s] = x.iter /\ x.type = "Compute" /\ s = x.sample)
    BY <1>3, <1>4
<1>9. LossesAreOlder(r, samples, now, loss2)
  <2>1. \A s \in samples :
            loss[s] <= now /\ loss[s] <= x.iter /\ \A k \in DOMAIN r : loss[s] <= r[k].iter
    BY <1>1, <1>2 DEF StreamOK, LossesAreOlder
  <2> QED
    BY <1>7, <1>8, <2>1 DEF LossesAreOlder
<1>10. NothingIsMissing(r, samples, loss2, made)
  <2> SUFFICES ASSUME NEW s \in samples, NEW n \in Nat, loss2[s] < n, n < made[s]
      PROVE  \E k \in DOMAIN r : r[k] = ComputeTask(s, n)
    BY DEF NothingIsMissing
  <2>1. loss[s] <= x.iter /\ loss[s] \in Int
    BY <1>1, <1>2, <1>3 DEF StreamOK, LossesAreOlder
  <2>2. loss[s] < n
    BY <1>4, <1>8, <2>1
  <2>3. PICK k \in DOMAIN st : st[k] = ComputeTask(s, n)
    BY <1>2, <2>2 DEF StreamOK, NothingIsMissing
  <2>4. k # 1
    <3>1. SUFFICES x # ComputeTask(s, n)
      BY <1>1, <2>3
    <3>2. CASE x.type = "Monitor"
      BY <1>3, <3>2, TaskFacts
    <3>3. CASE x.type = "Compute"
      <4>1. x.sample = s => loss2[s] = x.iter
        BY <1>3, <1>4, <3>3
      <4>2. x.sample = s => x.iter # n
        BY <1>4, <4>1
      <4> QED
        BY <1>3, <4>2, TaskFacts
    <3> QED
      BY <1>4, <3>2, <3>3
  <2> QED
    BY <1>1, <2>3, <2>4
<1> QED
    BY <1>5, <1>6, <1>9, <1>10 DEF StreamOK

\* A task of the present iteration follows, or the Monitor task that ends it.
LEMMA OrderAppended ==
    ASSUME NEW x \in Task, NEW r \in Bundle, option.samples \in SUBSET Sample, iter \in Nat,
           iter' \in {iter, iter + 1}, losses \in [Sample -> Int],
           StreamOK(r, option.samples, iter, losses, MadeOf),
           x.iter = iter, x.type = "Monitor" => iter' = iter + 1,
           \A s \in option.samples :
               \/ MadeOf'[s] = MadeOf[s]
               \/ x = ComputeTask(s, iter) /\ MadeOf[s] = iter /\ MadeOf'[s] = iter + 1
    PROVE  StreamOK(r \o <<x>>, option.samples, iter', losses, MadeOf')
<1> DEFINE samples == option.samples
           now     == iter
           now2    == iter'
           loss    == losses
           made    == MadeOf
           made2   == MadeOf'
<1> DEFINE st   == r \o <<x>>
           last == Len(r) + 1
<1>1. /\ Len(r) \in Nat /\ DOMAIN r = 1..Len(r) /\ DOMAIN st = 1..last
      /\ \A k \in 1..Len(r) : st[k] = r[k] /\ r[k] \in Task
      /\ st[last] = x
    BY LastFacts
<1>2. \A s \in samples : s \in Sample /\ loss[s] \in Int
    OBVIOUS
<1>3. \A k \in DOMAIN r : r[k].iter \in Nat /\ r[k].type \in {"Compute", "Monitor"}
    BY <1>1, TaskFacts
<1> HIDE DEF st
<1>4. /\ \A k \in 1..Len(r) : r[k].iter <= now /\ (r[k].type = "Monitor" => r[k].iter < now)
      /\ \A s \in samples : loss[s] <= now
      /\ \A s \in samples : \A k \in 1..Len(r) : loss[s] <= r[k].iter
    BY <1>1 DEF StreamOK, NothingIsAhead, LossesAreOlder
<1>5. InOrder(st)
  <2> SUFFICES ASSUME NEW j \in 1..last, NEW k \in 1..last, j < k
      PROVE  /\ st[j].iter <= st[k].iter
             /\ st[j].type = "Monitor" => st[j].iter < st[k].iter
    BY <1>1 DEF InOrder
  <2>1. j \in 1..Len(r) /\ (k \in 1..Len(r) \/ k = last)
    BY <1>1
  <2>2. CASE k \in 1..Len(r)
    BY <1>1, <2>1, <2>2 DEF StreamOK, InOrder
  <2>3. CASE k = last
    BY <1>1, <1>4, <2>1, <2>3
  <2> QED
    BY <2>1, <2>2, <2>3
<1>6. NothingIsAhead(st, now2)
  <2> SUFFICES ASSUME NEW k \in 1..last
      PROVE  st[k].iter <= now2 /\ (st[k].type = "Monitor" => st[k].iter < now2)
    BY <1>1 DEF NothingIsAhead
  <2>1. CASE k \in 1..Len(r)
    BY <1>1, <1>3, <1>4, <2>1
  <2>2. CASE k = last
    BY <1>1, <2>2
  <2> QED
    BY <1>1, <2>1, <2>2
<1>7. LossesAreOlder(st, samples, now2, loss)
  <2> SUFFICES ASSUME NEW s \in samples
      PROVE  loss[s] <= now2 /\ \A k \in 1..last : loss[s] <= st[k].iter
    BY <1>1 DEF LossesAreOlder
  <2>1. \A k \in 1..last : k \in 1..Len(r) \/ k = last
    BY <1>1
  <2> QED
    BY <1>1, <1>2, <1>4, <2>1
<1>8. NothingIsMissing(st, samples, loss, made2)
  <2> SUFFICES ASSUME NEW s \in samples, NEW n \in Nat, loss[s] < n, n < made2[s]
      PROVE  \E k \in 1..last : st[k] = ComputeTask(s, n)
    BY <1>1 DEF NothingIsMissing
  <2>1. CASE n < made[s]
    <3>1. PICK k \in 1..Len(r) : r[k] = ComputeTask(s, n)
      BY <1>1, <2>1 DEF StreamOK, NothingIsMissing
    <3> QED
      BY <1>1, <3>1
  <2>2. CASE ~(n < made[s])
    <3>1. x = ComputeTask(s, n)
      BY <2>2
    <3> QED
      BY <1>1, <3>1, last \in 1..last
  <2> QED
    BY <2>1, <2>2
<1> QED
    BY <1>5, <1>6, <1>7, <1>8 DEF StreamOK, st

\* The next iteration begins.
LEMMA OrderLater ==
    ASSUME NEW r \in Bundle, NEW samples \in SUBSET Sample, NEW now \in Nat,
           NEW loss \in [Sample -> Int], NEW made, StreamOK(r, samples, now, loss, made)
    PROVE  StreamOK(r, samples, now + 1, loss, made)
<1>1. \A k \in DOMAIN r : r[k].iter \in Nat
    BY TaskFacts, LenProperties, ElementOfSeq DEF Bundle
<1>2. \A s \in samples : loss[s] \in Int
    OBVIOUS
<1> QED
    BY <1>1, <1>2 DEF StreamOK, NothingIsAhead, LossesAreOlder

-----------------------------------------------------------------------------
LEMMA OneWorkerInit == Init => OneWorkerInOrder(<<>>, <<>>)
<1> SUFFICES ASSUME Init, NEW w \in Worker
    PROVE  StreamOK(Stream(<<>>, <<>>, w), option.samples, iter, losses, MadeOf)
    BY DEF OneWorkerInOrder
<1>1. /\ bundle = <<>>
      /\ \A t \in Getter : InHand(t) = <<>> /\ pos[t] = 1
      /\ Worker \subseteq Getter /\ Consumer \in Getter
    BY DEF Init, Pipeline!Init, InHand, Getter
<1>2. From(<<>>, 1) = <<>>
    BY FromFacts, ConcatFacts
<1>3. Stream(<<>>, <<>>, w) = <<>>
  <2>1. AtTheConsumer(<<>>) = <<>> /\ AtTheWorker(w) = <<>>
    BY <1>1, <1>2, ConcatFacts DEF AtTheConsumer, AtTheWorker
  <2> QED
    BY <1>1, <2>1, ConcatFacts DEF Stream
<1>4. /\ iter = 0 /\ option.samples \in SUBSET Sample
      /\ \A s \in option.samples : losses[s] = Never /\ MadeOf[s] = 0
    BY OptionFacts DEF Init, MadeOf, Made
<1> QED
    BY <1>3, <1>4 DEF StreamOK, InOrder, NothingIsAhead, LossesAreOlder, NothingIsMissing,
        Never

LEMMA OneWorkerStep ==
    ASSUME Base, [Next]_vars,
           NEW waiting \in Bundle, NEW waiting2, NEW coming \in Bundle, NEW coming2,
           Follows(toWork, toWork', waiting, waiting2),
           Follows(toConsume, toConsume', coming, coming2), OneWorkerInOrder(waiting, coming)
    PROVE  OneWorkerInOrder(waiting2, coming2)'
<1> SUFFICES ASSUME NEW w \in Worker, OnlyWorker(w)', ~Similarity
    PROVE  StreamOK(Stream(waiting2, coming2, w)', option.samples, iter', losses', MadeOf')
    BY OptionKept DEF OneWorkerInOrder, Similarity
<1> DEFINE loser   == IF option.program = "BpNetwork" THEN Consumer ELSE w
           stream  == Stream(waiting, coming, w)
           stream2 == Stream(waiting2, coming2, w)'
<1> USE RolesApart
<1>0. /\ Base' /\ Move /\ option' = option /\ ProducerShape
      /\ option.samples \in SUBSET Sample /\ option.iterations \in Nat
      /\ option.program \in {"BpNetwork", "CfAutoEncoder"}
      /\ iter \in Nat /\ losses \in [Sample -> Int]
      /\ Worker \subseteq Getter /\ Consumer \in Getter
      /\ held \in [Getter -> Bundle \cup {NoTask}] /\ pos \in [Getter -> Nat \ {0}]
  <2>1. /\ Base' /\ Move /\ option' = option /\ ProducerShape
        /\ option.samples \in SUBSET Sample /\ option.iterations \in Nat
        /\ option.program \in {"BpNetwork", "CfAutoEncoder"} /\ iter \in Nat
    BY BaseStep, NextMoves, OptionKept, OptionFacts, BundleAssumption
        DEF Base, Shape, ProducerShape, OptionType, Similarity
  <2>2. losses \in [Sample -> Int]
    BY <2>1 DEF Base, Shape, ResultsShape, Never
  <2>3. /\ Worker \subseteq Getter /\ Consumer \in Getter
        /\ held \in [Getter -> Bundle \cup {NoTask}] /\ pos \in [Getter -> Nat \ {0}]
    BY DEF Base, Shape, PipelineShape, PositionsShape, Getter
  <2> QED
    BY <2>1, <2>2, <2>3
<1>1. OnlyWorker(w)
    BY <1>0 DEF OnlyWorker, Move, ProducerPuts, WorkerGets, WorkerPuts, ConsumerGets,
        ConsumerDrops, Proceeds, Leaves, Stays
<1>2. StreamOK(stream, option.samples, iter, losses, MadeOf) /\ stream \in Bundle
    BY <1>1, StreamType DEF OneWorkerInOrder
\* A step that leaves the queues alone leaves the tasks in them.
<1>3. UNCHANGED <<toWork, toConsume>> => waiting2 = waiting /\ coming2 = coming
    BY WaitingMoves, ComingMoves
<1>4. \A v \in Worker : AtTask(v) => v = w
    BY <1>1, HoldersAreWorking DEF AtTask
\* A move that neither makes a task nor stores a loss.
<1>5. ASSUME ProducerPuts \/ UNCHANGED bundle,
             option.program = "BpNetwork" =>
                 ~Proceeds(Consumer) /\ (ConsumerDrops => AtEnd(Consumer)),
             option.program # "BpNetwork" => ~Proceeds(w),
             UNCHANGED <<iter, losses, MadeOf>>
      PROVE  StreamOK(stream2, option.samples, iter', losses', MadeOf')
    BY <1>0, <1>2, <1>5, StreamKept
\* A task is done.
<1>6. ASSUME Proceeds(loser), UNCHANGED <<iter, MadeOf>>,
             \/ At(loser, "Compute") /\ Store(Current(loser))
             \/ At(loser, "Monitor") /\ UNCHANGED losses
      PROVE  StreamOK(stream2, option.samples, iter', losses', MadeOf')
  <2>1. /\ stream = <<Current(loser)>> \o stream2 /\ stream2 \in Bundle
        /\ Current(loser) \in Task
    <3>1. UNCHANGED <<toWork, toConsume>>
      BY <1>6 DEF Proceeds, pipeline
    <3> QED
      BY <1>0, <1>6, <1>3, <3>1, StreamDrops
  <2>2. \/ /\ Current(loser).type = "Compute"
           /\ losses' = [losses EXCEPT ![Current(loser).sample] = Current(loser).iter]
        \/ Current(loser).type = "Monitor" /\ losses' = losses
    BY <1>6 DEF At, Store
  <2>3. StreamOK(stream2, option.samples, iter, losses', MadeOf)
    BY <1>0, <1>2, <2>1, <2>2, OrderDropped
  <2> QED
    BY <1>6, <2>3
<1>7. MadeOf' = MadeOf \/ \E s \in Sample : AddComputeTask(s)
    BY <1>0
        DEF MadeOf, Made, ProducerShape, Next, vars, making, ProducerRun, PutFullBundle,
            EndIteration, PutLastBundle, ProducerDone, WorkerRun, WorkerGetTask,
            WorkerComputes, WorkerSkips, WorkerReports, StartReport, FinishReport,
            WorkerPutTask, WorkerDone, ConsumerRun, ConsumerGetTask, ConsumerStores,
            ConsumerReports, ConsumerDropTask, ConsumerDone, MonitorEnds, MonitorSleeps,
            Finished
\* A step of the producer or of anybody who leaves the bundles alone.
<1>8. ASSUME UNCHANGED <<held, pos>>, ProducerPuts \/ UNCHANGED bundle,
             UNCHANGED <<iter, losses, MadeOf>>
      PROVE  StreamOK(stream2, option.samples, iter', losses', MadeOf')
    BY <1>0, <1>5, <1>8 DEF Proceeds, Advance, ConsumerDrops
<1>9. CASE PutFullBundle \/ PutLastBundle
  <2>1. ProducerPuts /\ UNCHANGED <<iter, losses>> /\ \A s : ~AddComputeTask(s)
    BY <1>9, PutMoves DEF PutFullBundle, PutLastBundle, results, AddComputeTask
  <2> QED
    BY <1>7, <1>8, <2>1 DEF ProducerPuts
<1>10. ASSUME NEW u \in Sample, AddComputeTask(u)
       PROVE  StreamOK(stream2, option.samples, iter', losses', MadeOf')
  <2> DEFINE x == ComputeTask(u, iter)
  <2>1. x \in Task /\ x.type = "Compute" /\ x.iter = iter
    BY <1>0, TaskFacts
  <2>2. UNCHANGED <<pipeline, pos, option, iter, losses>> /\ bundle' = Append(bundle, x)
    BY <1>10 DEF AddComputeTask, results
  <2>3. stream2 = stream \o <<x>>
    BY <1>3, <2>1, <2>2, StreamAppends DEF pipeline
  <2>4. \A s \in option.samples :
            \/ MadeOf'[s] = MadeOf[s]
            \/ s = u /\ MadeOf[s] = iter /\ MadeOf'[s] = iter + 1
    BY <1>0, <1>10 DEF AddComputeTask, MadeOf, Made
  <2>5. \A s \in option.samples :
            \/ MadeOf'[s] = MadeOf[s]
            \/ x = ComputeTask(s, iter) /\ MadeOf[s] = iter /\ MadeOf'[s] = iter + 1
    BY <2>4
  <2> HIDE DEF x
  <2>6. StreamOK(stream \o <<x>>, option.samples, iter', losses, MadeOf')
    <3>1. /\ option.samples \in SUBSET Sample /\ iter \in Nat /\ iter' = iter
          /\ losses \in [Sample -> Int] /\ x.type # "Monitor"
      BY <1>0, <2>1, <2>2
    <3> QED
      BY ONLY <1>2, <2>1, <2>5, <3>1, OrderAppended
  <2> QED
    BY <2>2, <2>3, <2>6
<1>11. CASE EndIteration
  <2> DEFINE x == MonitorTask(iter)
  <2>1. x \in Task /\ x.type = "Monitor" /\ x.iter = iter
    BY <1>0, TaskFacts
  <2>2. /\ UNCHANGED <<pipeline, pos, option, losses>> /\ iter' = iter + 1
        /\ bundle' = Append(bundle, x) \/ UNCHANGED bundle
        /\ UNCHANGED <<held, pos, toWork>> /\ \A s : ~AddComputeTask(s)
    BY <1>11 DEF EndIteration, results, pipeline, AddComputeTask
  <2>3. MadeOf' = MadeOf
    BY <1>7, <2>2
  <2>4. CASE bundle' = Append(bundle, x)
    <3>1. stream2 = stream \o <<x>>
      BY <1>3, <2>1, <2>2, <2>4, StreamAppends DEF pipeline
    <3> HIDE DEF x
    <3>2. /\ option.samples \in SUBSET Sample /\ iter \in Nat /\ iter' = iter + 1
          /\ losses \in [Sample -> Int]
      BY <1>0, <2>2
    <3>3. StreamOK(stream \o <<x>>, option.samples, iter', losses, MadeOf')
      BY ONLY <1>2, <2>1, <2>3, <3>2, OrderAppended
    <3> QED
      BY <2>2, <2>3, <3>1, <3>3
  <2>5. CASE UNCHANGED bundle
    <3>1. ~Proceeds(Consumer) /\ ~Proceeds(w) /\ ~ConsumerDrops
      BY <1>0, <2>2 DEF Proceeds, Advance, ConsumerDrops
    <3>2. stream2 = stream
      BY <1>0, <2>5, <3>1, StreamKept
    <3>3. StreamOK(stream, option.samples, iter + 1, losses, MadeOf)
      BY <1>0, <1>2, OrderLater
    <3> QED
      BY <2>2, <2>3, <3>2, <3>3
  <2> QED
    BY <2>2, <2>4, <2>5
<1>12. CASE ProducerDone
  <2>1. /\ UNCHANGED <<held, pos, bundle, iter, losses>> /\ \A s : ~AddComputeTask(s)
    BY <1>12 DEF ProducerDone, Pipeline!ProducerDone, results, AddComputeTask
  <2> QED
    BY <1>7, <1>8, <2>1
<1>13. ASSUME NEW v \in Worker, WorkerRun(v)
       PROVE  StreamOK(stream2, option.samples, iter', losses', MadeOf')
  <2>0. UNCHANGED <<bundle, iter, MadeOf>>
    <3>1. UNCHANGED <<bundle, iter>>
      BY <1>13 DEF WorkerRun, WorkerGetTask, WorkerComputes, WorkerSkips, WorkerReports,
          StartReport, FinishReport, WorkerPutTask, WorkerDone, making
    <3>2. \A s : ~AddComputeTask(s)
      BY <1>13 DEF WorkerRun, WorkerGetTask, WorkerComputes, WorkerSkips, WorkerReports,
          StartReport, FinishReport, WorkerPutTask, WorkerDone, making, AddComputeTask
    <3> QED
      BY <1>7, <3>1, <3>2
  <2>1. CASE WorkerGetTask(v)
    <3>1. WorkerGets(v) /\ UNCHANGED losses
      BY <2>1, GetMoves DEF WorkerGetTask, results
    <3>2. ~Proceeds(Consumer) /\ ~Proceeds(w) /\ ~ConsumerDrops
      BY <1>0, <3>1 DEF WorkerGets, Proceeds, Advance, ConsumerDrops
    <3> QED
      BY <1>5, <2>0, <3>1, <3>2
  <2>2. CASE WorkerPutTask(v)
    <3>1. WorkerPuts(v) /\ UNCHANGED losses
      BY <2>2, WorkerPutMoves DEF WorkerPutTask, results
    <3>2. ~Proceeds(Consumer) /\ ~Proceeds(w) /\ ~ConsumerDrops
      BY <1>0, <3>1 DEF WorkerPuts, Proceeds, pipeline, ConsumerDrops
    <3> QED
      BY <1>5, <2>0, <3>1, <3>2
  <2>3. CASE WorkerComputes(v)
    <3>1. v = w /\ Proceeds(w) /\ At(w, "Compute")
      BY <1>4, <2>3, TaskMoves DEF WorkerComputes, At
    <3>2. CASE option.program = "BpNetwork"
      <4>1. UNCHANGED losses
        BY <2>3, <3>2 DEF WorkerComputes, WorkersStore
      <4>2. ~Proceeds(Consumer) /\ ~ConsumerDrops
        BY <1>0, <3>1 DEF Proceeds, Advance, pipeline, ConsumerDrops
      <4> QED
        BY <1>5, <2>0, <3>2, <4>1, <4>2
    <3>3. CASE option.program # "BpNetwork"
      <4>1. Store(Current(w))
        BY <1>0, <2>3, <3>1, <3>3 DEF WorkerComputes, WorkersStore
      <4> QED
        BY <1>6, <2>0, <3>1, <3>3, <4>1
    <3> QED
      BY <3>2, <3>3
  <2>4. CASE WorkerSkips(v)
    <3>1. v = w /\ Proceeds(w) /\ UNCHANGED losses /\ option.program = "BpNetwork"
      BY <1>4, <2>4, TaskMoves DEF WorkerSkips, At, results
    <3>2. ~Proceeds(Consumer) /\ ~ConsumerDrops
      BY <1>0, <3>1 DEF Proceeds, Advance, pipeline, ConsumerDrops
    <3> QED
      BY <1>5, <2>0, <3>1, <3>2
  <2>5. CASE WorkerReports(v) /\ StartReport(v)
    BY <1>8, <2>0, <2>5 DEF StartReport, pipeline, results
  <2>6. CASE WorkerReports(v) /\ FinishReport(v)
    <3>1. At(v, "Monitor") /\ option.program # "BpNetwork" /\ UNCHANGED losses
      BY <2>6 DEF WorkerReports, FinishReport, Base, ReportersAreAtMonitors, results
    <3>2. v = w /\ Proceeds(w)
      BY <1>4, <2>6, <3>1, TaskMoves DEF At
    <3> QED
      BY <1>6, <2>0, <3>1, <3>2
  <2>7. CASE WorkerDone(v)
    BY <1>8, <2>0, <2>7 DEF WorkerDone, Pipeline!WorkerDone, results
  <2> QED
    BY <1>13, <2>1, <2>2, <2>3, <2>4, <2>5, <2>6, <2>7 DEF WorkerRun, WorkerReports
<1>14. CASE ConsumerRun
  <2>0. UNCHANGED <<bundle, iter, MadeOf>>
    <3>1. UNCHANGED <<bundle, iter>> /\ \A s : ~AddComputeTask(s)
      BY <1>14 DEF ConsumerRun, ConsumerGetTask, ConsumerStores, ConsumerReports,
          StartReport, FinishReport, ConsumerDropTask, ConsumerDone, making, AddComputeTask
    <3> QED
      BY <1>7, <3>1
  <2>1. CASE ConsumerGetTask
    <3>1. ConsumerGets /\ UNCHANGED losses
      BY <2>1, ConsumerGetMoves DEF ConsumerGetTask, results
    <3>2. ~Proceeds(Consumer) /\ ~Proceeds(w) /\ ~ConsumerDrops
      BY <1>0, <3>1 DEF ConsumerGets, Proceeds, Advance, ConsumerDrops
    <3> QED
      BY <1>5, <2>0, <3>1, <3>2
  <2>2. CASE ConsumerDropTask
    <3>1. ConsumerDrops /\ UNCHANGED losses
      BY <2>2, DropMoves DEF ConsumerDropTask
    <3>2. ~Proceeds(Consumer) /\ ~Proceeds(w)
      BY <1>0, <3>1 DEF ConsumerDrops, Proceeds, pipeline
    <3>3. option.program = "BpNetwork" => AtEnd(Consumer)
      BY <2>2 DEF ConsumerDropTask, WorkersStore
    <3> QED
      BY <1>5, <2>0, <3>1, <3>2, <3>3
  <2>3. CASE ConsumerStores
    <3>1. /\ option.program = "BpNetwork" /\ Proceeds(Consumer) /\ At(Consumer, "Compute")
          /\ Store(Current(Consumer))
      BY <1>0, <2>3, TaskMoves DEF ConsumerStores, WorkersStore
    <3> QED
      BY <1>6, <2>0, <3>1
  <2>4. CASE ConsumerReports /\ FinishReport(Consumer)
    <3>1. /\ option.program = "BpNetwork" /\ Proceeds(Consumer) /\ At(Consumer, "Monitor")
          /\ UNCHANGED losses
      BY <2>4, TaskMoves
          DEF ConsumerReports, FinishReport, Base, ReportersAreAtMonitors, results
    <3> QED
      BY <1>6, <2>0, <3>1
  <2>5. CASE StartReport(Consumer) \/ ConsumerDone
    BY <1>8, <2>0, <2>5
        DEF StartReport, ConsumerDone, Pipeline!ConsumerDone, pipeline, results
  <2> QED
    BY <1>14, <2>1, <2>2, <2>3, <2>4, <2>5 DEF ConsumerRun, ConsumerReports
<1>15. CASE MonitorEnds \/ MonitorSleeps \/ Finished \/ UNCHANGED vars
  <2>1. UNCHANGED <<held, pos, bundle, iter, losses, MadeOf>>
    <3>1. UNCHANGED <<pipeline, pos, making, results, option>>
      BY <1>15 DEF MonitorEnds, MonitorSleeps, Finished, vars
    <3> QED
      BY <3>1 DEF MadeOf, Made, pipeline, making, results
  <2> QED
    BY <1>8, <2>1
<1> QED
  <2> USE DEF Next, ProducerRun
  <2>1. CASE ProducerRun
    BY <1>9, <1>10, <1>11, <1>12, <2>1
  <2> QED
    BY <1>13, <1>14, <1>15, <2>1

Ordered ==
    /\ Base
    /\ \E waiting, coming \in Bundle :
          /\ IsFlat(waiting, toWork) /\ IsFlat(coming, toConsume)
          /\ OneWorkerInOrder(waiting, coming)

LEMMA OrderedStep == Ordered /\ [Next]_vars => Ordered'
<1> SUFFICES ASSUME Base, [Next]_vars, NEW waiting \in Bundle, NEW coming \in Bundle,
                    IsFlat(waiting, toWork), IsFlat(coming, toConsume),
                    OneWorkerInOrder(waiting, coming)
    PROVE  Ordered'
    BY DEF Ordered
<1>1. Base' /\ Move
    BY BaseStep, NextMoves
<1>2. PICK waiting2 : Follows(toWork, toWork', waiting, waiting2)
    BY <1>1, WaitingFollows
<1>3. PICK coming2 : Follows(toConsume, toConsume', coming, coming2)
    BY <1>1, ComingFollows
<1>4. /\ waiting2 \in Bundle /\ IsFlat(waiting2, toWork)'
      /\ coming2 \in Bundle /\ IsFlat(coming2, toConsume)'
    BY <1>2, <1>3, WaitingMoves, ComingMoves
<1>5. OneWorkerInOrder(waiting2, coming2)'
    BY <1>2, <1>3, OneWorkerStep
<1> QED
    BY <1>1, <1>4, <1>5 DEF Ordered

(* While one worker does all the work, the loss reported as that of an     *)
(* iteration is made of the losses of that iteration: the report would     *)
(* find a loss only older than its iteration, and the task that makes that *)
(* up would follow the Monitor task, which the order forbids.              *)
THEOREM ReportsAreOfTheIteration == Spec => []ReportsTheIteration
<1>1. Init => Ordered
  <2>1. Init => IsFlat(<<>>, toWork) /\ IsFlat(<<>>, toConsume) /\ <<>> \in Bundle
    BY FlatOfNone, ConcatFacts DEF Init, Pipeline!Init
  <2> QED
    BY <2>1, BaseInit, OneWorkerInit DEF Ordered
<1>2. Ordered /\ [Next]_vars => Ordered'
    BY OrderedStep
<1>3. Ordered => ReportsTheIteration
  <2> SUFFICES ASSUME Base, NEW waiting \in Bundle, NEW coming \in Bundle,
                      OneWorkerInOrder(waiting, coming),
                      Cardinality(worked) <= 1, NEW t \in reporting,
                      NEW s \in option.samples
      PROVE  losses[s] = Current(t).iter
    BY DEF ReportsTheIteration, Ordered
  <2> USE RolesApart
  <2>0. /\ t \in Getter /\ At(t, "Monitor")
        /\ option.program = IF t = Consumer THEN "BpNetwork" ELSE "CfAutoEncoder"
        /\ option.samples \in SUBSET Sample /\ iter \in Nat
        /\ losses \in [Sample -> Int] /\ worked \subseteq Worker
        /\ held \in [Getter -> Bundle \cup {NoTask}] /\ pos \in [Getter -> Nat \ {0}]
        /\ ProducerShape /\ option.iterations \in Nat
    BY OptionFacts
        DEF Base, ReportersAreAtMonitors, Shape, ProducerShape, ResultsShape, PipelineShape,
            PositionsShape, Never
  <2>1. PICK w \in Worker : OnlyWorker(w) /\ (t \in Worker => t = w)
    <3>1. CASE worked = {}
      <4>1. t \notin Worker
        BY <2>0, <3>1 DEF At, AtTask, Base, Shape, PipelineShape
      <4> QED
        BY <3>1, <4>1, BundleAssumption DEF OnlyWorker
    <3>2. ASSUME NEW w \in worked PROVE \E v \in Worker : OnlyWorker(v) /\ (t \in Worker => t = v)
      <4>1. IsFiniteSet(worked) /\ Cardinality(worked) \in Nat
        BY <2>0, SubsetCardinality
      <4>2. ASSUME NEW v \in worked, v # w PROVE FALSE
        <5>1. IsFiniteSet({w}) /\ Cardinality({w}) = 1
          BY FS_Singleton
        <5>2. Cardinality(worked) >= Cardinality({w}) + 1
          BY <4>1, <4>2, <5>1, OneMore
        <5> QED
          BY <4>1, <5>1, <5>2
      <4>3. OnlyWorker(w)
        BY <4>2 DEF OnlyWorker
      <4> QED
        BY <2>0, <4>3, HoldersAreWorking DEF At, AtTask
    <3> QED
      BY <3>1, <3>2
\* The Monitor task is the first in the stream.
  <2> DEFINE n == Current(t).iter
             b == held[t]
             st == Stream(waiting, coming, w)
  <2>2. /\ StreamOK(st, option.samples, iter, losses, MadeOf)
        /\ AtTheConsumer(coming) \in Bundle /\ AtTheWorker(w) \in Bundle /\ bundle \in Bundle
    BY <2>0, <2>1, StreamType DEF OneWorkerInOrder, Similarity
  <2>3. /\ b \in Bundle /\ pos[t] \in Nat \ {0} /\ pos[t] <= Len(b) /\ Current(t) \in Task
        /\ Current(t) = b[pos[t]] /\ InHand(t) = b
    BY <2>0, CurrentFacts, LenProperties DEF At, AtTask, Current, Bundle, InHand
  <2> DEFINE rest == From(b, pos[t] + 1)
             x    == Current(t)
  <2>4. From(b, pos[t]) = <<x>> \o rest /\ rest \in Bundle
    <3>1. From(b, pos[t]) = <<b[pos[t]]>> \o From(b, pos[t] + 1)
      BY <2>3, FromFirst, Zenon
    <3>2. pos[t] + 1 \in Nat \ {0}
      BY <2>3
    <3> QED
      BY <2>3, <3>1, <3>2, FromFacts
  <2>5. \E r \in Bundle : st = <<x>> \o r
    <3> DEFINE inW  == AtTheWorker(w)
               more == waiting \o bundle
    <3>1. more \in Bundle /\ inW \o more \in Bundle /\ <<x>> \in Bundle
      BY <2>2, <2>3, ConcatFacts
    <3>2. CASE t = Consumer
      <4>1. st = ((<<x>> \o rest) \o coming) \o (inW \o more)
        BY <2>0, <2>3, <2>4, <3>2 DEF Stream, AtTheConsumer
      <4> HIDE DEF st, x, rest, inW, more
      <4>2. ((<<x>> \o rest) \o coming) \o (inW \o more)
                = <<x>> \o ((rest \o coming) \o (inW \o more))
            /\ (rest \o coming) \o (inW \o more) \in Bundle
        <5>1. x \in Task /\ rest \in Bundle
          BY <2>2, <2>3, <2>4 DEF x
        <5> QED
          BY <3>1, <5>1, FirstOfAll, Zenon
      <4> QED
        BY <4>1, <4>2
    <3>3. CASE t # Consumer
      <4>1. t = w /\ st = <<>> \o ((<<x>> \o rest) \o more)
        BY <2>0, <2>1, <2>3, <2>4, <3>3 DEF Stream, AtTheConsumer, AtTheWorker, Getter
      <4> HIDE DEF st, x, rest, inW, more
      <4>2. /\ (<<x>> \o rest) \o more = <<x>> \o (rest \o more) /\ rest \o more \in Bundle
            /\ <<x>> \o (rest \o more) \in Bundle
        <5>1. x \in Task /\ rest \in Bundle /\ more \in Bundle
          BY <2>3, <2>4, <3>1 DEF x
        <5> QED
          BY ONLY <5>1, FirstOfTwo
      <4> QED
        BY <4>1, <4>2, ConcatFacts
    <3> QED
      BY <3>2, <3>3
  <2>6. PICK r \in Bundle : st = <<x>> \o r
    BY <2>5
  <2> HIDE DEF st
  <2>7. /\ 1 \in DOMAIN st /\ st[1] = x /\ \A k \in DOMAIN st : k \in Nat \ {0}
        /\ x.type = "Monitor" /\ n \in Nat /\ x.iter = n
    BY <2>0, <2>3, <2>6, FirstFacts, TaskFacts DEF At
  <2>8. n < iter /\ losses[s] <= n /\ losses[s] \in Int
    BY <2>0, <2>2, <2>7 DEF StreamOK, NothingIsAhead, LossesAreOlder
  <2>9. n < MadeOf[s]
    <3>1. MadeOf[s] = iter \/ MadeOf[s] = iter + 1
      BY <2>0 DEF MadeOf, Made
    <3> QED
      BY <2>0, <2>7, <2>8, <3>1
  <2>10. ASSUME losses[s] < n PROVE FALSE
    <3>1. PICK k \in DOMAIN st : st[k] = ComputeTask(s, n)
      BY <2>2, <2>7, <2>9, <2>10 DEF StreamOK, NothingIsMissing
    <3>2. st[k].type = "Compute" /\ st[k].iter = n
      BY <2>0, <2>7, <3>1, TaskFacts
    <3>3. k # 1 /\ 1 < k
      BY <2>7, <3>2
    <3> QED
      BY <2>2, <2>7, <3>2, <3>3 DEF StreamOK, InOrder
  <2> QED
    BY <2>7, <2>8, <2>10
<1> QED
    BY <1>1, <1>2, <1>3, PTL DEF Spec
=============================================================================
