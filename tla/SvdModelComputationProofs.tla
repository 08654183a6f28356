---------------------- MODULE SvdModelComputationProofs ----------------------
(***************************************************************************)
(* The blocks in training never share a row or a column, for any grid, any *)
(* number of workers and any number of iterations, when the training is    *)
(* not monitored; and when the training is over each block has been        *)
(* trained as often as the producer's counts say.                          *)
(*                                                                         *)
(* A scheduled block is in one of the places of the pipeline: just chosen  *)
(* by the producer, in one of the two queues of one place, or in the hands *)
(* of a worker or of the consumer.  From when it is chosen until the       *)
(* consumer unblocks them its row and its column are blocked, so a block   *)
(* that is free has neither in common with one on its way.                 *)
(***************************************************************************)
EXTENDS SvdModelComputationMT, SequenceTheorems, WellFoundedInduction, TLAPS

Chosen      == <<"put", Producer>>
InToWork    == <<"toWork", Producer>>
InToConsume == <<"toConsume", Consumer>>
InHand(t)   == <<"held", t>>

Slot == {Chosen, InToWork, InToConsume} \cup {InHand(t) : t \in Worker \cup {Consumer}}

TaskAt(s) ==
    CASE s[1] = "put"       -> IF producer = "put" THEN ComputeTask(chosen) ELSE NoTask
      [] s[1] = "toWork"    -> IF toWork = <<>> THEN NoTask ELSE Head(toWork)
      [] s[1] = "toConsume" -> IF toConsume = <<>> THEN NoTask ELSE Head(toConsume)
      [] s[1] = "held"      -> held[s[2]]

BlockAt(s) == TaskAt(s).gridId

Occupied == {s \in Slot : TaskAt(s) # NoTask}

\* Between its two assignments the consumer has unblocked the row.
Unblocking(s) == s = InHand(Consumer) /\ stage[Consumer] = "unblocking"

OnlyCompute == \A s \in Occupied : TaskAt(s) \in {ComputeTask(g) : g \in Grid}

Apart ==
    \A r, s \in Occupied :
        r # s => RowOf(BlockAt(r)) # RowOf(BlockAt(s)) /\ ColOf(BlockAt(r)) # ColOf(BlockAt(s))

Blocked ==
    \A s \in Occupied :
        /\ ColOf(BlockAt(s)) \in colBlocked
        /\ RowOf(BlockAt(s)) \in rowBlocked \/ Unblocking(s)

\* A queue of one place holds one task, and whoever is busy has one in hand.
OneEach == Len(toWork) <= 1 /\ Len(toConsume) <= 1
Busy == \A t \in Worker \cup {Consumer} : stage[t] # "ready" => held[t] # NoTask

\* A block on its way is apart from every other and blocked.
OnTheirWay == OnlyCompute /\ Apart /\ Blocked /\ producer # "report"

(* The inductive invariant: the last part says what the flags are for, the *)
(* first two that each place of the pipeline holds at most one task.       *)
GridInv == OneEach /\ Busy /\ (~option.monitor => OnTheirWay)

-----------------------------------------------------------------------------
\* The fewest iterations of a block are some block's iterations.
LEMMA MinIterationInNat ==
    ASSUME NEW count \in [Grid -> Nat]
    PROVE  MinIteration(count) \in Nat /\ \A g \in Grid : MinIteration(count) <= count[g]
<1> DEFINE Counts == {count[g] : g \in Grid}
           Less == OpToRel(<, Nat)
<1>1. <<FirstRow, FirstCol>> \in Grid
    BY GridAssumption DEF Grid
<1>2. Counts \subseteq Nat /\ Counts # {}
    BY <1>1
<1>3. PICK n \in Counts : \A m \in Counts : ~ (<<m, n>> \in Less)
    <2>1. IsWellFoundedOn(Less, Nat)
        BY NatLessThanWellFounded
    <2> HIDE DEF Counts, Less
    <2> QED
        BY <1>2, <2>1, WFMin
<1>4. \A m \in Counts : n <= m
    <2> SUFFICES ASSUME NEW m \in Counts PROVE n <= m
        OBVIOUS
    <2>1. m \in Nat /\ n \in Nat
        BY <1>2
    <2>2. ~ (m < n)
        BY <1>3, <2>1 DEF OpToRel
    <2> QED
        BY <2>1, <2>2
<1>5. \A g \in Grid : n <= count[g]
    BY <1>4
<1>6. \E k \in Counts : \A g \in Grid : k <= count[g]
    BY <1>5
<1> QED
    BY <1>2, <1>6 DEF MinIteration

LEMMA TaskTypes ==
    /\ \A g \in Grid : ComputeTask(g) \in Task /\ ComputeTask(g).gridId = g
                       /\ ComputeTask(g).type = "Compute"
    /\ \A n \in Nat : MonitorTask(n) \in Task
    /\ NoTask \notin Task
BY GridAssumption DEF ComputeTask, MonitorTask, Task, Grid

LEMMA TypeInit == Init => TypeOK
BY GridAssumption DEF Init, TypeOK, Pipeline!Init, Grid, Producer, Consumer

\* The end of the producer's loop leaves the producer somewhere in it.
LEMMA EndOfLoopType ==
    ASSUME TypeOK, EndOfLoop
    PROVE  /\ producer' \in {"scan", "report", "done"}
           /\ scanned' \subseteq Grid
           /\ lastIter' \in Nat \cup {-1}
           /\ producer' = "report" => option.monitor /\ lastIter' \in Nat
<1>1. MinIteration(iterationCount) \in Nat
    BY MinIterationInNat DEF TypeOK
<1>2. Free \subseteq Grid
    BY DEF Free
<1> HIDE DEF Free
<1> QED
    BY <1>1, <1>2 DEF EndOfLoop, BreakOrScan, TypeOK

\* The iteration to report is one that is over.
Reportable == producer = "report" => lastIter \in Nat

LEMMA TypeStep == TypeOK /\ Reportable /\ [Next]_vars => TypeOK' /\ Reportable'
<1> SUFFICES ASSUME TypeOK, Reportable, [Next]_vars PROVE TypeOK' /\ Reportable'
    OBVIOUS
<1> USE DEF Reportable
<1>1. CASE UNCHANGED vars
    BY <1>1 DEF TypeOK, vars, pipeline, flags, locals
<1>2. ASSUME NEW g \in Grid, Schedule(g) PROVE TypeOK' /\ Reportable'
    <2>1. RowOf(g) \in Row /\ ColOf(g) \in Col
        BY DEF Grid, RowOf, ColOf
    <2>2. iterationCount' \in [Grid -> Nat]
        BY <1>2 DEF Schedule, Block, TypeOK
    <2> QED
        BY <1>2, <2>1, <2>2 DEF Schedule, Block, TypeOK, pipeline
<1>3. CASE Sleep
    BY <1>3, EndOfLoopType DEF Sleep, TypeOK, pipeline, flags
<1>4. CASE PutComputeTask
    <2>1. toWork' \in Seq(Task)
        BY <1>4, TaskTypes, AppendProperties
            DEF PutComputeTask, Pipeline!ProducerPutTask, TypeOK
    <2> QED
        BY <1>4, <2>1, EndOfLoopType
            DEF PutComputeTask, Pipeline!ProducerPutTask, TypeOK, flags
<1>5. CASE PutMonitorTask
    <2>1. toWork' \in Seq(Task)
        BY <1>5, TaskTypes, AppendProperties
            DEF PutMonitorTask, Pipeline!ProducerPutTask, TypeOK
    <2>2. producer' \in {"scan", "done"} /\ scanned' \subseteq Grid
        BY <1>5 DEF PutMonitorTask, BreakOrScan, Free
    <2> QED
        BY <1>5, <2>1, <2>2 DEF PutMonitorTask, Pipeline!ProducerPutTask, TypeOK, flags
<1>6. CASE ProducerDone
    BY <1>6 DEF ProducerDone, Pipeline!ProducerDone, TypeOK, flags
<1>7. ASSUME NEW w \in Worker, WorkerGetTask(w) PROVE TypeOK' /\ Reportable'
    <2>1. Head(toWork) \in Task /\ toWork' \in Seq(Task)
        BY <1>7, HeadTailProperties DEF WorkerGetTask, Pipeline!WorkerGetTask, TypeOK
    <2> QED
        BY <1>7, <2>1 DEF WorkerGetTask, Pipeline!WorkerGetTask, TypeOK, flags, locals
<1>8. ASSUME NEW w \in Worker, StartComputeLoss(w) \/ Finish(w)
      PROVE  TypeOK' /\ Reportable'
    BY <1>8 DEF StartComputeLoss, Finish, TypeOK, pipeline, flags, locals
<1>9. ASSUME NEW w \in Worker, WorkerPutTask(w) PROVE TypeOK' /\ Reportable'
    <2>1. toConsume' \in Seq(Task)
        BY <1>9, AppendProperties DEF WorkerPutTask, Pipeline!WorkerPutTask, TypeOK
    <2> QED
        BY <1>9, <2>1 DEF WorkerPutTask, Pipeline!WorkerPutTask, TypeOK, flags, locals
<1>10. ASSUME NEW w \in Worker, WorkerDone(w) PROVE TypeOK' /\ Reportable'
    BY <1>10 DEF WorkerDone, Pipeline!WorkerDone, TypeOK, flags, locals
<1>11. CASE ConsumerGetTask
    <2>1. Head(toConsume) \in Task /\ toConsume' \in Seq(Task)
        BY <1>11, HeadTailProperties DEF ConsumerGetTask, Pipeline!ConsumerGetTask, TypeOK
    <2> QED
        BY <1>11, <2>1 DEF ConsumerGetTask, Pipeline!ConsumerGetTask, TypeOK, flags, locals
<1>12. CASE UnblockRow
    BY <1>12 DEF UnblockRow, TypeOK, pipeline, locals
<1>13. CASE UnblockColumn
    BY <1>13 DEF UnblockColumn, Pipeline!ConsumerDropTask, TypeOK, locals
<1>14. CASE ConsumerDone
    BY <1>14 DEF ConsumerDone, Pipeline!ConsumerDone, TypeOK, flags, locals
<1> QED
    BY <1>1, <1>2, <1>3, <1>4, <1>5, <1>6, <1>7, <1>8, <1>9, <1>10, <1>11, <1>12, <1>13, <1>14
        DEF Next, ProducerRun, WorkerRun, ConsumerRun, Finished

(* The flags are flags of the grid's rows and columns, the counts are      *)
(* counts, the tasks in the pipeline are tasks of the grid.                *)
THEOREM TypeCorrect == Spec => []TypeOK
<1>1. Init => TypeOK /\ Reportable
    BY TypeInit DEF Init, Reportable
<1>2. TypeOK /\ Reportable /\ [Next]_vars => (TypeOK /\ Reportable)'
    BY TypeStep
<1> QED
    BY <1>1, <1>2, PTL DEF Spec

-----------------------------------------------------------------------------
LEMMA Slots ==
    /\ Chosen # InToWork /\ Chosen # InToConsume /\ InToWork # InToConsume
    /\ \A t : InHand(t) # Chosen /\ InHand(t) # InToWork /\ InHand(t) # InToConsume
    /\ \A t, u : InHand(t) = InHand(u) => t = u
BY DEF Chosen, InToWork, InToConsume, InHand

\* The tasks stay where they are.
LEMMA NothingMoves ==
    ASSUME OnlyCompute, Apart, Blocked,
           \A s \in Slot : TaskAt(s)' = TaskAt(s),
           UNCHANGED flags, stage'[Consumer] = stage[Consumer]
    PROVE  OnlyCompute' /\ Apart' /\ Blocked'
<1>1. \A s \in Slot : BlockAt(s)' = BlockAt(s)
    BY DEF BlockAt
<1>2. Occupied' = Occupied
    BY DEF Occupied
<1>3. OnlyCompute'
    BY <1>2 DEF OnlyCompute, Occupied
<1>4. Apart'
    BY <1>1, <1>2 DEF Apart, Occupied
<1>5. Blocked'
    BY <1>1, <1>2 DEF Blocked, Occupied, Unblocking, flags
<1> QED
    BY <1>3, <1>4, <1>5

\* One task moves on to a place that was free.
LEMMA OneMoves ==
    ASSUME OnlyCompute, Apart, Blocked,
           NEW from \in Slot, NEW to \in Slot, from # to, from # InHand(Consumer),
           TaskAt(to)' = TaskAt(from), TaskAt(from)' = NoTask,
           \A s \in Slot \ {from, to} : TaskAt(s)' = TaskAt(s),
           UNCHANGED flags, stage'[Consumer] = stage[Consumer]
    PROVE  OnlyCompute' /\ Apart' /\ Blocked'
<1> DEFINE Source(s) == IF s = to THEN from ELSE s
<1>1. \A s \in Occupied' : /\ Source(s) \in Occupied /\ s # from /\ s \in Slot
                           /\ TaskAt(s)' = TaskAt(Source(s))
                           /\ BlockAt(s)' = BlockAt(Source(s))
    BY DEF Occupied, BlockAt
<1>2. \A r, s \in Occupied' : r # s => Source(r) # Source(s)
    BY <1>1
<1>3. \A s \in Occupied' : Unblocking(Source(s)) => Unblocking(s)'
    BY DEF Unblocking
<1> HIDE DEF Source
<1>4. OnlyCompute'
    BY <1>1 DEF OnlyCompute
<1>5. Apart'
    BY <1>1, <1>2 DEF Apart
<1>6. Blocked'
    BY <1>1, <1>3 DEF Blocked, flags
<1> QED
    BY <1>4, <1>5, <1>6

(* A free block that is chosen has neither its row nor its column in       *)
(* common with any block on its way.                                       *)
LEMMA OneStarts ==
    ASSUME OnlyCompute, Apart, Blocked, NEW g \in Grid, g \in Free,
           producer = "scan", stage[Consumer] # "unblocking",
           TaskAt(Chosen)' = ComputeTask(g),
           \A s \in Slot \ {Chosen} : TaskAt(s)' = TaskAt(s),
           rowBlocked' = rowBlocked \cup {RowOf(g)},
           colBlocked' = colBlocked \cup {ColOf(g)}
    PROVE  OnlyCompute' /\ Apart' /\ Blocked'
<1>1. RowOf(g) \notin rowBlocked /\ ColOf(g) \notin colBlocked
    BY DEF Free
<1>2. BlockAt(Chosen)' = g
    BY TaskTypes DEF BlockAt
<1>3. \A s \in Occupied' \ {Chosen} : /\ s \in Occupied /\ s \in Slot
                                      /\ TaskAt(s)' = TaskAt(s)
                                      /\ BlockAt(s)' = BlockAt(s)
    BY DEF Occupied, BlockAt
<1>4. \A s \in Occupied : RowOf(BlockAt(s)) \in rowBlocked /\ ColOf(BlockAt(s)) \in colBlocked
    BY DEF Blocked, Unblocking
<1>5. OnlyCompute'
    BY <1>3 DEF OnlyCompute
<1>6. Apart'
    <2> SUFFICES ASSUME NEW r \in Occupied', NEW s \in Occupied', r # s
                 PROVE  /\ RowOf(BlockAt(r)') # RowOf(BlockAt(s)')
                        /\ ColOf(BlockAt(r)') # ColOf(BlockAt(s)')
        BY DEF Apart, RowOf, ColOf
    <2>1. CASE r = Chosen
        BY <1>1, <1>2, <1>3, <1>4, <2>1
    <2>2. CASE s = Chosen
        BY <1>1, <1>2, <1>3, <1>4, <2>2
    <2>3. CASE r # Chosen /\ s # Chosen
        BY <1>3, <2>3 DEF Apart
    <2> QED
        BY <2>1, <2>2, <2>3
<1>7. Blocked'
    <2> SUFFICES ASSUME NEW s \in Occupied'
                 PROVE  RowOf(BlockAt(s)') \in rowBlocked' /\ ColOf(BlockAt(s)') \in colBlocked'
        BY DEF Blocked, RowOf, ColOf
    <2>1. CASE s = Chosen
        BY <1>2, <2>1
    <2>2. CASE s # Chosen
        BY <1>3, <1>4, <2>2
    <2> QED
        BY <2>1, <2>2
<1> QED
    BY <1>5, <1>6, <1>7

-----------------------------------------------------------------------------
\* What the places hold in terms of the variables, now and after a step.
LEMMA AtSlots ==
    /\ TaskAt(Chosen) = IF producer = "put" THEN ComputeTask(chosen) ELSE NoTask
    /\ TaskAt(InToWork) = IF toWork = <<>> THEN NoTask ELSE Head(toWork)
    /\ TaskAt(InToConsume) = IF toConsume = <<>> THEN NoTask ELSE Head(toConsume)
    /\ \A t : TaskAt(InHand(t)) = held[t]
    /\ TaskAt(Chosen)' = IF producer' = "put" THEN ComputeTask(chosen') ELSE NoTask
    /\ TaskAt(InToWork)' = IF toWork' = <<>> THEN NoTask ELSE Head(toWork')
    /\ TaskAt(InToConsume)' = IF toConsume' = <<>> THEN NoTask ELSE Head(toConsume')
    /\ \A t : TaskAt(InHand(t))' = held'[t]
BY DEF TaskAt, Chosen, InToWork, InToConsume, InHand, ComputeTask

\* A queue of one place: after a put it holds that task, after a get nothing.
LEMMA OnePlace ==
    ASSUME NEW q \in Seq(Task)
    PROVE  /\ Len(q) < 1 => q = <<>>
           /\ \A task \in Task : q = <<>> => Len(Append(q, task)) = 1
                                          /\ Head(Append(q, task)) = task
                                          /\ Append(q, task) # <<>>
           /\ Len(q) <= 1 /\ q # <<>> => Tail(q) = <<>> /\ Head(q) \in Task
<1>1. Len(q) < 1 => q = <<>>
    BY EmptySeq
<1>2. ASSUME NEW task \in Task, q = <<>>
      PROVE  Len(Append(q, task)) = 1 /\ Head(Append(q, task)) = task /\ Append(q, task) # <<>>
    <2>1. Len(q) = 0
        BY <1>2, EmptySeq
    <2> DEFINE longer == Append(q, task)
    <2>2. /\ longer \in Seq(Task) /\ longer # <<>>
          /\ Len(longer) = Len(q) + 1
          /\ longer[Len(q) + 1] = task
        BY AppendProperties
    <2> HIDE DEF longer
    <2>3. Len(longer) = 1 /\ longer[1] = task
        BY <2>1, <2>2
    <2>4. Head(longer) = task
        BY <2>2, <2>3
    <2> QED
        BY <2>2, <2>3, <2>4 DEF longer
<1>3. ASSUME Len(q) <= 1, q # <<>> PROVE Tail(q) = <<>> /\ Head(q) \in Task
    <2>1. Tail(q) \in Seq(Task) /\ Len(Tail(q)) = Len(q) - 1 /\ Head(q) \in Task
        BY <1>3, HeadTailProperties
    <2>2. Len(Tail(q)) <= 0
        BY <1>3, <2>1, LenProperties
    <2> QED
        BY <2>1, <2>2, EmptySeq
<1> QED
    BY <1>1, <1>2, <1>3

LEMMA OneEachStep == TypeOK /\ OneEach /\ [Next]_vars => OneEach'
<1> SUFFICES ASSUME TypeOK, OneEach, [Next]_vars PROVE OneEach'
    OBVIOUS
<1>0. Len(<<>>) = 0 /\ toWork \in Seq(Task) /\ toConsume \in Seq(Task)
    BY EmptySeq DEF TypeOK
<1>1. CASE UNCHANGED vars
    BY <1>1 DEF OneEach, vars, pipeline
<1>2. ASSUME NEW g \in Grid, Schedule(g) PROVE OneEach'
    BY <1>2 DEF Schedule, Block, OneEach, pipeline
<1>3. CASE Sleep
    BY <1>3 DEF Sleep, OneEach, pipeline
<1>4. CASE PutComputeTask
    <2>1. ComputeTask(chosen) \in Task
        BY TaskTypes DEF TypeOK
    <2> QED
        BY <1>0, <1>4, <2>1, AppendProperties
            DEF PutComputeTask, Pipeline!ProducerPutTask, OneEach
<1>5. CASE PutMonitorTask \/ ProducerDone
    <2>1. CASE PutMonitorTask
        <3>1. lastIter \in Nat \cup {-1}
            BY DEF TypeOK
        <3>2. Len(Append(toWork, MonitorTask(lastIter))) = Len(toWork) + 1
            BY <1>0, AppendProperties
        <3> QED
            BY <1>0, <2>1, <3>2 DEF PutMonitorTask, Pipeline!ProducerPutTask, OneEach
    <2>2. CASE ProducerDone
        BY <2>2 DEF ProducerDone, Pipeline!ProducerDone, OneEach
    <2> QED
        BY <1>5, <2>1, <2>2
<1>6. ASSUME NEW w \in Worker, WorkerGetTask(w) PROVE OneEach'
    BY <1>0, <1>6, OnePlace DEF WorkerGetTask, Pipeline!WorkerGetTask, OneEach
<1>7. ASSUME NEW w \in Worker, StartComputeLoss(w) \/ Finish(w) \/ WorkerDone(w) PROVE OneEach'
    BY <1>7 DEF StartComputeLoss, Finish, WorkerDone, Pipeline!WorkerDone, OneEach, pipeline
<1>8. ASSUME NEW w \in Worker, WorkerPutTask(w) PROVE OneEach'
    <2>1. held[w] \in Task
        BY <1>8 DEF WorkerPutTask, Pipeline!WorkerPutTask, TypeOK
    <2> QED
        BY <1>0, <1>8, <2>1, AppendProperties
            DEF WorkerPutTask, Pipeline!WorkerPutTask, OneEach
<1>9. CASE ConsumerGetTask
    BY <1>0, <1>9, OnePlace DEF ConsumerGetTask, Pipeline!ConsumerGetTask, OneEach
<1>10. CASE UnblockRow \/ UnblockColumn \/ ConsumerDone
    BY <1>10 DEF UnblockRow, UnblockColumn, ConsumerDone, Pipeline!ConsumerDropTask,
                 Pipeline!ConsumerDone, OneEach, pipeline
<1> QED
    BY <1>1, <1>2, <1>3, <1>4, <1>5, <1>6, <1>7, <1>8, <1>9, <1>10
        DEF Next, ProducerRun, WorkerRun, ConsumerRun, Finished

LEMMA BusyStep == TypeOK /\ Busy /\ [Next]_vars => Busy'
<1> SUFFICES ASSUME TypeOK, Busy, [Next]_vars PROVE Busy'
    OBVIOUS
<1> USE GridAssumption DEF Busy
<1>1. CASE UNCHANGED vars
    BY <1>1 DEF vars, pipeline
<1>2. CASE ProducerRun
    BY <1>2 DEF ProducerRun, Schedule, Sleep, PutComputeTask, PutMonitorTask, ProducerDone,
                Pipeline!ProducerPutTask, Pipeline!ProducerDone, pipeline
<1>3. ASSUME NEW w \in Worker, WorkerGetTask(w) PROVE Busy'
    <2>1. Head(toWork) # NoTask
        BY <1>3, HeadTailProperties DEF WorkerGetTask, Pipeline!WorkerGetTask, TypeOK
    <2> QED
        BY <1>3, <2>1 DEF WorkerGetTask, Pipeline!WorkerGetTask, TypeOK
<1>4. ASSUME NEW w \in Worker, StartComputeLoss(w) \/ Finish(w) \/ WorkerDone(w) PROVE Busy'
    BY <1>4 DEF StartComputeLoss, Finish, WorkerDone, Pipeline!WorkerDone, pipeline, TypeOK
<1>5. ASSUME NEW w \in Worker, WorkerPutTask(w) PROVE Busy'
    BY <1>5 DEF WorkerPutTask, Pipeline!WorkerPutTask, TypeOK
<1>6. CASE ConsumerGetTask
    <2>1. Head(toConsume) # NoTask
        BY <1>6, HeadTailProperties DEF ConsumerGetTask, Pipeline!ConsumerGetTask, TypeOK
    <2> QED
        BY <1>6, <2>1 DEF ConsumerGetTask, Pipeline!ConsumerGetTask, TypeOK
<1>7. CASE UnblockRow \/ UnblockColumn \/ ConsumerDone
    BY <1>7 DEF UnblockRow, UnblockColumn, ConsumerDone, Pipeline!ConsumerDropTask,
                Pipeline!ConsumerDone, pipeline, TypeOK
<1> QED
    BY <1>1, <1>2, <1>3, <1>4, <1>5, <1>6, <1>7 DEF Next, WorkerRun, ConsumerRun, Finished

-----------------------------------------------------------------------------
LEMMA OnTheirWayStep ==
    TypeOK /\ OneEach /\ ~option.monitor /\ OnTheirWay /\ [Next]_vars => OnTheirWay'
<1> SUFFICES ASSUME TypeOK, OneEach, ~option.monitor, OnTheirWay, [Next]_vars
             PROVE  OnTheirWay'
    OBVIOUS
<1>0. OnlyCompute /\ Apart /\ Blocked /\ producer # "report"
    BY DEF OnTheirWay
<1>a. /\ Chosen \in Slot /\ InToWork \in Slot /\ InToConsume \in Slot
      /\ \A t \in Worker \cup {Consumer} : InHand(t) \in Slot
      /\ \A s \in Slot : \/ s \in {Chosen, InToWork, InToConsume}
                         \/ \E t \in Worker \cup {Consumer} : s = InHand(t)
    BY DEF Slot
<1>b. toWork \in Seq(Task) /\ toConsume \in Seq(Task) /\ Consumer \notin Worker
    BY GridAssumption DEF TypeOK, Consumer
<1>1. CASE UNCHANGED vars
    <2>1. \A s \in Slot : TaskAt(s)' = TaskAt(s)
        BY <1>1, <1>a, AtSlots DEF vars, pipeline, locals
    <2> QED
        BY <1>0, <1>1, <2>1, NothingMoves DEF OnTheirWay, vars, locals
<1>2. ASSUME NEW g \in Grid, Schedule(g) PROVE OnTheirWay'
    <2>1. \A s \in Slot \ {Chosen} : TaskAt(s)' = TaskAt(s)
        BY <1>2, <1>a, AtSlots DEF Schedule, Block, pipeline
    <2>2. TaskAt(Chosen)' = ComputeTask(g)
        BY <1>2, AtSlots DEF Schedule, Block
    <2>3. g \in Free
        BY <1>2 DEF Schedule, Block, Eligible
    <2>4. OnlyCompute' /\ Apart' /\ Blocked'
        BY <1>0, <1>2, <2>1, <2>2, <2>3, OneStarts DEF Schedule, Block
    <2> QED
        BY <1>2, <2>4 DEF OnTheirWay, Schedule
<1>3. CASE Sleep
    <2>1. producer' \in {"scan", "done"} /\ producer = "scan"
        BY <1>3 DEF Sleep, EndOfLoop, BreakOrScan
    <2>2. \A s \in Slot : TaskAt(s)' = TaskAt(s)
        BY <1>3, <1>a, <2>1, AtSlots DEF Sleep, pipeline
    <2> QED
        BY <1>0, <1>3, <2>1, <2>2, NothingMoves DEF OnTheirWay, Sleep
<1>4. CASE PutComputeTask
    <2>1. producer' \in {"scan", "done"} /\ producer = "put"
        BY <1>4 DEF PutComputeTask, EndOfLoop, BreakOrScan
    <2>2. toWork = <<>> /\ toWork' # <<>> /\ Head(toWork') = ComputeTask(chosen)
        <3>1. ComputeTask(chosen) \in Task
            BY TaskTypes DEF TypeOK
        <3> QED
            BY <1>4, <1>b, <3>1, OnePlace DEF PutComputeTask, Pipeline!ProducerPutTask
    <2>3. TaskAt(InToWork)' = TaskAt(Chosen) /\ TaskAt(Chosen)' = NoTask
        BY <2>1, <2>2, AtSlots
    <2>4. \A s \in Slot \ {Chosen, InToWork} : TaskAt(s)' = TaskAt(s)
        BY <1>4, <1>a, AtSlots DEF PutComputeTask, Pipeline!ProducerPutTask
    <2>5. OnlyCompute' /\ Apart' /\ Blocked'
        BY <1>0, <1>4, <1>a, <2>3, <2>4, OneMoves, Slots DEF PutComputeTask
    <2> QED
        BY <2>1, <2>5 DEF OnTheirWay
<1>5. CASE PutMonitorTask
    BY <1>0, <1>5 DEF PutMonitorTask
<1>6. CASE ProducerDone
    <2>1. producer' = "left" /\ producer = "done"
        BY <1>6 DEF ProducerDone
    <2>2. \A s \in Slot : TaskAt(s)' = TaskAt(s)
        BY <1>6, <1>a, <2>1, AtSlots DEF ProducerDone, Pipeline!ProducerDone
    <2> QED
        BY <1>0, <1>6, <2>1, <2>2, NothingMoves DEF OnTheirWay, ProducerDone
<1>7. ASSUME NEW w \in Worker, WorkerGetTask(w) PROVE OnTheirWay'
    <2>1. toWork # <<>> /\ toWork' = <<>> /\ held'[w] = Head(toWork) /\ held[w] = NoTask
        BY <1>7, <1>b, OnePlace
            DEF WorkerGetTask, Pipeline!WorkerGetTask, Pipeline!Ready, OneEach, TypeOK
    <2>2. TaskAt(InHand(w))' = TaskAt(InToWork) /\ TaskAt(InToWork)' = NoTask
        BY <2>1, AtSlots
    <2>3. \A t \in (Worker \cup {Consumer}) \ {w} : held'[t] = held[t]
        BY <1>7 DEF WorkerGetTask, Pipeline!WorkerGetTask, TypeOK
    <2>4. \A s \in Slot \ {InToWork, InHand(w)} : TaskAt(s)' = TaskAt(s)
        BY <1>7, <1>a, <2>3, AtSlots DEF WorkerGetTask, Pipeline!WorkerGetTask, locals
    <2>5. stage'[Consumer] = stage[Consumer]
        BY <1>7, <1>b DEF WorkerGetTask, TypeOK
    <2>6. OnlyCompute' /\ Apart' /\ Blocked'
        BY <1>0, <1>7, <1>a, <2>2, <2>4, <2>5, OneMoves, Slots DEF WorkerGetTask
    <2> QED
        BY <1>0, <1>7, <2>6 DEF OnTheirWay, WorkerGetTask, locals
<1>8. ASSUME NEW w \in Worker, StartComputeLoss(w) \/ Finish(w) \/ WorkerDone(w)
      PROVE  OnTheirWay'
    <2>1. \A s \in Slot : TaskAt(s)' = TaskAt(s)
        BY <1>8, <1>a, AtSlots
            DEF StartComputeLoss, Finish, WorkerDone, Pipeline!WorkerDone, pipeline, locals
    <2>2. stage'[Consumer] = stage[Consumer]
        BY <1>8, <1>b DEF StartComputeLoss, Finish, WorkerDone, TypeOK
    <2> QED
        BY <1>0, <1>8, <2>1, <2>2, NothingMoves
            DEF OnTheirWay, StartComputeLoss, Finish, WorkerDone, locals
<1>9. ASSUME NEW w \in Worker, WorkerPutTask(w) PROVE OnTheirWay'
    <2>1. /\ toConsume = <<>> /\ toConsume' # <<>> /\ Head(toConsume') = held[w]
          /\ held'[w] = NoTask
        <3>1. held[w] \in Task
            BY <1>9 DEF WorkerPutTask, Pipeline!WorkerPutTask, TypeOK
        <3> QED
            BY <1>9, <1>b, <3>1, OnePlace DEF WorkerPutTask, Pipeline!WorkerPutTask, TypeOK
    <2>2. TaskAt(InToConsume)' = TaskAt(InHand(w)) /\ TaskAt(InHand(w))' = NoTask
        BY <2>1, AtSlots
    <2>3. \A t \in (Worker \cup {Consumer}) \ {w} : held'[t] = held[t]
        BY <1>9 DEF WorkerPutTask, Pipeline!WorkerPutTask, TypeOK
    <2>4. \A s \in Slot \ {InHand(w), InToConsume} : TaskAt(s)' = TaskAt(s)
        BY <1>9, <1>a, <2>3, AtSlots DEF WorkerPutTask, Pipeline!WorkerPutTask, locals
    <2>5. stage'[Consumer] = stage[Consumer]
        BY <1>9, <1>b DEF WorkerPutTask, TypeOK
    <2>6. InHand(w) # InHand(Consumer)
        BY <1>b, Slots
    <2>7. OnlyCompute' /\ Apart' /\ Blocked'
        BY <1>0, <1>9, <1>a, <2>2, <2>4, <2>5, <2>6, OneMoves, Slots DEF WorkerPutTask
    <2> QED
        BY <1>0, <1>9, <2>7 DEF OnTheirWay, WorkerPutTask, locals
<1>10. CASE ConsumerGetTask
    <2>1. /\ toConsume # <<>> /\ toConsume' = <<>>
          /\ held'[Consumer] = Head(toConsume) /\ held[Consumer] = NoTask
        BY <1>10, <1>b, OnePlace
            DEF ConsumerGetTask, Pipeline!ConsumerGetTask, Pipeline!Ready, OneEach, TypeOK
    <2>2. TaskAt(InHand(Consumer))' = TaskAt(InToConsume) /\ TaskAt(InToConsume)' = NoTask
        BY <2>1, AtSlots
    <2>3. \A t \in Worker : held'[t] = held[t]
        BY <1>10, <1>b DEF ConsumerGetTask, Pipeline!ConsumerGetTask, TypeOK
    <2>4. \A s \in Slot \ {InToConsume, InHand(Consumer)} : TaskAt(s)' = TaskAt(s)
        BY <1>10, <1>a, <2>3, AtSlots DEF ConsumerGetTask, Pipeline!ConsumerGetTask, locals
    <2>5. OnlyCompute' /\ Apart' /\ Blocked'
        BY <1>0, <1>10, <1>a, <2>2, <2>4, OneMoves, Slots DEF ConsumerGetTask
    <2> QED
        BY <1>0, <1>10, <2>5 DEF OnTheirWay, ConsumerGetTask, locals
<1>11. CASE UnblockRow \/ UnblockColumn
    <2> DEFINE mine == InHand(Consumer)
    <2>1. mine \in Occupied /\ BlockAt(mine) = held[Consumer].gridId
        BY <1>11, <1>a, AtSlots
            DEF Occupied, BlockAt, UnblockRow, UnblockColumn, Pipeline!ConsumerDropTask
    <2>2. \A s \in Occupied \ {mine} : /\ RowOf(BlockAt(s)) # RowOf(BlockAt(mine))
                                       /\ ColOf(BlockAt(s)) # ColOf(BlockAt(mine))
                                       /\ RowOf(BlockAt(s)) \in rowBlocked
                                       /\ ColOf(BlockAt(s)) \in colBlocked
        BY <1>0, <2>1 DEF Apart, Blocked, Unblocking
    <2>3. CASE UnblockRow
        <3>1. \A s \in Slot : TaskAt(s)' = TaskAt(s)
            BY <1>a, <2>3, AtSlots DEF UnblockRow, pipeline, locals
        <3>2. Occupied' = Occupied /\ \A s \in Slot : BlockAt(s)' = BlockAt(s)
            BY <3>1 DEF Occupied, BlockAt
        <3>3. Unblocking(mine)'
            BY <1>b, <2>3 DEF Unblocking, UnblockRow, TypeOK
        <3>4. OnlyCompute' /\ Apart'
            BY <1>0, <3>1, <3>2 DEF OnlyCompute, Apart, Occupied
        <3>5. ColOf(BlockAt(mine)) \in colBlocked
            BY <1>0, <2>1 DEF Blocked
        <3>6. Blocked'
            BY <2>1, <2>2, <2>3, <3>2, <3>3, <3>5 DEF Blocked, UnblockRow, Occupied
        <3> QED
            BY <1>0, <2>3, <3>4, <3>6 DEF OnTheirWay, UnblockRow, locals
    <2>4. CASE UnblockColumn
        <3>1. /\ TaskAt(mine)' = NoTask
              /\ \A s \in Slot \ {mine} : TaskAt(s)' = TaskAt(s)
            <4>1. held' = [held EXCEPT ![Consumer] = NoTask]
                BY <2>4 DEF UnblockColumn, Pipeline!ConsumerDropTask
            <4>2. held'[Consumer] = NoTask /\ \A t \in Worker : held'[t] = held[t]
                BY <1>b, <4>1 DEF TypeOK
            <4> QED
                BY <1>a, <2>4, <4>2, AtSlots
                    DEF UnblockColumn, Pipeline!ConsumerDropTask, locals
        <3>2. /\ Occupied' = Occupied \ {mine}
              /\ \A s \in Slot \ {mine} : BlockAt(s)' = BlockAt(s)
            BY <3>1 DEF Occupied, BlockAt
        <3>3. OnlyCompute' /\ Apart'
            BY <1>0, <3>1, <3>2 DEF OnlyCompute, Apart, Occupied
        <3>4. Blocked'
            BY <2>1, <2>2, <2>4, <3>2 DEF Blocked, UnblockColumn, Occupied
        <3> QED
            BY <1>0, <2>4, <3>3, <3>4 DEF OnTheirWay, UnblockColumn, locals
    <2> QED
        BY <1>11, <2>3, <2>4
<1>12. CASE ConsumerDone
    <2>1. \A s \in Slot : TaskAt(s)' = TaskAt(s)
        BY <1>12, <1>a, AtSlots DEF ConsumerDone, Pipeline!ConsumerDone, locals
    <2> QED
        BY <1>0, <1>12, <2>1, NothingMoves DEF OnTheirWay, ConsumerDone, locals
<1> QED
    BY <1>1, <1>2, <1>3, <1>4, <1>5, <1>6, <1>7, <1>8, <1>9, <1>10, <1>11, <1>12
        DEF Next, ProducerRun, WorkerRun, ConsumerRun, Finished

LEMMA GridInit == Init => GridInv
<1> SUFFICES ASSUME Init PROVE GridInv
    OBVIOUS
<1>1. OneEach /\ Busy /\ producer = "scan"
    BY EmptySeq DEF Init, OneEach, Busy, Pipeline!Init
<1>2. \A s \in Slot : TaskAt(s) = NoTask
    BY AtSlots DEF Slot, Init, Pipeline!Init
<1>3. Occupied = {}
    BY <1>2 DEF Occupied
<1> QED
    BY <1>1, <1>3 DEF GridInv, OnTheirWay, OnlyCompute, Apart, Blocked

\* No step turns monitoring on or off.
LEMMA OptionStep == [Next]_vars => option' = option
BY DEF Next, vars, ProducerRun, WorkerRun, ConsumerRun, Finished, Schedule, Sleep,
       PutComputeTask, PutMonitorTask, ProducerDone, WorkerGetTask, StartComputeLoss, Finish,
       WorkerPutTask, WorkerDone, ConsumerGetTask, UnblockRow, UnblockColumn, ConsumerDone

LEMMA GridStep == TypeOK /\ GridInv /\ [Next]_vars => GridInv'
BY OneEachStep, BusyStep, OnTheirWayStep, OptionStep DEF GridInv

\* Two workers at work hold two blocks on their way.
LEMMA GridExclusive == GridInv => ExclusiveUnlessMonitored
<1> SUFFICES ASSUME GridInv, ~option.monitor, NEW v \in Worker, NEW w \in Worker,
                    v # w, Computing(v), Computing(w)
             PROVE  /\ RowOf(held[v].gridId) # RowOf(held[w].gridId)
                    /\ ColOf(held[v].gridId) # ColOf(held[w].gridId)
    BY DEF ExclusiveUnlessMonitored, ExclusiveBlocks
<1>1. held[v] # NoTask /\ held[w] # NoTask
    BY DEF GridInv, Busy, Computing
<1>2. InHand(v) \in Occupied /\ InHand(w) \in Occupied /\ InHand(v) # InHand(w)
    BY <1>1, AtSlots, Slots DEF Occupied, Slot
<1> QED
    BY <1>2, AtSlots DEF GridInv, OnTheirWay, Apart, BlockAt

(* No two workers train blocks of one row or of one column at once, when   *)
(* the training is not monitored: the producer's unlocked scan takes no    *)
(* block for free that is not.                                             *)
THEOREM ExclusiveTraining == Spec => []ExclusiveUnlessMonitored
<1>1. Init => TypeOK /\ Reportable /\ GridInv
    BY TypeInit, GridInit DEF Init, Reportable
<1>2. TypeOK /\ Reportable /\ GridInv /\ [Next]_vars => (TypeOK /\ Reportable /\ GridInv)'
    BY TypeStep, GridStep
<1>3. GridInv => ExclusiveUnlessMonitored
    BY GridExclusive
<1> QED
    BY <1>1, <1>2, <1>3, PTL DEF Spec

-----------------------------------------------------------------------------
(* How often each block is trained.                                        *)

\* No block is scheduled once too often, nor the loop left once too early.
CountsInRange ==
    /\ \A g \in Grid : iterationCount[g] <= option.iterations - 1
    /\ producer \in {"done", "left"} =>
          \A g \in Grid : iterationCount[g] >= option.iterations - 1

\* Nobody leaves while there is something to do for him.
LeftInOrder ==
    /\ Producer \in left <=> producer = "left"
    /\ \A w \in Worker \cap left : held[w] = NoTask /\ toWork = <<>> /\ Producer \in left

LEMMA OptionFacts ==
    ASSUME TypeOK
    PROVE  option.iterations \in Nat \ {0}
BY GridAssumption DEF TypeOK

LEMMA TrainingInit == Init => CountsInRange /\ LeftInOrder
<1> SUFFICES ASSUME Init PROVE CountsInRange /\ LeftInOrder
    OBVIOUS
<1>1. option.iterations \in Nat \ {0}
    BY GridAssumption DEF Init
<1> QED
    BY <1>1 DEF Init, CountsInRange, LeftInOrder, Pipeline!Init

\* The loop ends when no block has a training to go.
LEMMA LoopEnds ==
    ASSUME TypeOK, BreakOrScan, producer' = "done"
    PROVE  \A g \in Grid : iterationCount[g] >= option.iterations - 1
<1>1. /\ MinIteration(iterationCount) \in Nat
      /\ \A g \in Grid : MinIteration(iterationCount) <= iterationCount[g]
      /\ \A g \in Grid : iterationCount[g] \in Nat
    BY MinIterationInNat DEF TypeOK
<1>2. MinIteration(iterationCount) >= option.iterations - 1
    BY DEF BreakOrScan
<1> QED
    BY <1>1, <1>2, OptionFacts

LEMMA CountsStep == TypeOK /\ CountsInRange /\ [Next]_vars => CountsInRange'
<1> SUFFICES ASSUME TypeOK, CountsInRange, [Next]_vars PROVE CountsInRange'
    OBVIOUS
<1>0. option' = option /\ option.iterations \in Nat
    BY OptionStep, OptionFacts
<1>1. ASSUME NEW g \in Grid, Schedule(g) PROVE CountsInRange'
  <2>1. iterationCount[g] < option.iterations - 1 /\ producer' = "put"
    BY <1>1 DEF Schedule, Eligible
  <2>2. \A other \in Grid : iterationCount'[other]
            = IF other = g THEN iterationCount[g] + 1 ELSE iterationCount[other]
    BY <1>1 DEF Schedule, TypeOK
  <2>3. iterationCount[g] \in Nat
    BY DEF TypeOK
  <2> QED
    BY <1>0, <2>1, <2>2, <2>3 DEF CountsInRange
<1>2. ASSUME UNCHANGED iterationCount, producer \in {"done", "left"}, producer' \in {"done", "left"}
      PROVE  CountsInRange'
    BY <1>0, <1>2 DEF CountsInRange
<1>3. ASSUME UNCHANGED iterationCount, producer' \notin {"done", "left"}
      PROVE  CountsInRange'
    BY <1>0, <1>3 DEF CountsInRange
<1>4. ASSUME UNCHANGED iterationCount, BreakOrScan PROVE CountsInRange'
  <2>1. producer' \in {"done", "scan"}
    BY <1>4 DEF BreakOrScan
  <2>2. CASE producer' = "done"
    BY <1>0, <1>4, <2>2, LoopEnds DEF CountsInRange
  <2> QED
    BY <1>3, <1>4, <2>1, <2>2
<1>5. CASE Sleep \/ PutComputeTask
  <2>1. UNCHANGED iterationCount /\ (BreakOrScan \/ producer' = "report")
    BY <1>5 DEF Sleep, PutComputeTask, EndOfLoop
  <2> QED
    BY <1>3, <1>4, <2>1
<1>6. CASE PutMonitorTask
    BY <1>4, <1>6 DEF PutMonitorTask
<1>7. CASE ProducerDone
    BY <1>2, <1>7 DEF ProducerDone
<1>8. CASE UNCHANGED <<iterationCount, producer>>
    BY <1>2, <1>3, <1>8
<1> QED
    BY <1>1, <1>5, <1>6, <1>7, <1>8
        DEF Next, vars, locals, ProducerRun, WorkerRun, ConsumerRun, Finished, WorkerGetTask,
            StartComputeLoss, Finish, WorkerPutTask, WorkerDone, ConsumerGetTask, UnblockRow,
            UnblockColumn, ConsumerDone

LEMMA LeftStep == TypeOK /\ LeftInOrder /\ [Next]_vars => LeftInOrder'
<1> SUFFICES ASSUME TypeOK, LeftInOrder, [Next]_vars PROVE LeftInOrder'
    OBVIOUS
<1> USE GridAssumption DEF LeftInOrder, Producer, Consumer
<1>1. ASSUME NEW g \in Grid, Schedule(g) PROVE LeftInOrder'
    BY <1>1 DEF Schedule, pipeline
<1>2. CASE Sleep
    BY <1>2, EndOfLoopType DEF Sleep, pipeline
<1>3. CASE PutComputeTask \/ PutMonitorTask
  <2>1. UNCHANGED <<left, held>> /\ Producer \notin left /\ producer' # "left"
    BY <1>3, EndOfLoopType
        DEF PutComputeTask, PutMonitorTask, BreakOrScan, Pipeline!ProducerPutTask
  <2>2. \A w \in Worker : w \notin left
    BY <2>1
  <2> QED
    BY <2>1, <2>2
<1>4. CASE ProducerDone
    BY <1>4 DEF ProducerDone, Pipeline!ProducerDone
<1>5. ASSUME NEW w \in Worker, WorkerRun(w) PROVE LeftInOrder'
  <2>1. CASE WorkerGetTask(w)
    BY <2>1 DEF WorkerGetTask, Pipeline!WorkerGetTask, Pipeline!Ready, locals, TypeOK
  <2>2. CASE StartComputeLoss(w) \/ Finish(w)
    BY <2>2 DEF StartComputeLoss, Finish, locals, pipeline
  <2>3. CASE WorkerPutTask(w)
    BY <2>3 DEF WorkerPutTask, Pipeline!WorkerPutTask, locals, TypeOK
  <2>4. CASE WorkerDone(w)
    BY <2>4 DEF WorkerDone, Pipeline!WorkerDone, Pipeline!Ready, locals
  <2> QED
    BY <1>5, <2>1, <2>2, <2>3, <2>4 DEF WorkerRun
<1>6. CASE ConsumerRun
    BY <1>6 DEF ConsumerRun, ConsumerGetTask, UnblockRow, UnblockColumn, ConsumerDone,
        Pipeline!ConsumerGetTask, Pipeline!ConsumerDropTask, Pipeline!ConsumerDone, locals,
        pipeline, TypeOK
<1>7. CASE Finished \/ UNCHANGED vars
    BY <1>7 DEF Finished, vars, locals, pipeline
<1> QED
    BY <1>1, <1>2, <1>3, <1>4, <1>5, <1>6, <1>7 DEF Next, ProducerRun

(* When all threads have left, each block has been trained Iterations() - 1 *)
(* times, no more and no less: none is scheduled once too often although   *)
(* the scan takes no lock, and nobody leaves while a block is on its way.  *)
THEOREM TrainedEnough == Spec => []TrainedOneIterationShort
<1> DEFINE Inv == TypeOK /\ Reportable /\ GridInv /\ CountsInRange /\ LeftInOrder
<1>1. Init => Inv
    BY TypeInit, GridInit, TrainingInit DEF Init, Reportable
<1>2. Inv /\ [Next]_vars => Inv'
    BY TypeStep, GridStep, CountsStep, LeftStep
<1>3. Inv => TrainedOneIterationShort
  <2> SUFFICES ASSUME Inv, AllLeft, NEW g \in Grid
      PROVE  Trained(g) = option.iterations - 1
    BY DEF TrainedOneIterationShort
  <2>1. producer = "left" /\ toWork = <<>> /\ \A w \in Worker : held[w] = NoTask
    BY GridAssumption DEF AllLeft, LeftInOrder
  <2>2. \A w \in Worker : stage[w] # "running"
    BY <2>1 DEF GridInv, Busy
  <2>3. Pending = {}
    BY <2>1, <2>2 DEF Pending
  <2>4. iterationCount[g] = option.iterations - 1
    <3>1. iterationCount[g] \in Nat /\ option.iterations \in Nat
      BY OptionFacts DEF TypeOK
    <3> QED
      BY <2>1, <3>1 DEF CountsInRange
  <2> QED
    BY <2>3, <2>4, OptionFacts DEF Trained
<1> QED
    BY <1>1, <1>2, <1>3, PTL DEF Spec
=============================================================================
