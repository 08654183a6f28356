------------------------ MODULE SvdModelComputationMT ------------------------
(***************************************************************************)
(* SVD::ModelComputationMT (src/recsys/svd/svd_model_computation.cpp): the *)
(* parallel matrix factorisation.  The rating matrix is cut into a grid of *)
(* blocks; a worker that trains a block writes the features of the block's *)
(* users (its row) and items (its column), so no two blocks of one row or  *)
(* one column may be trained at once.  The producer blocks a row and a     *)
(* column when it schedules a block, the consumer unblocks them when the   *)
(* block comes back.                                                       *)
(*                                                                         *)
(* The threads meet in a PipelinedScheduler with queues of one place, taken *)
(* here as what it is shown to implement: TaskPipeline.                    *)
(***************************************************************************)
EXTENDS Integers, Sequences, FiniteSets

CONSTANTS
    Worker,             \* the NumThread() worker threads
    NoTask,             \* nullptr
    Row, Col,           \* the rows and columns of the grid
    FirstRow, FirstCol, \* row 0 and column 0
    Options             \* the train options: records [iterations, monitor, step]

(* The block of row i and column j is <<i, j>>, which the code writes as    *)
(* i * NumItemBlock + j and takes apart with / and %.                      *)
Grid == Row \X Col

RowOf(gridId) == gridId[1]
ColOf(gridId) == gridId[2]

Task == [type : {"Compute", "Monitor"}, gridId : Grid, iter : Nat]

ASSUME GridAssumption ==
    /\ IsFiniteSet(Worker) /\ IsFiniteSet(Row) /\ IsFiniteSet(Col)
    \* if (mNumThread == 0) mNumThread = SystemInfo::GetNumCPUCore()
    /\ Worker # {}
    \* assert(mNumUserBlock > mNumThread); assert(mNumItemBlock > mNumThread)
    /\ Cardinality(Row) > Cardinality(Worker)
    /\ Cardinality(Col) > Cardinality(Worker)
    /\ FirstRow \in Row /\ FirstCol \in Col
    /\ "producer" \notin Worker /\ "consumer" \notin Worker
    /\ NoTask \notin Task
    /\ Options \subseteq [iterations : Nat \ {0}, monitor : BOOLEAN, step : Nat \ {0}]

(* new Task() sets every field to zero: a Monitor task has gridId 0.       *)
ComputeTask(g) == [type |-> "Compute", gridId |-> g, iter |-> 0]
MonitorTask(n) == [type |-> "Monitor", gridId |-> <<FirstRow, FirstCol>>, iter |-> n]

VARIABLES
    toWork, toConsume, held, left,  \* the scheduler
    option,             \* mTrainOption
    rowBlocked,         \* mGridRowBlocked: the rows that are blocked
    colBlocked,         \* mGridColBlocked: the columns that are blocked
    iterationCount,     \* mGridIterationCount
    producer,           \* where the producer is
    scanned,            \* the blocks that were free when the producer's scan began
    chosen,             \* the block it has scheduled
    lastIter,           \* its local lastIter
    stage               \* how far each worker and the consumer are with their task

pipeline == <<toWork, toConsume, held, left>>
flags    == <<rowBlocked, colBlocked>>
locals   == <<producer, scanned, chosen, lastIter>>
vars     == <<pipeline, option, flags, iterationCount, locals, stage>>

Producer == "producer"
Consumer == "consumer"

Pipeline == INSTANCE TaskPipeline WITH
    Producer <- {Producer}, Consumer <- {Consumer}, BufferSize1 <- 1, BufferSize2 <- 1

TypeOK ==
    /\ toWork \in Seq(Task) /\ toConsume \in Seq(Task)
    /\ held \in [Worker \cup {Consumer} -> Task \cup {NoTask}]
    /\ left \subseteq Worker \cup {Producer, Consumer}
    /\ option \in Options
    /\ rowBlocked \subseteq Row
    /\ colBlocked \subseteq Col
    /\ iterationCount \in [Grid -> Nat]
    /\ producer \in {"scan", "put", "report", "done", "left"}
    /\ scanned \subseteq Grid
    /\ chosen \in Grid
    /\ lastIter \in Nat \cup {-1}
    /\ stage \in [Worker \cup {Consumer} ->
                  {"ready", "waiting", "running", "finished", "unblocking"}]

\* assign(..., false), assign(..., 0), Start()
Init ==
    /\ Pipeline!Init
    /\ option \in Options
    /\ rowBlocked = {}
    /\ colBlocked = {}
    /\ iterationCount = [g \in Grid |-> 0]
    /\ producer = "scan"
    /\ scanned = Grid
    /\ chosen = <<FirstRow, FirstCol>>
    /\ lastIter = -1
    /\ stage = [t \in Worker \cup {Consumer} |-> "ready"]

-----------------------------------------------------------------------------
(* The producer scans the grid without the mutex, while the consumer goes  *)
(* on unblocking: a block that was free when the scan began is seen free;  *)
(* one that has been freed since may be seen free or not.                  *)

Free == {g \in Grid : RowOf(g) \notin rowBlocked /\ ColOf(g) \notin colBlocked}

\* Mutant of Eligible: the last iteration is not skipped.
EligibleOnceMore(gs) == {g \in gs : iterationCount[g] < option.iterations}

\* iterationCount >= Iterations() - 1 is skipped.
Eligible(gs) == {g \in gs : iterationCount[g] < option.iterations - 1}

MinIteration(count) == CHOOSE n \in {count[g] : g \in Grid} : \A g \in Grid : n <= count[g]

(* The end of the producer's loop, from currIter = MinInRange(...): is an  *)
(* iteration over, is it to be reported, is the training over?             *)
BreakOrScan ==
    /\ producer' = IF MinIteration(iterationCount) >= option.iterations - 1
                   THEN "done" ELSE "scan"
    /\ scanned' = Free

\* Mutant of EndOfLoop: lastIter = currIter is forgotten.
EndOfLoopForgets ==
    LET currIter == MinIteration(iterationCount)
        newIter  == currIter > lastIter
    IN  /\ UNCHANGED lastIter
        /\ IF newIter /\ option.monitor /\ currIter % option.step = 0
           THEN producer' = "report" /\ UNCHANGED scanned
           ELSE BreakOrScan

EndOfLoop ==
    LET currIter == MinIteration(iterationCount)
        newIter  == currIter > lastIter
    IN  /\ lastIter' = IF newIter THEN currIter ELSE lastIter
        /\ IF newIter /\ option.monitor /\ currIter % option.step = 0
           THEN producer' = "report" /\ UNCHANGED scanned
           ELSE BreakOrScan

\* (Mutant of Block: the column is not blocked.)
BlockRow(g) == rowBlocked' = rowBlocked \cup {RowOf(g)} /\ UNCHANGED colBlocked

Block(g) ==
    /\ rowBlocked' = rowBlocked \cup {RowOf(g)}
    /\ colBlocked' = colBlocked \cup {ColOf(g)}

\* A block with the fewest iterations among those seen free is blocked.
Schedule(g) ==
    /\ producer = "scan"
    /\ g \in Eligible(Free)
    /\ \A other \in Eligible(scanned) : iterationCount[g] <= iterationCount[other]
    /\ stage[Consumer] # "unblocking"       \* mGridBlockedMutex
    /\ Block(g)
    /\ iterationCount' = [iterationCount EXCEPT ![g] = @ + 1]
    /\ chosen' = g
    /\ producer' = "put"
    /\ UNCHANGED <<pipeline, option, scanned, lastIter, stage>>

\* No candidate: sleep for a second.
Sleep ==
    /\ producer = "scan"
    /\ Eligible(scanned) = {}
    /\ EndOfLoop
    /\ UNCHANGED <<pipeline, option, flags, iterationCount, chosen, stage>>

PutComputeTask ==
    /\ producer = "put"
    /\ Pipeline!ProducerPutTask(Producer, ComputeTask(chosen))
    /\ EndOfLoop
    /\ UNCHANGED <<option, flags, iterationCount, chosen, stage>>

PutMonitorTask ==
    /\ producer = "report"
    /\ Pipeline!ProducerPutTask(Producer, MonitorTask(lastIter))
    /\ BreakOrScan
    /\ UNCHANGED <<option, flags, iterationCount, chosen, lastIter, stage>>

ProducerDone ==
    /\ producer = "done"
    /\ Pipeline!ProducerDone(Producer)
    /\ producer' = "left"
    /\ UNCHANGED <<option, flags, iterationCount, scanned, chosen, lastIter, stage>>

ProducerRun ==
    \/ \E g \in Grid : Schedule(g)
    \/ Sleep \/ PutComputeTask \/ PutMonitorTask \/ ProducerDone

-----------------------------------------------------------------------------
Computing(w) == stage[w] = "running" /\ held[w].type = "Compute"
Monitoring(w) == stage[w] = "running" /\ held[w].type = "Monitor"

\* SGDOneMatrix starts at once, ComputeLoss waits for mMonitorMutex.
WorkerGetTask(w) ==
    /\ stage[w] = "ready"
    /\ Pipeline!WorkerGetTask(w)
    /\ stage' = [stage EXCEPT ![w] =
                    IF Head(toWork).type = "Compute" THEN "running" ELSE "waiting"]
    /\ UNCHANGED <<option, flags, iterationCount, locals>>

StartComputeLoss(w) ==
    /\ stage[w] = "waiting"
    /\ \A other \in Worker : ~Monitoring(other)
    /\ stage' = [stage EXCEPT ![w] = "running"]
    /\ UNCHANGED <<pipeline, option, flags, iterationCount, locals>>

\* SGDOneMatrix or ComputeLoss returns.
Finish(w) ==
    /\ stage[w] = "running"
    /\ stage' = [stage EXCEPT ![w] = "finished"]
    /\ UNCHANGED <<pipeline, option, flags, iterationCount, locals>>

WorkerPutTask(w) ==
    /\ stage[w] = "finished"
    /\ Pipeline!WorkerPutTask(w)
    /\ stage' = [stage EXCEPT ![w] = "ready"]
    /\ UNCHANGED <<option, flags, iterationCount, locals>>

WorkerDone(w) ==
    /\ Pipeline!WorkerDone(w)
    /\ UNCHANGED <<option, flags, iterationCount, locals, stage>>

WorkerRun(w) ==
    \/ WorkerGetTask(w) \/ StartComputeLoss(w) \/ Finish(w) \/ WorkerPutTask(w)
    \/ WorkerDone(w)

-----------------------------------------------------------------------------
ConsumerGetTask ==
    /\ Pipeline!ConsumerGetTask(Consumer)
    /\ UNCHANGED <<option, flags, iterationCount, locals, stage>>

(* Under mGridBlockedMutex, but the producer's scan may come between.  The *)
(* task's type is not looked at.                                           *)
UnblockRow ==
    /\ held[Consumer] # NoTask /\ stage[Consumer] = "ready"
    /\ rowBlocked' = rowBlocked \ {RowOf(held[Consumer].gridId)}
    /\ stage' = [stage EXCEPT ![Consumer] = "unblocking"]
    /\ UNCHANGED <<pipeline, option, colBlocked, iterationCount, locals>>

\* Mutant of UnblockColumn: only the row is unblocked.
ColumnStaysBlocked ==
    /\ stage[Consumer] = "unblocking"
    /\ stage' = [stage EXCEPT ![Consumer] = "ready"]
    /\ Pipeline!ConsumerDropTask(Consumer)
    /\ UNCHANGED <<option, flags, iterationCount, locals>>

UnblockColumn ==
    /\ stage[Consumer] = "unblocking"
    /\ colBlocked' = colBlocked \ {ColOf(held[Consumer].gridId)}
    /\ stage' = [stage EXCEPT ![Consumer] = "ready"]
    /\ Pipeline!ConsumerDropTask(Consumer)
    /\ UNCHANGED <<option, rowBlocked, iterationCount, locals>>

ConsumerDone ==
    /\ Pipeline!ConsumerDone(Consumer)
    /\ UNCHANGED <<option, flags, iterationCount, locals, stage>>

ConsumerRun == ConsumerGetTask \/ UnblockRow \/ UnblockColumn \/ ConsumerDone

AllLeft == left = Worker \cup {Producer, Consumer}

\* WaitFinish has joined the threads; ComputeModel returns.
Finished == AllLeft /\ UNCHANGED vars

Next == ProducerRun \/ (\E w \in Worker : WorkerRun(w)) \/ ConsumerRun \/ Finished

Spec == Init /\ [][Next]_vars

\* Every thread keeps running.
FairSpec ==
    /\ Spec
    /\ WF_vars(ProducerRun)
    /\ \A w \in Worker : WF_vars(WorkerRun(w))
    /\ WF_vars(ConsumerRun)

-----------------------------------------------------------------------------
\* No two workers train blocks of the same row or of the same column.
ExclusiveBlocks ==
    \A v, w \in Worker :
        v # w /\ Computing(v) /\ Computing(w) =>
            /\ RowOf(held[v].gridId) # RowOf(held[w].gridId)
            /\ ColOf(held[v].gridId) # ColOf(held[w].gridId)

(* That holds when the training is not monitored.                          *)
ExclusiveUnlessMonitored == ~option.monitor => ExclusiveBlocks

\* The blocks that have been scheduled and not yet been trained.
Pending ==
    {ComputeTask(g) : g \in IF producer = "put" THEN {chosen} ELSE {}}
        \cup {toWork[k] : k \in DOMAIN toWork}
        \cup {held[w] : w \in {v \in Worker : stage[v] = "running"}}

Trained(g) == iterationCount[g] - (IF ComputeTask(g) \in Pending THEN 1 ELSE 0)

(* The producer counts a block when it schedules it and stops one          *)
(* iteration short: when all threads have left, each block has been        *)
(* trained Iterations() - 1 times, no more and no less.                    *)
TrainedOneIterationShort ==
    AllLeft => \A g \in Grid : Trained(g) = option.iterations - 1

(* "iteration %d/%d done": when the loss of iteration n is computed, every *)
(* block has been trained in n iterations.                                 *)
ReportedIterationIsDone ==
    \A w \in Worker : Monitoring(w) => \A g \in Grid : Trained(g) >= held[w].iter

\* The training ends.
Termination == <>AllLeft
=============================================================================
