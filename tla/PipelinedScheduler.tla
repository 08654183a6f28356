------------------------- MODULE PipelinedScheduler -------------------------
(***************************************************************************)
(* PipelinedScheduler<Task> (src/common/threading/pipelined_scheduler.h)   *)
(* and the three loops every client in the library runs over it: a         *)
(* producer puts its tasks and is done; a worker gets a task, computes it  *)
(* and puts it on, until there is none; a consumer gets a task and takes   *)
(* it in, until there is none.  The threads meet in two ObjectBuffers; a   *)
(* monitor, where the client has one, polls how much has been taken in.    *)
(*                                                                         *)
(* What a computation does with its tasks is in the modules of the         *)
(* computations; here a task is a pointer that moves.                      *)
(***************************************************************************)
EXTENDS Integers, Sequences, FiniteSets

CONSTANTS
    Producer, Worker, Consumer,     \* the threads of the three stages
    Monitor,                        \* the monitor's thread, {} for nullptr
    Task, NoTask,                   \* the tasks the clients make, and nullptr
    BufferSize1, BufferSize2        \* mBufferSize1, mBufferSize2

Staff  == Producer \cup Worker \cup Consumer
Thread == Staff \cup Monitor

ASSUME SchedulerAssumption ==
    /\ IsFiniteSet(Thread) /\ Producer # {} /\ Worker # {} /\ Consumer # {}
    /\ Producer \cap Worker = {} /\ Worker \cap Consumer = {} /\ Producer \cap Consumer = {}
    /\ Staff \cap Monitor = {} /\ Cardinality(Monitor) <= 1
    /\ NoTask \notin Task
    /\ BufferSize1 \in Nat \ {0} /\ BufferSize2 \in Nat \ {0}

VARIABLES
    \* mObjectBuffer1, "Producer-Worker"
    queue1, objectId1, numAliveProducer1, numAliveConsumer1, noAliveProducer1,
    noAliveConsumer1, failed1, notFull1, notEmpty1, pushing1, popping1,
    \* mObjectBuffer2, "Worker-Consumer"
    queue2, objectId2, numAliveProducer2, numAliveConsumer2, noAliveProducer2,
    noAliveConsumer2, failed2, notFull2, notEmpty2, pushing2, popping2,
    pc,             \* where each thread is
    held,           \* the task each thread has in hand
    todo,           \* the tasks the producers have not made yet
    consumed,       \* the tasks the consumers have taken in, one entry per time
    joined,         \* whether WaitFinish has returned
    assertFailed    \* whether an assert(rtn == LONGAN_SUCC) has failed

buffer1 == <<queue1, objectId1, numAliveProducer1, numAliveConsumer1, noAliveProducer1,
             noAliveConsumer1, failed1, notFull1, notEmpty1, pushing1, popping1>>
buffer2 == <<queue2, objectId2, numAliveProducer2, numAliveConsumer2, noAliveProducer2,
             noAliveConsumer2, failed2, notFull2, notEmpty2, pushing2, popping2>>
clients == <<pc, held, todo, consumed, joined, assertFailed>>
vars    == <<buffer1, buffer2, clients>>

B1 == INSTANCE ObjectBuffer WITH
    Thread <- Producer \cup Worker, Object <- Task, NoObject <- NoTask,
    MaxSize <- BufferSize1, MayClear <- FALSE,
    NumProducer <- Cardinality(Producer), NumConsumer <- Cardinality(Worker),
    queue <- queue1, objectId <- objectId1,
    numAliveProducer <- numAliveProducer1, numAliveConsumer <- numAliveConsumer1,
    noAliveProducer <- noAliveProducer1, noAliveConsumer <- noAliveConsumer1,
    failed <- failed1, notFull <- notFull1, notEmpty <- notEmpty1,
    pushing <- pushing1, popping <- popping1

B2 == INSTANCE ObjectBuffer WITH
    Thread <- Worker \cup Consumer, Object <- Task, NoObject <- NoTask,
    MaxSize <- BufferSize2, MayClear <- FALSE,
    NumProducer <- Cardinality(Worker), NumConsumer <- Cardinality(Consumer),
    queue <- queue2, objectId <- objectId2,
    numAliveProducer <- numAliveProducer2, numAliveConsumer <- numAliveConsumer2,
    noAliveProducer <- noAliveProducer2, noAliveConsumer <- noAliveConsumer2,
    failed <- failed2, notFull <- notFull2, notEmpty <- notEmpty2,
    pushing <- pushing2, popping <- popping2

Place == {"unborn", "make", "put", "get", "compute", "quit1", "quit2", "watch", "exit"}

TypeOK ==
    /\ B1!TypeOK
    /\ B2!TypeOK
    /\ pc \in [Thread -> Place]
    /\ held \in [Thread -> Task \cup {NoTask}]
    /\ todo \subseteq Task
    /\ consumed \in Seq(Task)
    /\ joined \in BOOLEAN
    /\ assertFailed \in BOOLEAN

Init ==
    /\ B1!Init
    /\ B2!Init
    /\ pc = [t \in Thread |-> "unborn"]
    /\ held = [t \in Thread |-> NoTask]
    /\ todo = Task
    /\ consumed = <<>>
    /\ joined = FALSE
    /\ assertFailed = FALSE

-----------------------------------------------------------------------------
Go(t, place) == pc' = [pc EXCEPT ![t] = place]
Hold(t, task) == held' = [held EXCEPT ![t] = task]

\* assert(rtn == LONGAN_SUCC)
AssertSucc(code) == assertFailed' = (assertFailed \/ code # "SUCC")

\* A getter with a task goes on with it, one with nullptr leaves its loop.
\* (Mutant of Received: nullptr is not looked for.)
ReceivedAnything(t, code, quit) == Go(t, "compute")
Received(t, code, quit)         == Go(t, IF code = "SUCC" THEN "compute" ELSE quit)

Unborn(role) == \E t \in role : pc[t] = "unborn"

(* Start: one thread after the other, the producers first, then the        *)
(* workers, the consumers and the monitor.  A thread runs once it is made. *)
Start(t) ==
    /\ pc[t] = "unborn"
    /\ t \in Worker => ~Unborn(Producer)
    /\ t \in Consumer => ~Unborn(Producer) /\ ~Unborn(Worker)
    /\ t \in Monitor => ~Unborn(Staff)
    /\ Go(t, CASE t \in Producer -> "make" [] t \in Monitor -> "watch" [] OTHER -> "get")
    /\ UNCHANGED <<buffer1, buffer2, held, todo, consumed, joined, assertFailed>>

\* Mutant of WaitFinish: the consumers and the monitor are not joined.
WaitFinishWithoutConsumers ==
    /\ ~joined
    /\ \A t \in Producer \cup Worker : pc[t] = "exit"
    /\ joined' = TRUE
    /\ UNCHANGED <<buffer1, buffer2, pc, held, todo, consumed, assertFailed>>

\* WaitFinish: join every thread.
WaitFinish ==
    /\ ~joined
    /\ \A t \in Thread : pc[t] = "exit"
    /\ joined' = TRUE
    /\ UNCHANGED <<buffer1, buffer2, pc, held, todo, consumed, assertFailed>>

-----------------------------------------------------------------------------
\* The producers' loop.

MakeTask(p) ==
    /\ pc[p] = "make"
    /\ \E task \in todo :
          /\ todo' = todo \ {task}
          /\ Hold(p, task)
    /\ Go(p, "put")
    /\ UNCHANGED <<buffer1, buffer2, consumed, joined, assertFailed>>

ProducerPutTask(p) ==
    /\ pc[p] = "put"
    /\ \/ /\ B1!PushBlocks(p, held[p])
          /\ UNCHANGED <<pc, held, assertFailed>>
       \/ \E code \in B1!Code :
             /\ B1!Push(p, held[p], code)
             /\ AssertSucc(code)
             /\ Go(p, "make")
             /\ Hold(p, NoTask)
    /\ UNCHANGED <<buffer2, todo, consumed, joined>>

ProducerDone(p) ==
    /\ pc[p] = "make"
    /\ todo = {}
    /\ \E code \in B1!Code :
          /\ B1!ProducerQuit(p, code)
          /\ AssertSucc(code)
    /\ Go(p, "exit")
    /\ UNCHANGED <<buffer2, held, todo, consumed, joined>>

-----------------------------------------------------------------------------
\* The workers' loop.

WorkerGetTask(w) ==
    /\ pc[w] = "get"
    /\ \/ /\ B1!PopBlocks(w)
          /\ UNCHANGED <<pc, held>>
       \/ \E code \in B1!Code, task \in Task \cup {NoTask} :
             /\ B1!Pop(w, task, code)
             /\ Hold(w, task)
             /\ Received(w, code, "quit1")
    /\ UNCHANGED <<buffer2, todo, consumed, joined, assertFailed>>

Compute(w) ==
    /\ pc[w] = "compute"
    /\ Go(w, "put")
    /\ UNCHANGED <<buffer1, buffer2, held, todo, consumed, joined, assertFailed>>

WorkerPutTask(w) ==
    /\ pc[w] = "put"
    /\ \/ /\ B2!PushBlocks(w, held[w])
          /\ UNCHANGED <<pc, held, assertFailed>>
       \/ \E code \in B2!Code :
             /\ B2!Push(w, held[w], code)
             /\ AssertSucc(code)
             /\ Go(w, "get")
             /\ Hold(w, NoTask)
    /\ UNCHANGED <<buffer1, todo, consumed, joined>>

\* WorkerDone locks the two buffers one after the other.
WorkerQuitsBuffer1(w) ==
    /\ pc[w] = "quit1"
    /\ \E code \in B1!Code :
          /\ B1!ConsumerQuit(w, code)
          /\ AssertSucc(code)
    /\ Go(w, "quit2")
    /\ UNCHANGED <<buffer2, held, todo, consumed, joined>>

WorkerQuitsBuffer2(w) ==
    /\ pc[w] = "quit2"
    /\ \E code \in B2!Code :
          /\ B2!ProducerQuit(w, code)
          /\ AssertSucc(code)
    /\ Go(w, "exit")
    /\ UNCHANGED <<buffer1, held, todo, consumed, joined>>

-----------------------------------------------------------------------------
\* The consumers' loop.

ConsumerGetTask(c) ==
    /\ pc[c] = "get"
    /\ \/ /\ B2!PopBlocks(c)
          /\ UNCHANGED <<pc, held>>
       \/ \E code \in B2!Code, task \in Task \cup {NoTask} :
             /\ B2!Pop(c, task, code)
             /\ Hold(c, task)
             /\ Received(c, code, "quit2")
    /\ UNCHANGED <<buffer1, todo, consumed, joined, assertFailed>>

Consume(c) ==
    /\ c \in Consumer /\ pc[c] = "compute"
    /\ consumed' = Append(consumed, held[c])
    /\ Hold(c, NoTask)
    /\ Go(c, "get")
    /\ UNCHANGED <<buffer1, buffer2, todo, joined, assertFailed>>

ConsumerDone(c) ==
    /\ pc[c] = "quit2"
    /\ \E code \in B2!Code :
          /\ B2!ConsumerQuit(c, code)
          /\ AssertSucc(code)
    /\ Go(c, "exit")
    /\ UNCHANGED <<buffer1, held, todo, consumed, joined>>

\* The monitor's loop ends when mProcessedTask >= mTotoalTask.
MonitorRun(m) ==
    /\ pc[m] = "watch"
    /\ Len(consumed) >= Cardinality(Task)
    /\ Go(m, "exit")
    /\ UNCHANGED <<buffer1, buffer2, held, todo, consumed, joined, assertFailed>>

-----------------------------------------------------------------------------
\* The operating system: nobody relies on it.
Wakeup1(t) == B1!SpuriousWakeup(t) /\ UNCHANGED <<buffer2, clients>>
Wakeup2(t) == B2!SpuriousWakeup(t) /\ UNCHANGED <<buffer1, clients>>

\* The computation is over and the scheduler is deleted.
Finished == joined /\ UNCHANGED vars

ProducerStep(p) == MakeTask(p) \/ ProducerPutTask(p) \/ ProducerDone(p)

WorkerStep(w) ==
    \/ WorkerGetTask(w) \/ Compute(w) \/ WorkerPutTask(w)
    \/ WorkerQuitsBuffer1(w) \/ WorkerQuitsBuffer2(w)

ConsumerStep(c) == ConsumerGetTask(c) \/ Consume(c) \/ ConsumerDone(c)

Next ==
    \/ \E t \in Thread : Start(t)
    \/ WaitFinish
    \/ \E p \in Producer : ProducerStep(p)
    \/ \E w \in Worker : WorkerStep(w)
    \/ \E c \in Consumer : ConsumerStep(c)
    \/ \E m \in Monitor : MonitorRun(m)
    \/ \E t \in Producer \cup Worker : Wakeup1(t)
    \/ \E t \in Worker \cup Consumer : Wakeup2(t)
    \/ Finished

(* Every thread that can run does run in the end; spurious wakeups are not *)
(* something the program may count on.                                     *)
Fairness ==
    /\ WF_vars(WaitFinish) /\ WF_vars(\E t \in Thread : Start(t))
    /\ \A p \in Producer : WF_vars(ProducerStep(p))
    /\ \A w \in Worker : WF_vars(WorkerStep(w))
    /\ \A c \in Consumer : WF_vars(ConsumerStep(c))
    /\ \A m \in Monitor : WF_vars(MonitorRun(m))

Spec == Init /\ [][Next]_vars
FairSpec == Spec /\ Fairness

-----------------------------------------------------------------------------
\* None of the assert(rtn == LONGAN_SUCC) of the scheduler's methods fails.
AssertsHold == ~assertFailed

Occurrences(task, seq) == Cardinality({k \in DOMAIN seq : seq[k] = task})

(* Exactly once: every task a producer makes is in one queue, or in the    *)
(* hands of one thread, or taken in once; none is lost when the last       *)
(* worker's ConsumerQuit clears the first queue, none is handed out twice. *)
EachTaskInOnePlace ==
    \A task \in Task :
        LET inTodo == IF task \in todo THEN 1 ELSE 0
            inHand == Cardinality({t \in Thread : held[t] = task})
        IN  inTodo + inHand + Occurrences(task, queue1) + Occurrences(task, queue2)
                + Occurrences(task, consumed) = 1

\* When WaitFinish returns, every task has been taken in.
JoinedMeansAllConsumed ==
    joined => \A task \in Task : Occurrences(task, consumed) = 1

(* No lost wakeup: whoever sleeps on one of the four condition variables   *)
(* has nothing to wait for that somebody else is not already on his way to. *)
NoLostWakeup ==
    /\ B1!PushWakeupsSuffice /\ B1!PopWakeupsSuffice /\ B1!NobodySleepsThroughTheEnd
    /\ B2!PushWakeupsSuffice /\ B2!PopWakeupsSuffice /\ B2!NobodySleepsThroughTheEnd

Pipeline == INSTANCE TaskPipeline WITH
    toWork <- queue1, toConsume <- queue2,
    held <- [t \in Worker \cup Consumer |-> held[t]],
    left <- {t \in Staff : pc[t] = "exit"}

(* Locks, wakeups and the two halves of WorkerDone are invisible: the      *)
(* clients see two queues, and nobody leaves while something is still on   *)
(* its way to him.                                                         *)
ImplementsTaskPipeline == Pipeline!Spec

\* WaitFinish returns: no thread is left waiting for another for ever.
Termination == <>joined
=============================================================================
