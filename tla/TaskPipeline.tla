---------------------------- MODULE TaskPipeline ----------------------------
(***************************************************************************)
(* What a PipelinedScheduler promises the computations built on it: tasks  *)
(* go from the producers to the workers and from the workers to the        *)
(* consumers through two bounded queues, a put waits for room and a get    *)
(* for a task, a worker leaves once the producers have left and there is   *)
(* nothing more to work on, and a consumer once the workers have left and  *)
(* there is nothing more to consume.                                       *)
(*                                                                         *)
(* Two kinds of modules use it: PipelinedScheduler implements it, and the  *)
(* models of the computations are built from its actions.                  *)
(***************************************************************************)
EXTENDS Integers, Sequences

CONSTANTS
    Producer, Worker, Consumer,     \* the threads of the three stages
    Task, NoTask,                   \* the tasks, and nullptr
    BufferSize1, BufferSize2        \* the capacities of the two queues

VARIABLES
    toWork,     \* the tasks on their way to the workers
    toConsume,  \* the tasks on their way to the consumers
    held,       \* the task each worker or consumer has in hand
    left        \* the threads that have left their loop and said so

vars == <<toWork, toConsume, held, left>>

Init ==
    /\ toWork = <<>>
    /\ toConsume = <<>>
    /\ held = [t \in Worker \cup Consumer |-> NoTask]
    /\ left = {}

\* A worker or consumer that is at the head of its loop.
Ready(t) == t \notin left /\ held[t] = NoTask

ProducerPutTask(p, task) ==
    /\ p \notin left
    /\ Len(toWork) < BufferSize1
    /\ toWork' = Append(toWork, task)
    /\ UNCHANGED <<toConsume, held, left>>

ProducerDone(p) ==
    /\ p \notin left
    /\ left' = left \cup {p}
    /\ UNCHANGED <<toWork, toConsume, held>>

WorkerGetTask(w) ==
    /\ Ready(w)
    /\ toWork # <<>>
    /\ held' = [held EXCEPT ![w] = Head(toWork)]
    /\ toWork' = Tail(toWork)
    /\ UNCHANGED <<toConsume, left>>

WorkerPutTask(w) ==
    /\ held[w] # NoTask
    /\ Len(toConsume) < BufferSize2
    /\ toConsume' = Append(toConsume, held[w])
    /\ held' = [held EXCEPT ![w] = NoTask]
    /\ UNCHANGED <<toWork, left>>

\* WorkerGetTask has returned nullptr.
WorkerDone(w) ==
    /\ Ready(w)
    /\ toWork = <<>> /\ Producer \subseteq left
    /\ left' = left \cup {w}
    /\ UNCHANGED <<toWork, toConsume, held>>

ConsumerGetTask(c) ==
    /\ Ready(c)
    /\ toConsume # <<>>
    /\ held' = [held EXCEPT ![c] = Head(toConsume)]
    /\ toConsume' = Tail(toConsume)
    /\ UNCHANGED <<toWork, left>>

\* delete task
ConsumerDropTask(c) ==
    /\ held[c] # NoTask
    /\ held' = [held EXCEPT ![c] = NoTask]
    /\ UNCHANGED <<toWork, toConsume, left>>

\* ConsumerGetTask has returned nullptr.
ConsumerDone(c) ==
    /\ Ready(c)
    /\ toConsume = <<>> /\ Worker \subseteq left
    /\ left' = left \cup {c}
    /\ UNCHANGED <<toWork, toConsume, held>>

Next ==
    \/ \E p \in Producer : ProducerDone(p) \/ \E task \in Task : ProducerPutTask(p, task)
    \/ \E w \in Worker : WorkerGetTask(w) \/ WorkerPutTask(w) \/ WorkerDone(w)
    \/ \E c \in Consumer : ConsumerGetTask(c) \/ ConsumerDropTask(c) \/ ConsumerDone(c)

Spec == Init /\ [][Next]_vars
=============================================================================
