---------------------------- MODULE ObjectBuffer ----------------------------
(***************************************************************************)
(* ObjectBuffer<T> (src/common/threading/object_buffer.h): the bounded     *)
(* blocking queue under every multi-threaded computation of the library.   *)
(*                                                                         *)
(* A call is one critical section of mMutex, so it is one step here, unless *)
(* it waits on a condition variable: wait() ends the step with the caller  *)
(* asleep in notFull or notEmpty, and the call goes on from the head of its *)
(* while loop in a later step, once the caller has been taken out of that  *)
(* set (by a notification or spuriously).  Any thread may make any call at *)
(* any time: which thread makes which call is up to the clients.           *)
(***************************************************************************)
EXTENDS Integers, Sequences, FiniteSets

CONSTANTS
    Thread,         \* the threads that call the buffer
    Object,         \* the values of the template parameter T
    NoObject,       \* not an object: no Push in progress, nothing popped
    MaxSize,        \* mMaxSize
    NumProducer,    \* mNumProducer, 0 for "infinitely many"
    NumConsumer,    \* mNumConsumer, 0 for "infinitely many"
    MayClear        \* whether the clients call Clear()

ASSUME BufferAssumption ==
    /\ IsFiniteSet(Thread)
    /\ NoObject \notin Object
    /\ MaxSize \in Int
    /\ NumProducer \in Nat
    /\ NumConsumer \in Nat
    /\ MayClear \in BOOLEAN

VARIABLES
    queue,              \* mQueue; its head is mQueue.back(), the next to pop
    objectId,           \* mObjectId
    numAliveProducer,   \* mNumAliveProducer
    numAliveConsumer,   \* mNumAliveConsumer
    noAliveProducer,    \* mNoAliveProducer
    noAliveConsumer,    \* mNoAliveConsumer
    failed,             \* mFailed
    notFull,            \* the threads asleep on mNotFull
    notEmpty,           \* the threads asleep on mNotEmpty
    pushing,            \* the object of each thread's interrupted Push
    popping             \* the threads whose Pop has been interrupted

store  == <<queue, objectId>>
census == <<numAliveProducer, numAliveConsumer, noAliveProducer, noAliveConsumer>>
waits  == <<notFull, notEmpty, pushing, popping>>
vars   == <<store, census, failed, waits>>

Code == {"SUCC", "FAILED", "NO_ALIVE_CONSUMER", "TRY_PUSH_FAILED", "NO_MORE_OBJECT",
         "TRY_POP_FAILED", "UNEXCEPTED_PRODUCER_QUIT", "UNEXCEPTED_CONSUMER_QUIT"}

TypeOK ==
    /\ queue \in Seq(Object)
    /\ objectId \in Nat
    /\ numAliveProducer \in 0..NumProducer
    /\ numAliveConsumer \in 0..NumConsumer
    /\ noAliveProducer \in BOOLEAN
    /\ noAliveConsumer \in BOOLEAN
    /\ failed \in BOOLEAN
    /\ notFull \subseteq Thread
    /\ notEmpty \subseteq Thread
    /\ pushing \in [Thread -> Object \cup {NoObject}]
    /\ popping \subseteq Thread

Init ==
    /\ queue = <<>>
    /\ objectId = 0
    /\ numAliveProducer = NumProducer
    /\ numAliveConsumer = NumConsumer
    /\ noAliveProducer = FALSE
    /\ noAliveConsumer = FALSE
    /\ failed = FALSE
    /\ notFull = {}
    /\ notEmpty = {}
    /\ pushing = [t \in Thread |-> NoObject]
    /\ popping = {}

-----------------------------------------------------------------------------
\* Mutant of Full: '>' for '>='.
FullOffByOne == MaxSize >= 0 /\ Len(queue) > MaxSize

(* mQueue.size() >= mMaxSize compares a size_t with an int: a negative     *)
(* mMaxSize becomes a number no queue reaches.                             *)
Full == MaxSize >= 0 /\ Len(queue) >= MaxSize

\* The conditions of the two while loops around wait().
PushWaits == ~failed /\ ~noAliveConsumer /\ Full
\* (Mutant of PopWaits: the '!' before mNoAliveProducer is missing.)
PopWaitsForTheEnd == ~failed /\ noAliveProducer /\ queue = <<>>
PopWaits  == ~failed /\ ~noAliveProducer /\ queue = <<>>

\* What notify_one can leave of the threads asleep on a condition variable.
WakeOne(sleepers) ==
    IF sleepers = {} THEN {sleepers} ELSE {sleepers \ {t} : t \in sleepers}

Idle(t) == pushing[t] = NoObject /\ t \notin popping

\* A thread at the while loop of Push(o) or of Pop: it makes the call now, or
\* it has been woken up in a call it made earlier.
AtPush(t, o) == Idle(t) \/ (pushing[t] = o /\ t \notin notFull)
AtPop(t)     == Idle(t) \/ (t \in popping /\ t \notin notEmpty)

\* Mutant of Enqueue: notifies only when the queue was empty.
EnqueueWakesOnFirst(o) ==
    /\ queue' = Append(queue, o)
    /\ objectId' = objectId + 1
    /\ IF queue = <<>> THEN notEmpty' \in WakeOne(notEmpty) ELSE UNCHANGED notEmpty

\* id = mObjectId++; mQueue.push_front(t); mNotEmpty.notify_one()
Enqueue(o) ==
    /\ queue' = Append(queue, o)
    /\ objectId' = objectId + 1
    /\ notEmpty' \in WakeOne(notEmpty)

\* Mutant of Dequeue: mNotFull.notify_one() is forgotten.
DequeueSilently ==
    /\ queue' = Tail(queue)
    /\ UNCHANGED notFull

\* t = mQueue.back(); mQueue.pop_back(); mNotFull.notify_one()
Dequeue ==
    /\ queue' = Tail(queue)
    /\ notFull' \in WakeOne(notFull)

\* Mutant of PopId: mQueue.size() is taken after pop_back().
PopIdAfterPop == objectId - (Len(queue) - 1)

\* The id that Pop and TryPop return with the object they are about to remove.
PopId == objectId - Len(queue)

\* Without producers or with all of them gone, another one may not quit.
\* (Mutant of UnexceptedProducerQuit: the test of mNumAliveProducer is dropped.)
QuitIsExcepted         == NumProducer = 0
UnexceptedProducerQuit == NumProducer = 0 \/ numAliveProducer = 0
UnexceptedConsumerQuit == NumConsumer = 0 \/ numAliveConsumer = 0

\* (Mutants: notify_one() for notify_all(); mQueue.clear() is forgotten.)
LastProducerWakesOne   == noAliveProducer' = TRUE /\ notEmpty' \in WakeOne(notEmpty)
LastProducerQuits      == noAliveProducer' = TRUE /\ notEmpty' = {}
LastConsumerKeepsQueue == noAliveConsumer' = TRUE /\ UNCHANGED queue /\ notFull' = {}
LastConsumerQuits      == noAliveConsumer' = TRUE /\ queue' = <<>> /\ notFull' = {}

\* When a Pop that does not wait returns without an object.
\* (Mutant of NoMoreObject: nothing more without producers, whatever is queued.)
NoMoreProducer == noAliveProducer
NoMoreObject   == queue = <<>>

-----------------------------------------------------------------------------
(* Each call is an action whose parameters are the calling thread, the     *)
(* arguments and what it returns: a return code, and for Pop an object.    *)

PushBlocks(t, o) ==
    /\ AtPush(t, o)
    /\ PushWaits
    /\ notFull' = notFull \cup {t}
    /\ pushing' = [pushing EXCEPT ![t] = o]
    /\ UNCHANGED <<store, census, failed, notEmpty, popping>>

Push(t, o, code) ==
    /\ AtPush(t, o)
    /\ ~PushWaits
    /\ pushing' = [pushing EXCEPT ![t] = NoObject]
    /\ \/ /\ failed
          /\ code = "FAILED"
          /\ UNCHANGED <<store, notEmpty>>
       \/ /\ ~failed /\ noAliveConsumer
          /\ code = "NO_ALIVE_CONSUMER"
          /\ UNCHANGED <<store, notEmpty>>
       \/ /\ ~failed /\ ~noAliveConsumer
          /\ code = "SUCC"
          /\ Enqueue(o)
    /\ UNCHANGED <<census, failed, notFull, popping>>

TryPush(t, o, code) ==
    /\ Idle(t)
    /\ \/ /\ failed
          /\ code = "FAILED"
          /\ UNCHANGED <<store, notEmpty>>
       \/ /\ ~failed /\ noAliveConsumer
          /\ code = "NO_ALIVE_CONSUMER"
          /\ UNCHANGED <<store, notEmpty>>
       \/ /\ ~failed /\ ~noAliveConsumer /\ Full
          /\ code = "TRY_PUSH_FAILED"
          /\ UNCHANGED <<store, notEmpty>>
       \/ /\ ~failed /\ ~noAliveConsumer /\ ~Full
          /\ code = "SUCC"
          /\ Enqueue(o)
    /\ UNCHANGED <<census, failed, notFull, pushing, popping>>

ProducerQuit(t, code) ==
    /\ Idle(t)
    /\ \/ /\ failed
          /\ code = "FAILED"
          /\ UNCHANGED <<census, notEmpty>>
       \/ /\ ~failed
          /\ UnexceptedProducerQuit
          /\ code = "UNEXCEPTED_PRODUCER_QUIT"
          /\ UNCHANGED <<census, notEmpty>>
       \/ /\ ~failed /\ ~UnexceptedProducerQuit
          /\ code = "SUCC"
          /\ numAliveProducer' = numAliveProducer - 1
          /\ IF numAliveProducer' = 0
             THEN LastProducerQuits
             ELSE UNCHANGED <<noAliveProducer, notEmpty>>
          /\ UNCHANGED <<numAliveConsumer, noAliveConsumer>>
    /\ UNCHANGED <<store, failed, notFull, pushing, popping>>

PopBlocks(t) ==
    /\ AtPop(t)
    /\ PopWaits
    /\ notEmpty' = notEmpty \cup {t}
    /\ popping' = popping \cup {t}
    /\ UNCHANGED <<store, census, failed, notFull, pushing>>

Pop(t, o, code) ==
    /\ AtPop(t)
    /\ ~PopWaits
    /\ popping' = popping \ {t}
    /\ \/ /\ failed
          /\ code = "FAILED" /\ o = NoObject
          /\ UNCHANGED <<queue, notFull>>
       \/ /\ ~failed /\ NoMoreObject
          /\ code = "NO_MORE_OBJECT" /\ o = NoObject
          /\ UNCHANGED <<queue, notFull>>
       \/ /\ ~failed /\ ~NoMoreObject
          /\ code = "SUCC" /\ o = Head(queue)
          /\ Dequeue
    /\ UNCHANGED <<objectId, census, failed, notEmpty, pushing>>

TryPop(t, o, code) ==
    /\ Idle(t)
    /\ \/ /\ failed
          /\ code = "FAILED" /\ o = NoObject
          /\ UNCHANGED <<queue, notFull>>
       \/ /\ ~failed /\ queue = <<>>
          /\ code = IF noAliveProducer THEN "NO_MORE_OBJECT" ELSE "TRY_POP_FAILED"
          /\ o = NoObject
          /\ UNCHANGED <<queue, notFull>>
       \/ /\ ~failed /\ queue # <<>>
          /\ code = "SUCC" /\ o = Head(queue)
          /\ Dequeue
    /\ UNCHANGED <<objectId, census, failed, notEmpty, pushing, popping>>

ConsumerQuit(t, code) ==
    /\ Idle(t)
    /\ \/ /\ failed
          /\ code = "FAILED"
          /\ UNCHANGED <<queue, census, notFull>>
       \/ /\ ~failed
          /\ UnexceptedConsumerQuit
          /\ code = "UNEXCEPTED_CONSUMER_QUIT"
          /\ UNCHANGED <<queue, census, notFull>>
       \/ /\ ~failed /\ ~UnexceptedConsumerQuit
          /\ code = "SUCC"
          /\ numAliveConsumer' = numAliveConsumer - 1
          /\ IF numAliveConsumer' = 0
             THEN LastConsumerQuits
             ELSE UNCHANGED <<noAliveConsumer, queue, notFull>>
          /\ UNCHANGED <<numAliveProducer, noAliveProducer>>
    /\ UNCHANGED <<objectId, failed, notEmpty, pushing, popping>>

Clear(t) ==
    /\ MayClear
    /\ Idle(t)
    /\ queue' = <<>>
    /\ UNCHANGED <<objectId, census, failed, waits>>

\* Mutant of ForceFail: the threads blocked popping are forgotten.
ForceFailWakesPushers(t) ==
    /\ Idle(t)
    /\ failed' = TRUE
    /\ queue' = <<>>
    /\ notFull' = {}
    /\ UNCHANGED <<objectId, census, notEmpty, pushing, popping>>

ForceFail(t) ==
    /\ Idle(t)
    /\ failed' = TRUE
    /\ queue' = <<>>
    /\ notFull' = {}
    /\ notEmpty' = {}
    /\ UNCHANGED <<objectId, census, pushing, popping>>

\* std::condition_variable::wait may return without a notification.
SpuriousWakeup(t) ==
    /\ t \in notFull \cup notEmpty
    /\ notFull' = notFull \ {t}
    /\ notEmpty' = notEmpty \ {t}
    /\ UNCHANGED <<store, census, failed, pushing, popping>>

Next ==
    \E t \in Thread :
        \/ SpuriousWakeup(t)
        \/ PopBlocks(t)
        \/ Clear(t)
        \/ ForceFail(t)
        \/ \E o \in Object : PushBlocks(t, o)
        \/ \E code \in Code :
              \/ ProducerQuit(t, code)
              \/ ConsumerQuit(t, code)
              \/ \E o \in Object : Push(t, o, code) \/ TryPush(t, o, code)
              \/ \E o \in Object \cup {NoObject} : Pop(t, o, code) \/ TryPop(t, o, code)

Spec == Init /\ [][Next]_vars

-----------------------------------------------------------------------------
(* A failed buffer, and one whose consumers have all quit, holds nothing:  *)
(* ForceFail and the last ConsumerQuit throw the contents away, and no     *)
(* later call puts anything in.                                            *)
ClosedIsEmpty == failed \/ noAliveConsumer => queue = <<>>

\* The queue never outgrows mMaxSize, however Push and TryPush interleave.
WithinMaxSize == MaxSize >= 0 => Len(queue) <= MaxSize

(* Nobody sleeps through the end: ForceFail and the two last quits wake    *)
(* everyone who waits for what can no longer come, and nobody goes to      *)
(* sleep on it afterwards.                                                 *)
NobodySleepsThroughTheEnd ==
    /\ failed \/ noAliveConsumer => notFull = {}
    /\ failed \/ noAliveProducer => notEmpty = {}

\* The threads that have been woken up in Push and in Pop and are yet to run.
WokenPushers == {t \in Thread : pushing[t] # NoObject} \ notFull
WokenPoppers == popping \ notEmpty

(* Whoever sleeps is in the middle of a call, and there is no waiting for  *)
(* room in a buffer without a bound.                                       *)
SleepersAreCalling ==
    /\ notEmpty \subseteq popping
    /\ \A t \in notFull : pushing[t] # NoObject
    /\ notFull # {} => MaxSize >= 0

(* No lost wakeup in Pop: while a consumer sleeps, every object in the     *)
(* queue is matched by a consumer on its way to it.                        *)
PopWakeupsSuffice ==
    notEmpty # {} => Len(queue) <= Cardinality(WokenPoppers)

(* No lost wakeup in Push: while a producer sleeps, every free place is    *)
(* matched by a producer on its way to it.                                 *)
PushWakeupsSuffice ==
    notFull # {} => MaxSize - Len(queue) <= Cardinality(WokenPushers)

(* "Producer push object t, will block producer when buffer is full"       *)
(* (object_buffer.h:26): a producer left asleep means a full buffer, or a  *)
(* producer on its way to the free place.                                  *)
BlockedOnlyWhenFull == notFull # {} => Full \/ WokenPushers # {}
=============================================================================
