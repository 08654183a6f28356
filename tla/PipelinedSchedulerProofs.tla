---------------------- MODULE PipelinedSchedulerProofs ----------------------
(***************************************************************************)
(* Proofs about PipelinedScheduler, for any number of threads in each      *)
(* stage, any set of tasks and any capacity of the two queues: the control *)
(* of the threads, then what becomes of the tasks, and that the scheduler  *)
(* keeps the promises of TaskPipeline.                                     *)
(***************************************************************************)
EXTENDS PipelinedScheduler, Counting

LEMMA RolesFinite ==
    /\ IsFiniteSet(Thread) /\ IsFiniteSet(Producer \cup Worker)
    /\ IsFiniteSet(Worker \cup Consumer)
    /\ IsFiniteSet(Producer) /\ IsFiniteSet(Worker) /\ IsFiniteSet(Consumer)
<1>1. /\ Producer \cup Worker \in SUBSET Thread /\ Worker \cup Consumer \in SUBSET Thread
      /\ Producer \in SUBSET Thread /\ Worker \in SUBSET Thread
      /\ Consumer \in SUBSET Thread
    BY DEF Thread, Staff
<1> QED
    BY <1>1, SchedulerAssumption, SubsetCardinality

\* The stages are kept apart, and a task is never nullptr.
LEMMA RolesApart ==
    /\ \A t \in Producer : t \notin Worker /\ t \notin Consumer /\ t \notin Monitor
    /\ \A t \in Worker : t \notin Producer /\ t \notin Consumer /\ t \notin Monitor
    /\ \A t \in Consumer : t \notin Producer /\ t \notin Worker /\ t \notin Monitor
    /\ \A t \in Monitor : t \notin Producer /\ t \notin Worker /\ t \notin Consumer
    /\ Producer \subseteq Thread /\ Worker \subseteq Thread /\ Consumer \subseteq Thread
    /\ Monitor \subseteq Thread
    /\ NoTask \notin Task
BY SchedulerAssumption DEF Thread, Staff

-----------------------------------------------------------------------------
(* The inductive invariant.  What the clients know of the buffers from     *)
(* where they are is what keeps every call from failing: nobody quits      *)
(* twice or in the middle of a call, and a stage is over only when the one *)
(* before it is.                                                           *)

\* Each thread runs the loop of its stage.
PlacesByRole ==
    /\ \A p \in Producer : pc[p] \in {"unborn", "make", "put", "exit"}
    /\ \A w \in Worker :
          pc[w] \in {"unborn", "get", "compute", "put", "quit1", "quit2", "exit"}
    /\ \A c \in Consumer : pc[c] \in {"unborn", "get", "compute", "quit2", "exit"}
    /\ \A m \in Monitor : pc[m] \in {"unborn", "watch", "exit"}

\* A thread has a task in hand from its get (or its making) to its put.
HandsMatchPlaces == \A t \in Thread : held[t] # NoTask <=> pc[t] \in {"put", "compute"}

\* A call that waits is one the thread is at, about the task in its hand.
CallsMatchPlaces ==
    /\ \A t \in Producer \cup Worker :
          pushing1[t] # NoTask => t \in Producer /\ pc[t] = "put" /\ pushing1[t] = held[t]
    /\ \A t \in popping1 : t \in Worker /\ pc[t] = "get"
    /\ \A t \in Worker \cup Consumer :
          pushing2[t] # NoTask => t \in Worker /\ pc[t] = "put" /\ pushing2[t] = held[t]
    /\ \A t \in popping2 : t \in Consumer /\ pc[t] = "get"

NothingFails == ~failed1 /\ ~failed2 /\ ~assertFailed

\* The buffers count the threads that have not quit.
CensusMatches ==
    /\ numAliveProducer1 = Cardinality(Staying(Producer, pc, {"exit"}))
    /\ numAliveConsumer1 = Cardinality(Staying(Worker, pc, {"quit2", "exit"}))
    /\ numAliveProducer2 = Cardinality(Staying(Worker, pc, {"exit"}))
    /\ numAliveConsumer2 = Cardinality(Staying(Consumer, pc, {"exit"}))
    /\ noAliveProducer1 <=> Staying(Producer, pc, {"exit"}) = {}
    /\ noAliveConsumer1 <=> Staying(Worker, pc, {"quit2", "exit"}) = {}
    /\ noAliveProducer2 <=> Staying(Worker, pc, {"exit"}) = {}
    /\ noAliveConsumer2 <=> Staying(Consumer, pc, {"exit"}) = {}

\* Whoever is leaving has left nothing behind him.
StagesEndInOrder ==
    /\ \A p \in Producer : pc[p] = "exit" => todo = {}
    /\ \A w \in Worker :
          pc[w] \in {"quit1", "quit2", "exit"} => noAliveProducer1 /\ queue1 = <<>>
    /\ \A c \in Consumer : pc[c] \in {"quit2", "exit"} => noAliveProducer2 /\ queue2 = <<>>
    /\ joined => \A t \in Thread : pc[t] = "exit"

Control ==
    /\ TypeOK /\ PlacesByRole /\ HandsMatchPlaces /\ CallsMatchPlaces
    /\ NothingFails /\ CensusMatches /\ StagesEndInOrder

-----------------------------------------------------------------------------
(* What the calls do when nothing fails: which branch of the buffer's code *)
(* a thread takes follows from Control.                                    *)

ProducerWaits(p) ==
    /\ pc[p] = "put"
    /\ ~noAliveConsumer1 /\ Len(queue1) >= BufferSize1
    /\ notFull1' = notFull1 \cup {p}
    /\ pushing1' = [pushing1 EXCEPT ![p] = held[p]]
    /\ UNCHANGED <<queue1, objectId1, numAliveProducer1, numAliveConsumer1, noAliveProducer1,
                   noAliveConsumer1, failed1, notEmpty1, popping1, buffer2, clients>>

ProducerPuts(p) ==
    /\ pc[p] = "put"
    /\ B1!AtPush(p, held[p])
    /\ ~noAliveConsumer1 /\ Len(queue1) < BufferSize1
    /\ B1!Enqueue(held[p])
    /\ pushing1' = [pushing1 EXCEPT ![p] = NoTask]
    /\ Go(p, "make") /\ Hold(p, NoTask)
    /\ UNCHANGED <<numAliveProducer1, numAliveConsumer1, noAliveProducer1, noAliveConsumer1,
                   failed1, notFull1, popping1, buffer2, todo, consumed, joined, assertFailed>>

ProducerLeaves(p) ==
    /\ pc[p] = "make" /\ todo = {} /\ numAliveProducer1 # 0
    /\ numAliveProducer1' = numAliveProducer1 - 1
    /\ IF numAliveProducer1' = 0
       THEN noAliveProducer1' = TRUE /\ notEmpty1' = {}
       ELSE UNCHANGED <<noAliveProducer1, notEmpty1>>
    /\ Go(p, "exit")
    /\ UNCHANGED <<queue1, objectId1, numAliveConsumer1, noAliveConsumer1, failed1, notFull1,
                   pushing1, popping1, buffer2, held, todo, consumed, joined, assertFailed>>

WorkerWaits(w) ==
    /\ pc[w] = "get"
    /\ ~noAliveProducer1 /\ queue1 = <<>>
    /\ notEmpty1' = notEmpty1 \cup {w}
    /\ popping1' = popping1 \cup {w}
    /\ UNCHANGED <<queue1, objectId1, numAliveProducer1, numAliveConsumer1, noAliveProducer1,
                   noAliveConsumer1, failed1, notFull1, pushing1, buffer2, clients>>

WorkerGets(w) ==
    /\ pc[w] = "get" /\ B1!AtPop(w) /\ queue1 # <<>>
    /\ B1!Dequeue
    /\ popping1' = popping1 \ {w}
    /\ Hold(w, Head(queue1)) /\ Go(w, "compute")
    /\ UNCHANGED <<objectId1, numAliveProducer1, numAliveConsumer1, noAliveProducer1,
                   noAliveConsumer1, failed1, notEmpty1, pushing1, buffer2, todo, consumed,
                   joined, assertFailed>>

WorkerGetsNothing(w) ==
    /\ pc[w] = "get" /\ B1!AtPop(w) /\ queue1 = <<>> /\ noAliveProducer1
    /\ popping1' = popping1 \ {w}
    /\ Go(w, "quit1")
    /\ UNCHANGED <<queue1, objectId1, numAliveProducer1, numAliveConsumer1, noAliveProducer1,
                   noAliveConsumer1, failed1, notFull1, notEmpty1, pushing1, buffer2, held,
                   todo, consumed, joined, assertFailed>>

WorkerWaitsForRoom(w) ==
    /\ pc[w] = "put"
    /\ ~noAliveConsumer2 /\ Len(queue2) >= BufferSize2
    /\ notFull2' = notFull2 \cup {w}
    /\ pushing2' = [pushing2 EXCEPT ![w] = held[w]]
    /\ UNCHANGED <<queue2, objectId2, numAliveProducer2, numAliveConsumer2, noAliveProducer2,
                   noAliveConsumer2, failed2, notEmpty2, popping2, buffer1, clients>>

WorkerPuts(w) ==
    /\ pc[w] = "put"
    /\ B2!AtPush(w, held[w])
    /\ ~noAliveConsumer2 /\ Len(queue2) < BufferSize2
    /\ B2!Enqueue(held[w])
    /\ pushing2' = [pushing2 EXCEPT ![w] = NoTask]
    /\ Go(w, "get") /\ Hold(w, NoTask)
    /\ UNCHANGED <<numAliveProducer2, numAliveConsumer2, noAliveProducer2, noAliveConsumer2,
                   failed2, notFull2, popping2, buffer1, todo, consumed, joined, assertFailed>>

\* The first queue is empty already when the last worker clears it.
WorkerLeavesBuffer1(w) ==
    /\ pc[w] = "quit1" /\ numAliveConsumer1 # 0
    /\ numAliveConsumer1' = numAliveConsumer1 - 1
    /\ IF numAliveConsumer1' = 0
       THEN noAliveConsumer1' = TRUE /\ notFull1' = {}
       ELSE UNCHANGED <<noAliveConsumer1, notFull1>>
    /\ Go(w, "quit2")
    /\ UNCHANGED <<queue1, objectId1, numAliveProducer1, noAliveProducer1, failed1, notEmpty1,
                   pushing1, popping1, buffer2, held, todo, consumed, joined, assertFailed>>

WorkerLeavesBuffer2(w) ==
    /\ pc[w] = "quit2" /\ numAliveProducer2 # 0
    /\ numAliveProducer2' = numAliveProducer2 - 1
    /\ IF numAliveProducer2' = 0
       THEN noAliveProducer2' = TRUE /\ notEmpty2' = {}
       ELSE UNCHANGED <<noAliveProducer2, notEmpty2>>
    /\ Go(w, "exit")
    /\ UNCHANGED <<queue2, objectId2, numAliveConsumer2, noAliveConsumer2, failed2, notFull2,
                   pushing2, popping2, buffer1, held, todo, consumed, joined, assertFailed>>

ConsumerWaits(c) ==
    /\ pc[c] = "get"
    /\ ~noAliveProducer2 /\ queue2 = <<>>
    /\ notEmpty2' = notEmpty2 \cup {c}
    /\ popping2' = popping2 \cup {c}
    /\ UNCHANGED <<queue2, objectId2, numAliveProducer2, numAliveConsumer2, noAliveProducer2,
                   noAliveConsumer2, failed2, notFull2, pushing2, buffer1, clients>>

ConsumerGets(c) ==
    /\ pc[c] = "get" /\ B2!AtPop(c) /\ queue2 # <<>>
    /\ B2!Dequeue
    /\ popping2' = popping2 \ {c}
    /\ Hold(c, Head(queue2)) /\ Go(c, "compute")
    /\ UNCHANGED <<objectId2, numAliveProducer2, numAliveConsumer2, noAliveProducer2,
                   noAliveConsumer2, failed2, notEmpty2, pushing2, buffer1, todo, consumed,
                   joined, assertFailed>>

ConsumerGetsNothing(c) ==
    /\ pc[c] = "get" /\ B2!AtPop(c) /\ queue2 = <<>> /\ noAliveProducer2
    /\ popping2' = popping2 \ {c}
    /\ Go(c, "quit2")
    /\ UNCHANGED <<queue2, objectId2, numAliveProducer2, numAliveConsumer2, noAliveProducer2,
                   noAliveConsumer2, failed2, notFull2, notEmpty2, pushing2, buffer1, held,
                   todo, consumed, joined, assertFailed>>

ConsumerLeaves(c) ==
    /\ pc[c] = "quit2" /\ numAliveConsumer2 # 0
    /\ numAliveConsumer2' = numAliveConsumer2 - 1
    /\ IF numAliveConsumer2' = 0
       THEN noAliveConsumer2' = TRUE /\ notFull2' = {}
       ELSE UNCHANGED <<noAliveConsumer2, notFull2>>
    /\ Go(c, "exit")
    /\ UNCHANGED <<queue2, objectId2, numAliveProducer2, noAliveProducer2, failed2, notEmpty2,
                   pushing2, popping2, buffer1, held, todo, consumed, joined, assertFailed>>

\* The steps that leave both buffers alone.
ClientStep ==
    \/ \E t \in Thread : Start(t)
    \/ WaitFinish
    \/ \E p \in Producer : MakeTask(p)
    \/ \E w \in Worker : Compute(w)
    \/ \E c \in Consumer : Consume(c)
    \/ \E m \in Monitor : MonitorRun(m)

Buffer1Step ==
    \/ \E p \in Producer : ProducerWaits(p) \/ ProducerPuts(p) \/ ProducerLeaves(p)
    \/ \E w \in Worker : WorkerWaits(w) \/ WorkerGets(w) \/ WorkerGetsNothing(w)
                            \/ WorkerLeavesBuffer1(w)
    \/ \E t \in Producer \cup Worker : Wakeup1(t)

Buffer2Step ==
    \/ \E w \in Worker : WorkerWaitsForRoom(w) \/ WorkerPuts(w) \/ WorkerLeavesBuffer2(w)
    \/ \E c \in Consumer : ConsumerWaits(c) \/ ConsumerGets(c) \/ ConsumerGetsNothing(c)
                              \/ ConsumerLeaves(c)
    \/ \E t \in Worker \cup Consumer : Wakeup2(t)

Step == ClientStep \/ Buffer1Step \/ Buffer2Step \/ UNCHANGED vars

-----------------------------------------------------------------------------
\* A role of which one thread is at a place has not all gone to others.
LEMMA SomeoneStays ==
    ASSUME NEW role, NEW gone, NEW t \in role, pc[t] \notin gone
    PROVE  Staying(role, pc, gone) # {}
BY DEF Staying

\* As long as somebody puts, somebody is there to get.
LEMMA PuttersAreAwaited ==
    ASSUME Control
    PROVE  /\ \A p \in Producer : pc[p] # "exit" => ~noAliveProducer1 /\ ~noAliveConsumer1
           /\ \A w \in Worker : pc[w] # "exit" => ~noAliveProducer2 /\ ~noAliveConsumer2
<1>1. ASSUME NEW p \in Producer, pc[p] # "exit"
      PROVE  ~noAliveProducer1 /\ ~noAliveConsumer1
  <2>1. ~noAliveProducer1
    BY <1>1, SomeoneStays DEF Control, CensusMatches
  <2>2. PICK w \in Worker : TRUE
    BY SchedulerAssumption
  <2>3. pc[w] \notin {"quit2", "exit"}
    BY <2>1 DEF Control, StagesEndInOrder
  <2> QED
    BY <2>1, <2>3, SomeoneStays DEF Control, CensusMatches
<1>2. ASSUME NEW w \in Worker, pc[w] # "exit"
      PROVE  ~noAliveProducer2 /\ ~noAliveConsumer2
  <2>1. ~noAliveProducer2
    BY <1>2, SomeoneStays DEF Control, CensusMatches
  <2>2. PICK c \in Consumer : TRUE
    BY SchedulerAssumption
  <2>3. pc[c] # "exit"
    BY <2>1 DEF Control, StagesEndInOrder
  <2> QED
    BY <2>1, <2>3, SomeoneStays DEF Control, CensusMatches
<1> QED
    BY <1>1, <1>2

LEMMA AssertKept ==
    ASSUME Control, NEW code, code = "SUCC", AssertSucc(code)
    PROVE  assertFailed' = assertFailed
<1>1. assertFailed = FALSE
    BY DEF Control, TypeOK, NothingFails
<1> QED
    BY <1>1 DEF AssertSucc

LEMMA ProducerSteps ==
    ASSUME Control, NEW p \in Producer, ProducerStep(p)
    PROVE  Step
<1> USE SchedulerAssumption, RolesApart, RolesFinite
<1>1. CASE MakeTask(p)
    BY <1>1 DEF Step, ClientStep
<1>2. CASE ProducerPutTask(p)
  <2>1. ~failed1 /\ ~noAliveConsumer1 /\ ~assertFailed
    BY <1>2, PuttersAreAwaited DEF Control, NothingFails, ProducerPutTask
  <2>2. CASE pc[p] = "put" /\ B1!PushBlocks(p, held[p]) /\ UNCHANGED <<buffer2, clients>>
    <3>1. ProducerWaits(p)
      BY <1>2, <2>1, <2>2
          DEF ProducerWaits, ProducerPutTask, B1!PushBlocks, B1!PushWaits, B1!Full,
              B1!store, B1!census, clients, buffer2
    <3> QED
      BY <3>1 DEF Step, Buffer1Step
  <2>3. ASSUME NEW code \in B1!Code, B1!Push(p, held[p], code), AssertSucc(code),
               Go(p, "make"), Hold(p, NoTask), UNCHANGED <<buffer2, todo, consumed, joined>>
        PROVE  ProducerPuts(p)
    <3>1. code = "SUCC" /\ B1!Enqueue(held[p]) /\ Len(queue1) < BufferSize1
      BY <2>1, <2>3 DEF B1!Push, B1!PushWaits, B1!Full, Control, TypeOK, B1!TypeOK
    <3>2. assertFailed' = assertFailed
      BY <2>3, <3>1, AssertKept
    <3> QED
      BY <1>2, <2>1, <2>3, <3>1, <3>2 DEF ProducerPuts, ProducerPutTask, B1!Push, B1!census
  <2> QED
    BY <1>2, <2>2, <2>3 DEF ProducerPutTask, Step, Buffer1Step, clients
<1>3. CASE ProducerDone(p)
  <2>1. ~failed1 /\ numAliveProducer1 # 0
    BY <1>3, SomeoneStays, StayingFinite
        DEF Control, NothingFails, ProducerDone, CensusMatches
  <2>2. PICK code \in B1!Code : B1!ProducerQuit(p, code) /\ AssertSucc(code)
    BY <1>3 DEF ProducerDone
  <2>3. Cardinality(Producer) # 0
    BY FS_EmptySet
  <2>4. code = "SUCC" /\ numAliveProducer1' = numAliveProducer1 - 1
    BY <2>1, <2>2, <2>3 DEF B1!ProducerQuit, B1!UnexceptedProducerQuit
  <2>5. assertFailed' = assertFailed
    BY <2>2, <2>4, AssertKept
  <2>6. ProducerLeaves(p)
    BY <1>3, <2>1, <2>2, <2>3, <2>4, <2>5
        DEF ProducerLeaves, ProducerDone, B1!ProducerQuit, B1!UnexceptedProducerQuit,
            B1!LastProducerQuits, B1!store
  <2> QED
    BY <2>6 DEF Step, Buffer1Step
<1> QED
    BY <1>1, <1>2, <1>3 DEF ProducerStep

LEMMA WorkerSteps ==
    ASSUME Control, NEW w \in Worker, WorkerStep(w)
    PROVE  Step
<1> USE SchedulerAssumption, RolesApart, RolesFinite
<1>1. CASE Compute(w)
    BY <1>1 DEF Step, ClientStep
<1>2. CASE WorkerGetTask(w)
  <2>1. ~failed1 /\ held[w] = NoTask /\ held \in [Thread -> Task \cup {NoTask}]
    BY <1>2 DEF Control, NothingFails, HandsMatchPlaces, WorkerGetTask, TypeOK
  <2>2. CASE B1!PopBlocks(w) /\ UNCHANGED <<pc, held>>
    <3>1. WorkerWaits(w)
      BY <1>2, <2>1, <2>2
          DEF WorkerWaits, WorkerGetTask, B1!PopBlocks, B1!PopWaits, B1!store, B1!census,
              clients
    <3> QED
      BY <3>1 DEF Step, Buffer1Step
  <2>3. ASSUME NEW code \in B1!Code, NEW task, B1!Pop(w, task, code), Hold(w, task),
               Received(w, code, "quit1")
        PROVE  WorkerGets(w) \/ WorkerGetsNothing(w)
    <3>1. CASE queue1 = <<>>
      <4>1. code = "NO_MORE_OBJECT" /\ task = NoTask /\ noAliveProducer1
        BY <2>1, <2>3, <3>1 DEF B1!Pop, B1!PopWaits, B1!NoMoreObject
      <4>2. held' = held
        BY <2>1, <2>3, <4>1 DEF Hold
      <4> QED
        BY <1>2, <2>1, <2>3, <3>1, <4>1, <4>2
            DEF WorkerGetsNothing, WorkerGetTask, B1!Pop, B1!NoMoreObject, B1!census,
                Received
    <3>2. CASE queue1 # <<>>
      BY <1>2, <2>1, <2>3, <3>2
          DEF WorkerGets, WorkerGetTask, B1!Pop, B1!NoMoreObject, B1!census, Received
    <3> QED
      BY <3>1, <3>2
  <2> QED
    BY <1>2, <2>2, <2>3 DEF WorkerGetTask, Step, Buffer1Step
<1>3. CASE WorkerPutTask(w)
  <2>1. ~failed2 /\ ~noAliveConsumer2 /\ ~assertFailed
    BY <1>3, PuttersAreAwaited DEF Control, NothingFails, WorkerPutTask
  <2>2. CASE B2!PushBlocks(w, held[w]) /\ UNCHANGED <<pc, held, assertFailed>>
    <3>1. WorkerWaitsForRoom(w)
      BY <1>3, <2>1, <2>2
          DEF WorkerWaitsForRoom, WorkerPutTask, B2!PushBlocks, B2!PushWaits, B2!Full,
              B2!store, B2!census, clients
    <3> QED
      BY <3>1 DEF Step, Buffer2Step
  <2>3. ASSUME NEW code \in B2!Code, B2!Push(w, held[w], code), AssertSucc(code),
               Go(w, "get"), Hold(w, NoTask)
        PROVE  WorkerPuts(w)
    <3>1. code = "SUCC" /\ B2!Enqueue(held[w]) /\ Len(queue2) < BufferSize2
      BY <2>1, <2>3 DEF B2!Push, B2!PushWaits, B2!Full, Control, TypeOK, B2!TypeOK
    <3>2. assertFailed' = assertFailed
      BY <2>3, <3>1, AssertKept
    <3> QED
      BY <1>3, <2>1, <2>3, <3>1, <3>2 DEF WorkerPuts, WorkerPutTask, B2!Push, B2!census
  <2> QED
    BY <1>3, <2>2, <2>3 DEF WorkerPutTask, Step, Buffer2Step
<1>4. CASE WorkerQuitsBuffer1(w)
  <2>1. ~failed1 /\ numAliveConsumer1 # 0 /\ queue1 = <<>>
    BY <1>4, SomeoneStays, StayingFinite
        DEF Control, NothingFails, WorkerQuitsBuffer1, CensusMatches, StagesEndInOrder
  <2>2. PICK code \in B1!Code : B1!ConsumerQuit(w, code) /\ AssertSucc(code)
    BY <1>4 DEF WorkerQuitsBuffer1
  <2>3. Cardinality(Worker) # 0
    BY FS_EmptySet
  <2>4. code = "SUCC" /\ numAliveConsumer1' = numAliveConsumer1 - 1
    BY <2>1, <2>2, <2>3 DEF B1!ConsumerQuit, B1!UnexceptedConsumerQuit
  <2>5. assertFailed' = assertFailed
    BY <2>2, <2>4, AssertKept
  <2>6. WorkerLeavesBuffer1(w)
    BY <1>4, <2>1, <2>2, <2>3, <2>4, <2>5
        DEF WorkerLeavesBuffer1, WorkerQuitsBuffer1, B1!ConsumerQuit,
            B1!UnexceptedConsumerQuit, B1!LastConsumerQuits
  <2> QED
    BY <2>6 DEF Step, Buffer1Step
<1>5. CASE WorkerQuitsBuffer2(w)
  <2>1. ~failed2 /\ numAliveProducer2 # 0
    BY <1>5, SomeoneStays, StayingFinite
        DEF Control, NothingFails, WorkerQuitsBuffer2, CensusMatches
  <2>2. PICK code \in B2!Code : B2!ProducerQuit(w, code) /\ AssertSucc(code)
    BY <1>5 DEF WorkerQuitsBuffer2
  <2>3. Cardinality(Worker) # 0
    BY FS_EmptySet
  <2>4. code = "SUCC" /\ numAliveProducer2' = numAliveProducer2 - 1
    BY <2>1, <2>2, <2>3 DEF B2!ProducerQuit, B2!UnexceptedProducerQuit
  <2>5. assertFailed' = assertFailed
    BY <2>2, <2>4, AssertKept
  <2>6. WorkerLeavesBuffer2(w)
    BY <1>5, <2>1, <2>2, <2>3, <2>4, <2>5
        DEF WorkerLeavesBuffer2, WorkerQuitsBuffer2, B2!ProducerQuit,
            B2!UnexceptedProducerQuit, B2!LastProducerQuits, B2!store
  <2> QED
    BY <2>6 DEF Step, Buffer2Step
<1> QED
    BY <1>1, <1>2, <1>3, <1>4, <1>5 DEF WorkerStep

LEMMA ConsumerSteps ==
    ASSUME Control, NEW c \in Consumer, ConsumerStep(c)
    PROVE  Step
<1> USE SchedulerAssumption, RolesApart, RolesFinite
<1>1. CASE Consume(c)
    BY <1>1 DEF Step, ClientStep
<1>2. CASE ConsumerGetTask(c)
  <2>1. ~failed2 /\ held[c] = NoTask /\ held \in [Thread -> Task \cup {NoTask}]
    BY <1>2 DEF Control, NothingFails, HandsMatchPlaces, ConsumerGetTask, TypeOK
  <2>2. CASE B2!PopBlocks(c) /\ UNCHANGED <<pc, held>>
    <3>1. ConsumerWaits(c)
      BY <1>2, <2>1, <2>2
          DEF ConsumerWaits, ConsumerGetTask, B2!PopBlocks, B2!PopWaits, B2!store,
              B2!census, clients
    <3> QED
      BY <3>1 DEF Step, Buffer2Step
  <2>3. ASSUME NEW code \in B2!Code, NEW task, B2!Pop(c, task, code), Hold(c, task),
               Received(c, code, "quit2")
        PROVE  ConsumerGets(c) \/ ConsumerGetsNothing(c)
    <3>1. CASE queue2 = <<>>
      <4>1. code = "NO_MORE_OBJECT" /\ task = NoTask /\ noAliveProducer2
        BY <2>1, <2>3, <3>1 DEF B2!Pop, B2!PopWaits, B2!NoMoreObject
      <4>2. held' = held
        BY <2>1, <2>3, <4>1 DEF Hold
      <4> QED
        BY <1>2, <2>1, <2>3, <3>1, <4>1, <4>2
            DEF ConsumerGetsNothing, ConsumerGetTask, B2!Pop, B2!NoMoreObject, B2!census,
                Received
    <3>2. CASE queue2 # <<>>
      BY <1>2, <2>1, <2>3, <3>2
          DEF ConsumerGets, ConsumerGetTask, B2!Pop, B2!NoMoreObject, B2!census, Received
    <3> QED
      BY <3>1, <3>2
  <2> QED
    BY <1>2, <2>2, <2>3 DEF ConsumerGetTask, Step, Buffer2Step
<1>3. CASE ConsumerDone(c)
  <2>1. ~failed2 /\ numAliveConsumer2 # 0 /\ queue2 = <<>>
    BY <1>3, SomeoneStays, StayingFinite
        DEF Control, NothingFails, ConsumerDone, CensusMatches, StagesEndInOrder
  <2>2. PICK code \in B2!Code : B2!ConsumerQuit(c, code) /\ AssertSucc(code)
    BY <1>3 DEF ConsumerDone
  <2>3. Cardinality(Consumer) # 0
    BY FS_EmptySet
  <2>4. code = "SUCC" /\ numAliveConsumer2' = numAliveConsumer2 - 1
    BY <2>1, <2>2, <2>3 DEF B2!ConsumerQuit, B2!UnexceptedConsumerQuit
  <2>5. assertFailed' = assertFailed
    BY <2>2, <2>4, AssertKept
  <2>6. ConsumerLeaves(c)
    BY <1>3, <2>1, <2>2, <2>3, <2>4, <2>5
        DEF ConsumerLeaves, ConsumerDone, B2!ConsumerQuit, B2!UnexceptedConsumerQuit,
            B2!LastConsumerQuits
  <2> QED
    BY <2>6 DEF Step, Buffer2Step
<1> QED
    BY <1>1, <1>2, <1>3 DEF ConsumerStep

\* Under Control every step of the specification is one of these.
LEMMA NextIsStep == Control /\ [Next]_vars => Step
<1> SUFFICES ASSUME Control, [Next]_vars PROVE Step
    OBVIOUS
<1>1. CASE \E p \in Producer : ProducerStep(p)
    BY <1>1, ProducerSteps
<1>2. CASE \E w \in Worker : WorkerStep(w)
    BY <1>2, WorkerSteps
<1>3. CASE \E c \in Consumer : ConsumerStep(c)
    BY <1>3, ConsumerSteps
<1>4. CASE \/ \E t \in Thread : Start(t)
           \/ WaitFinish
           \/ \E m \in Monitor : MonitorRun(m)
    BY <1>4 DEF Step, ClientStep
<1>5. CASE \/ \E t \in Producer \cup Worker : Wakeup1(t)
           \/ \E t \in Worker \cup Consumer : Wakeup2(t)
    BY <1>5 DEF Step, Buffer1Step, Buffer2Step
<1>6. CASE Finished \/ UNCHANGED vars
    BY <1>6 DEF Step, Finished
<1> QED
    BY <1>1, <1>2, <1>3, <1>4, <1>5, <1>6 DEF Next

-----------------------------------------------------------------------------
\* What the steps do to the clients' part of the state.

LEMMA PlacesStep ==
    ASSUME Control, Step
    PROVE  pc' \in [Thread -> Place] /\ PlacesByRole'
<1> USE RolesApart DEF PlacesByRole, Go, Place
<1>0. pc \in [Thread -> Place] /\ PlacesByRole
    BY DEF Control, TypeOK
<1>1. CASE ClientStep
    BY <1>0, <1>1
        DEF ClientStep, Start, WaitFinish, MakeTask, Compute, Consume, MonitorRun, Thread,
            Staff
<1>2. CASE Buffer1Step
    BY <1>0, <1>2
        DEF Buffer1Step, ProducerWaits, ProducerPuts, ProducerLeaves, WorkerWaits,
            WorkerGets, WorkerGetsNothing, WorkerLeavesBuffer1, Wakeup1, clients
<1>3. CASE Buffer2Step
    BY <1>0, <1>3
        DEF Buffer2Step, WorkerWaitsForRoom, WorkerPuts, WorkerLeavesBuffer2, ConsumerWaits,
            ConsumerGets, ConsumerGetsNothing, ConsumerLeaves, Wakeup2, clients
<1>4. CASE UNCHANGED vars
    BY <1>0, <1>4 DEF vars, clients
<1> QED
    BY <1>1, <1>2, <1>3, <1>4 DEF Step

LEMMA HandsStep ==
    ASSUME Control, Step
    PROVE  held' \in [Thread -> Task \cup {NoTask}] /\ HandsMatchPlaces'
<1> USE RolesApart DEF HandsMatchPlaces, Go, Hold
<1>0. /\ pc \in [Thread -> Place] /\ held \in [Thread -> Task \cup {NoTask}]
      /\ HandsMatchPlaces /\ PlacesByRole /\ todo \subseteq Task
      /\ queue1 \in Seq(Task) /\ queue2 \in Seq(Task)
    BY DEF Control, TypeOK, B1!TypeOK, B2!TypeOK
<1>1. CASE ClientStep
    BY <1>0, <1>1
        DEF ClientStep, Start, WaitFinish, MakeTask, Compute, Consume, MonitorRun, Thread,
            Staff
<1>2. CASE Buffer1Step
  <2>1. queue1 # <<>> => Head(queue1) \in Task
    BY <1>0, HeadTailProperties
  <2> QED
    BY <1>0, <1>2, <2>1
        DEF Buffer1Step, ProducerWaits, ProducerPuts, ProducerLeaves, WorkerWaits,
            WorkerGets, WorkerGetsNothing, WorkerLeavesBuffer1, Wakeup1, clients
<1>3. CASE Buffer2Step
  <2>1. queue2 # <<>> => Head(queue2) \in Task
    BY <1>0, HeadTailProperties
  <2> QED
    BY <1>0, <1>3, <2>1
        DEF Buffer2Step, WorkerWaitsForRoom, WorkerPuts, WorkerLeavesBuffer2, ConsumerWaits,
            ConsumerGets, ConsumerGetsNothing, ConsumerLeaves, Wakeup2, clients
<1>4. CASE UNCHANGED vars
    BY <1>0, <1>4 DEF vars, clients
<1> QED
    BY <1>1, <1>2, <1>3, <1>4 DEF Step

LEMMA TasksStep ==
    ASSUME Control, Step
    PROVE  /\ todo' \subseteq Task /\ consumed' \in Seq(Task)
           /\ joined' \in BOOLEAN /\ assertFailed' \in BOOLEAN /\ NothingFails'
<1> USE DEF NothingFails, HandsMatchPlaces
<1>0. /\ held \in [Thread -> Task \cup {NoTask}] /\ todo \subseteq Task
      /\ consumed \in Seq(Task) /\ joined \in BOOLEAN /\ assertFailed \in BOOLEAN
      /\ NothingFails /\ HandsMatchPlaces
    BY DEF Control, TypeOK
<1>1. CASE ClientStep
  <2>1. ASSUME NEW c \in Consumer, Consume(c)
        PROVE  consumed' \in Seq(Task) /\ UNCHANGED <<todo, joined, buffer1, buffer2, assertFailed>>
    <3>1. held[c] \in Task
      BY <1>0, <2>1, RolesApart DEF Consume
    <3> QED
      BY <1>0, <2>1, <3>1, AppendProperties DEF Consume
  <2>2. ASSUME NEW t \in Thread, Start(t) \/ Compute(t) \/ MonitorRun(t)
        PROVE  UNCHANGED <<todo, consumed, joined, buffer1, buffer2, assertFailed>>
    BY <2>2 DEF Start, Compute, MonitorRun
  <2>3. ASSUME NEW p \in Producer, MakeTask(p)
        PROVE  todo' \subseteq todo /\ UNCHANGED <<consumed, joined, buffer1, buffer2, assertFailed>>
    BY <2>3 DEF MakeTask
  <2>4. ASSUME WaitFinish
        PROVE  joined' = TRUE /\ UNCHANGED <<todo, consumed, buffer1, buffer2, assertFailed>>
    BY <2>4 DEF WaitFinish
  <2>5. /\ todo' \subseteq Task /\ consumed' \in Seq(Task) /\ joined' \in BOOLEAN
        /\ UNCHANGED <<buffer1, buffer2, assertFailed>>
    BY <1>0, <1>1, <2>1, <2>2, <2>3, <2>4, RolesApart DEF ClientStep
  <2> QED
    BY <1>0, <2>5 DEF buffer1, buffer2
<1>2. CASE Buffer1Step
    BY <1>0, <1>2
        DEF Buffer1Step, ProducerWaits, ProducerPuts, ProducerLeaves, WorkerWaits,
            WorkerGets, WorkerGetsNothing, WorkerLeavesBuffer1, Wakeup1, B1!SpuriousWakeup,
            clients, buffer2
<1>3. CASE Buffer2Step
    BY <1>0, <1>3
        DEF Buffer2Step, WorkerWaitsForRoom, WorkerPuts, WorkerLeavesBuffer2, ConsumerWaits,
            ConsumerGets, ConsumerGetsNothing, ConsumerLeaves, Wakeup2, B2!SpuriousWakeup,
            clients, buffer1
<1>4. CASE UNCHANGED vars
    BY <1>0, <1>4 DEF vars, clients, buffer1, buffer2
<1> QED
    BY <1>1, <1>2, <1>3, <1>4 DEF Step

LEMMA CallsStep ==
    ASSUME Control, Step
    PROVE  CallsMatchPlaces'
<1> USE RolesApart DEF CallsMatchPlaces, Go, Hold
<1>0. /\ pc \in [Thread -> Place] /\ held \in [Thread -> Task \cup {NoTask}]
      /\ pushing1 \in [Producer \cup Worker -> Task \cup {NoTask}]
      /\ pushing2 \in [Worker \cup Consumer -> Task \cup {NoTask}]
      /\ CallsMatchPlaces /\ PlacesByRole
    BY DEF Control, TypeOK, B1!TypeOK, B2!TypeOK
<1>1. CASE ClientStep
    BY <1>0, <1>1
        DEF ClientStep, Start, WaitFinish, MakeTask, Compute, Consume, MonitorRun, buffer1,
            buffer2
<1>2. CASE Buffer1Step
  <2>1. ASSUME NEW p \in Producer, ProducerWaits(p) \/ ProducerPuts(p) \/ ProducerLeaves(p)
        PROVE  CallsMatchPlaces'
    BY <1>0, <2>1 DEF ProducerWaits, ProducerPuts, ProducerLeaves, clients, buffer2
  <2>2. ASSUME NEW w \in Worker, WorkerWaits(w) PROVE CallsMatchPlaces'
    BY <1>0, <2>2 DEF WorkerWaits, clients, buffer2
  <2>3. ASSUME NEW w \in Worker, WorkerGetsNothing(w) PROVE CallsMatchPlaces'
    BY <1>0, <2>3 DEF WorkerGetsNothing, buffer2
  <2>4. ASSUME NEW w \in Worker, WorkerLeavesBuffer1(w) PROVE CallsMatchPlaces'
    BY <1>0, <2>4 DEF WorkerLeavesBuffer1, buffer2
  <2>5. ASSUME NEW w \in Worker, WorkerGets(w) PROVE CallsMatchPlaces'
    <3>1. pushing1[w] = NoTask /\ pushing2[w] = NoTask
      BY <1>0, <2>5 DEF WorkerGets
    <3> QED
      BY <1>0, <2>5, <3>1 DEF WorkerGets, buffer2
  <2>6. CASE \E t \in Producer \cup Worker : Wakeup1(t)
    BY <1>0, <2>6 DEF Wakeup1, B1!SpuriousWakeup, clients, buffer2
  <2> QED
    BY <1>2, <2>1, <2>2, <2>3, <2>4, <2>5, <2>6 DEF Buffer1Step
<1>3. CASE Buffer2Step
  <2>1. ASSUME NEW w \in Worker,
               WorkerWaitsForRoom(w) \/ WorkerPuts(w) \/ WorkerLeavesBuffer2(w)
        PROVE  CallsMatchPlaces'
    BY <1>0, <2>1 DEF WorkerWaitsForRoom, WorkerPuts, WorkerLeavesBuffer2, clients, buffer1
  <2>2. ASSUME NEW c \in Consumer, ConsumerWaits(c) PROVE CallsMatchPlaces'
    BY <1>0, <2>2 DEF ConsumerWaits, clients, buffer1
  <2>3. ASSUME NEW c \in Consumer, ConsumerGets(c) PROVE CallsMatchPlaces'
    <3>1. pushing2[c] = NoTask
      BY <1>0, <2>3 DEF ConsumerGets
    <3> QED
      BY <1>0, <2>3, <3>1 DEF ConsumerGets, buffer1
  <2>4. ASSUME NEW c \in Consumer, ConsumerGetsNothing(c) PROVE CallsMatchPlaces'
    BY <1>0, <2>4 DEF ConsumerGetsNothing, buffer1
  <2>5. ASSUME NEW c \in Consumer, ConsumerLeaves(c) PROVE CallsMatchPlaces'
    BY <1>0, <2>5 DEF ConsumerLeaves, buffer1
  <2>6. CASE \E t \in Worker \cup Consumer : Wakeup2(t)
    BY <1>0, <2>6 DEF Wakeup2, B2!SpuriousWakeup, clients, buffer1
  <2> QED
    BY <1>3, <2>1, <2>2, <2>3, <2>4, <2>5, <2>6 DEF Buffer2Step
<1>4. CASE UNCHANGED vars
    BY <1>0, <1>4 DEF vars, clients, buffer1, buffer2
<1> QED
    BY <1>1, <1>2, <1>3, <1>4 DEF Step

-----------------------------------------------------------------------------
\* The census of the two buffers.

census1 == <<numAliveProducer1, numAliveConsumer1, noAliveProducer1, noAliveConsumer1>>
census2 == <<numAliveProducer2, numAliveConsumer2, noAliveProducer2, noAliveConsumer2>>

\* Nobody is counted out while nobody crosses one of the lines.
LEMMA CensusKept ==
    ASSUME CensusMatches, UNCHANGED <<census1, census2>>,
           \A p \in Producer : pc'[p] = "exit" <=> pc[p] = "exit",
           \A w \in Worker : /\ pc'[w] \in {"quit2", "exit"} <=> pc[w] \in {"quit2", "exit"}
                             /\ pc'[w] = "exit" <=> pc[w] = "exit",
           \A c \in Consumer : pc'[c] = "exit" <=> pc[c] = "exit"
    PROVE  CensusMatches'
<1>1. /\ Staying(Producer, pc', {"exit"}) = Staying(Producer, pc, {"exit"})
      /\ Staying(Worker, pc', {"quit2", "exit"}) = Staying(Worker, pc, {"quit2", "exit"})
      /\ Staying(Worker, pc', {"exit"}) = Staying(Worker, pc, {"exit"})
      /\ Staying(Consumer, pc', {"exit"}) = Staying(Consumer, pc, {"exit"})
    BY DEF Staying
<1> QED
    BY <1>1 DEF CensusMatches, census1, census2

LEMMA CensusStep ==
    ASSUME Control, Step
    PROVE  CensusMatches'
<1> USE RolesApart DEF Go
<1>0. pc \in [Thread -> Place] /\ CensusMatches /\ PlacesByRole
    BY DEF Control, TypeOK
<1>1. ASSUME NEW p \in Producer, ProducerLeaves(p) PROVE CensusMatches'
  <2>1. /\ Staying(Worker, pc', {"quit2", "exit"}) = Staying(Worker, pc, {"quit2", "exit"})
        /\ Staying(Worker, pc', {"exit"}) = Staying(Worker, pc, {"exit"})
        /\ Staying(Consumer, pc', {"exit"}) = Staying(Consumer, pc, {"exit"})
    BY <1>0, <1>1 DEF ProducerLeaves, Staying
  <2>2. pc[p] \notin {"exit"} /\ pc'[p] \in {"exit"} /\ \A s \in Producer \ {p} : pc'[s] = pc[s]
    BY <1>0, <1>1 DEF ProducerLeaves
  <2>3. Cardinality(Staying(Producer, pc', {"exit"})) = numAliveProducer1'
    <3>1. Cardinality(Staying(Producer, pc', {"exit"})) = Cardinality(Staying(Producer, pc, {"exit"})) - 1
      BY <2>2, OneLeaves, RolesFinite
    <3> QED
      BY <1>0, <1>1, <3>1 DEF ProducerLeaves, CensusMatches
  <2>4. numAliveProducer1' = 0 <=> Staying(Producer, pc', {"exit"}) = {}
    BY <2>3, StayingFinite, RolesFinite
  <2>5. noAliveProducer1' <=> Staying(Producer, pc', {"exit"}) = {}
    BY <1>0, <1>1, <2>2, <2>4, SomeoneStays DEF ProducerLeaves, CensusMatches
  <2> QED
    BY <1>0, <1>1, <2>1, <2>3, <2>5 DEF ProducerLeaves, CensusMatches, buffer2
<1>2. ASSUME NEW w \in Worker, WorkerLeavesBuffer1(w) PROVE CensusMatches'
  <2>1. /\ Staying(Producer, pc', {"exit"}) = Staying(Producer, pc, {"exit"})
        /\ Staying(Worker, pc', {"exit"}) = Staying(Worker, pc, {"exit"})
        /\ Staying(Consumer, pc', {"exit"}) = Staying(Consumer, pc, {"exit"})
    BY <1>0, <1>2 DEF WorkerLeavesBuffer1, Staying
  <2>2. /\ pc[w] \notin {"quit2", "exit"} /\ pc'[w] \in {"quit2", "exit"}
        /\ \A s \in Worker \ {w} : pc'[s] = pc[s]
    BY <1>0, <1>2 DEF WorkerLeavesBuffer1
  <2>3. Cardinality(Staying(Worker, pc', {"quit2", "exit"})) = numAliveConsumer1'
    <3> DEFINE gone == {"quit2", "exit"}
    <3>0. pc[w] \notin gone /\ pc'[w] \in gone /\ \A s \in Worker \ {w} : pc'[s] = pc[s]
      BY <2>2
    <3> HIDE DEF gone
    <3>1. Cardinality(Staying(Worker, pc', gone)) = Cardinality(Staying(Worker, pc, gone)) - 1
      BY <3>0, OneLeaves, RolesFinite
    <3> USE DEF gone
    <3> QED
      BY <1>0, <1>2, <3>1 DEF WorkerLeavesBuffer1, CensusMatches
  <2>4. numAliveConsumer1' = 0 <=> Staying(Worker, pc', {"quit2", "exit"}) = {}
    BY <2>3, StayingFinite, RolesFinite
  <2>5. noAliveConsumer1' <=> Staying(Worker, pc', {"quit2", "exit"}) = {}
    BY <1>0, <1>2, <2>2, <2>4, SomeoneStays DEF WorkerLeavesBuffer1, CensusMatches
  <2> QED
    BY <1>0, <1>2, <2>1, <2>3, <2>5 DEF WorkerLeavesBuffer1, CensusMatches, buffer2
<1>3. ASSUME NEW w \in Worker, WorkerLeavesBuffer2(w) PROVE CensusMatches'
  <2>1. /\ Staying(Producer, pc', {"exit"}) = Staying(Producer, pc, {"exit"})
        /\ Staying(Worker, pc', {"quit2", "exit"}) = Staying(Worker, pc, {"quit2", "exit"})
        /\ Staying(Consumer, pc', {"exit"}) = Staying(Consumer, pc, {"exit"})
    BY <1>0, <1>3 DEF WorkerLeavesBuffer2, Staying
  <2>2. pc[w] \notin {"exit"} /\ pc'[w] \in {"exit"} /\ \A s \in Worker \ {w} : pc'[s] = pc[s]
    BY <1>0, <1>3 DEF WorkerLeavesBuffer2
  <2>3. Cardinality(Staying(Worker, pc', {"exit"})) = numAliveProducer2'
    <3>1. Cardinality(Staying(Worker, pc', {"exit"})) = Cardinality(Staying(Worker, pc, {"exit"})) - 1
      BY <2>2, OneLeaves, RolesFinite
    <3> QED
      BY <1>0, <1>3, <3>1 DEF WorkerLeavesBuffer2, CensusMatches
  <2>4. numAliveProducer2' = 0 <=> Staying(Worker, pc', {"exit"}) = {}
    BY <2>3, StayingFinite, RolesFinite
  <2>5. noAliveProducer2' <=> Staying(Worker, pc', {"exit"}) = {}
    BY <1>0, <1>3, <2>2, <2>4, SomeoneStays DEF WorkerLeavesBuffer2, CensusMatches
  <2> QED
    BY <1>0, <1>3, <2>1, <2>3, <2>5 DEF WorkerLeavesBuffer2, CensusMatches, buffer1
<1>4. ASSUME NEW c \in Consumer, ConsumerLeaves(c) PROVE CensusMatches'
  <2>1. /\ Staying(Producer, pc', {"exit"}) = Staying(Producer, pc, {"exit"})
        /\ Staying(Worker, pc', {"quit2", "exit"}) = Staying(Worker, pc, {"quit2", "exit"})
        /\ Staying(Worker, pc', {"exit"}) = Staying(Worker, pc, {"exit"})
    BY <1>0, <1>4 DEF ConsumerLeaves, Staying
  <2>2. pc[c] \notin {"exit"} /\ pc'[c] \in {"exit"} /\ \A s \in Consumer \ {c} : pc'[s] = pc[s]
    BY <1>0, <1>4 DEF ConsumerLeaves
  <2>3. Cardinality(Staying(Consumer, pc', {"exit"})) = numAliveConsumer2'
    <3>1. Cardinality(Staying(Consumer, pc', {"exit"})) = Cardinality(Staying(Consumer, pc, {"exit"})) - 1
      BY <2>2, OneLeaves, RolesFinite
    <3> QED
      BY <1>0, <1>4, <3>1 DEF ConsumerLeaves, CensusMatches
  <2>4. numAliveConsumer2' = 0 <=> Staying(Consumer, pc', {"exit"}) = {}
    BY <2>3, StayingFinite, RolesFinite
  <2>5. noAliveConsumer2' <=> Staying(Consumer, pc', {"exit"}) = {}
    BY <1>0, <1>4, <2>2, <2>4, SomeoneStays DEF ConsumerLeaves, CensusMatches
  <2> QED
    BY <1>0, <1>4, <2>1, <2>3, <2>5 DEF ConsumerLeaves, CensusMatches, buffer1
<1>5. CASE ClientStep
    BY <1>0, <1>5, CensusKept
        DEF ClientStep, Start, WaitFinish, MakeTask, Compute, Consume, MonitorRun, buffer1,
            buffer2, census1, census2, PlacesByRole
<1>6. ASSUME NEW t \in Producer \cup Worker,
             ProducerWaits(t) \/ (t \in Producer /\ ProducerPuts(t)) \/ WorkerWaits(t)
                 \/ (t \in Worker /\ (WorkerGets(t) \/ WorkerGetsNothing(t))) \/ Wakeup1(t)
      PROVE  CensusMatches'
    BY <1>0, <1>6, CensusKept
        DEF ProducerWaits, ProducerPuts, WorkerWaits, WorkerGets, WorkerGetsNothing, Wakeup1,
            B1!SpuriousWakeup, B1!census, clients, buffer2, census1, census2
<1>7. ASSUME NEW t \in Worker \cup Consumer,
             WorkerWaitsForRoom(t) \/ (t \in Worker /\ WorkerPuts(t)) \/ ConsumerWaits(t)
                 \/ (t \in Consumer /\ (ConsumerGets(t) \/ ConsumerGetsNothing(t)))
                 \/ Wakeup2(t)
      PROVE  CensusMatches'
    BY <1>0, <1>7, CensusKept
        DEF WorkerWaitsForRoom, WorkerPuts, ConsumerWaits, ConsumerGets, ConsumerGetsNothing,
            Wakeup2, B2!SpuriousWakeup, B2!census, clients, buffer1, census1, census2
<1>8. CASE UNCHANGED vars
    BY <1>0, <1>8, CensusKept DEF vars, clients, buffer1, buffer2, census1, census2
<1> QED
    BY <1>1, <1>2, <1>3, <1>4, <1>5, <1>6, <1>7, <1>8 DEF Step, Buffer1Step, Buffer2Step

\* Once over, a stage stays over.
LEMMA StagesStep ==
    ASSUME Control, Step
    PROVE  StagesEndInOrder'
<1> USE RolesApart DEF Go, StagesEndInOrder
<1>0. /\ pc \in [Thread -> Place] /\ PlacesByRole /\ StagesEndInOrder /\ joined \in BOOLEAN
      /\ todo \subseteq Task
    BY DEF Control, TypeOK
<1>1. CASE ClientStep
    BY <1>0, <1>1
        DEF ClientStep, Start, WaitFinish, MakeTask, Compute, Consume, MonitorRun, buffer1,
            buffer2, PlacesByRole
<1>2. ASSUME NEW p \in Producer, ProducerWaits(p) \/ ProducerPuts(p) \/ ProducerLeaves(p)
      PROVE  StagesEndInOrder'
  <2>1. ~noAliveProducer1
    BY <1>2, PuttersAreAwaited DEF ProducerWaits, ProducerPuts, ProducerLeaves
  <2> QED
    BY <1>0, <1>2, <2>1 DEF ProducerWaits, ProducerPuts, ProducerLeaves, clients, buffer2
<1>3. ASSUME NEW w \in Worker,
             WorkerWaits(w) \/ WorkerGets(w) \/ WorkerGetsNothing(w) \/ WorkerLeavesBuffer1(w)
      PROVE  StagesEndInOrder'
    BY <1>0, <1>3
        DEF WorkerWaits, WorkerGets, WorkerGetsNothing, WorkerLeavesBuffer1, clients, buffer2
<1>4. ASSUME NEW w \in Worker,
             WorkerWaitsForRoom(w) \/ WorkerPuts(w) \/ WorkerLeavesBuffer2(w)
      PROVE  StagesEndInOrder'
  <2>1. ~noAliveProducer2
    BY <1>4, PuttersAreAwaited DEF WorkerWaitsForRoom, WorkerPuts, WorkerLeavesBuffer2
  <2> QED
    BY <1>0, <1>4, <2>1
        DEF WorkerWaitsForRoom, WorkerPuts, WorkerLeavesBuffer2, clients, buffer1
<1>5. ASSUME NEW c \in Consumer,
             ConsumerWaits(c) \/ ConsumerGets(c) \/ ConsumerGetsNothing(c) \/ ConsumerLeaves(c)
      PROVE  StagesEndInOrder'
    BY <1>0, <1>5
        DEF ConsumerWaits, ConsumerGets, ConsumerGetsNothing, ConsumerLeaves, clients, buffer1
<1>6. ASSUME NEW t, Wakeup1(t) \/ Wakeup2(t) PROVE StagesEndInOrder'
    BY <1>0, <1>6
        DEF Wakeup1, Wakeup2, B1!SpuriousWakeup, B2!SpuriousWakeup, B1!store, B1!census,
            B2!store, B2!census, clients, buffer1, buffer2
<1>7. CASE UNCHANGED vars
    BY <1>0, <1>7 DEF vars, clients, buffer1, buffer2
<1> QED
    BY <1>1, <1>2, <1>3, <1>4, <1>5, <1>6, <1>7 DEF Step, Buffer1Step, Buffer2Step

-----------------------------------------------------------------------------
\* The buffers themselves.

LEMMA OtherStepsKeepBuffers ==
    /\ ClientStep \/ Buffer2Step \/ UNCHANGED vars => UNCHANGED buffer1
    /\ ClientStep \/ Buffer1Step \/ UNCHANGED vars => UNCHANGED buffer2
BY DEF ClientStep, Start, WaitFinish, MakeTask, Compute, Consume, MonitorRun, vars,
       Buffer1Step, ProducerWaits, ProducerPuts, ProducerLeaves, WorkerWaits, WorkerGets,
       WorkerGetsNothing, WorkerLeavesBuffer1, Wakeup1,
       Buffer2Step, WorkerWaitsForRoom, WorkerPuts, WorkerLeavesBuffer2, ConsumerWaits,
       ConsumerGets, ConsumerGetsNothing, ConsumerLeaves, Wakeup2

LEMMA Buffer1Type ==
    ASSUME Control, Step
    PROVE  B1!TypeOK'
<1> USE RolesApart DEF B1!TypeOK
<1>0. B1!TypeOK /\ held \in [Thread -> Task \cup {NoTask}] /\ HandsMatchPlaces
    BY DEF Control, TypeOK
<1>1. numAliveProducer1' \in 0..Cardinality(Producer) /\ numAliveConsumer1' \in 0..Cardinality(Worker)
  <2>1. CensusMatches'
    BY CensusStep
  <2>2. /\ Staying(Producer, pc', {"exit"}) \in SUBSET Producer
        /\ Staying(Worker, pc', {"quit2", "exit"}) \in SUBSET Worker
    BY DEF Staying
  <2>3. /\ Cardinality(Staying(Producer, pc', {"exit"})) \in 0..Cardinality(Producer)
        /\ Cardinality(Staying(Worker, pc', {"quit2", "exit"})) \in 0..Cardinality(Worker)
    BY <2>2, RolesFinite, SubsetCardinality, FS_CardinalityType
  <2> QED
    BY <2>1, <2>3 DEF CensusMatches
<1> DEFINE rest == /\ noAliveProducer1' \in BOOLEAN /\ noAliveConsumer1' \in BOOLEAN
                   /\ failed1' \in BOOLEAN
                   /\ notFull1' \subseteq Producer \cup Worker
                   /\ notEmpty1' \subseteq Producer \cup Worker
                   /\ pushing1' \in [Producer \cup Worker -> Task \cup {NoTask}]
                   /\ popping1' \subseteq Producer \cup Worker
<1>2. ASSUME NEW p \in Producer, ProducerPuts(p)
      PROVE  queue1' \in Seq(Task) /\ objectId1' \in Nat /\ rest
  <2>1. held[p] \in Task
    BY <1>0, <1>2 DEF ProducerPuts, HandsMatchPlaces
  <2>2. queue1' \in Seq(Task)
    BY <1>0, <1>2, <2>1, AppendProperties DEF ProducerPuts, B1!Enqueue
  <2>3. notEmpty1' \subseteq notEmpty1
    BY <1>2 DEF ProducerPuts, B1!Enqueue, B1!WakeOne
  <2> QED
    BY <1>0, <1>2, <2>2, <2>3 DEF ProducerPuts, B1!Enqueue
<1>3. ASSUME NEW w \in Worker, WorkerGets(w)
      PROVE  queue1' \in Seq(Task) /\ objectId1' \in Nat /\ rest
  <2>1. queue1' \in Seq(Task)
    BY <1>0, <1>3, HeadTailProperties DEF WorkerGets, B1!Dequeue
  <2>2. notFull1' \subseteq notFull1
    BY <1>3 DEF WorkerGets, B1!Dequeue, B1!WakeOne
  <2> QED
    BY <1>0, <1>3, <2>1, <2>2 DEF WorkerGets, B1!Dequeue
<1>4. ASSUME NEW t \in Producer \cup Worker,
             ProducerWaits(t) \/ WorkerWaits(t) \/ WorkerGetsNothing(t) \/ Wakeup1(t)
      PROVE  queue1' \in Seq(Task) /\ objectId1' \in Nat /\ rest
    BY <1>0, <1>4
        DEF ProducerWaits, WorkerWaits, WorkerGetsNothing, Wakeup1, B1!SpuriousWakeup,
            B1!store, B1!census
<1>5. ASSUME NEW t, ProducerLeaves(t) \/ WorkerLeavesBuffer1(t)
      PROVE  queue1' \in Seq(Task) /\ objectId1' \in Nat /\ rest
    BY <1>0, <1>5 DEF ProducerLeaves, WorkerLeavesBuffer1
<1>6. CASE UNCHANGED buffer1
    BY <1>0, <1>6 DEF buffer1
<1>7. CASE Buffer1Step
    BY <1>1, <1>2, <1>3, <1>4, <1>5, <1>7 DEF Buffer1Step
<1> QED
    BY <1>6, <1>7, OtherStepsKeepBuffers DEF Step

LEMMA Buffer2Type ==
    ASSUME Control, Step
    PROVE  B2!TypeOK'
<1> USE RolesApart DEF B2!TypeOK
<1>0. B2!TypeOK /\ held \in [Thread -> Task \cup {NoTask}] /\ HandsMatchPlaces
    BY DEF Control, TypeOK
<1>1. numAliveProducer2' \in 0..Cardinality(Worker) /\ numAliveConsumer2' \in 0..Cardinality(Consumer)
  <2>1. CensusMatches'
    BY CensusStep
  <2>2. /\ Staying(Worker, pc', {"exit"}) \in SUBSET Worker
        /\ Staying(Consumer, pc', {"exit"}) \in SUBSET Consumer
    BY DEF Staying
  <2>3. /\ Cardinality(Staying(Worker, pc', {"exit"})) \in 0..Cardinality(Worker)
        /\ Cardinality(Staying(Consumer, pc', {"exit"})) \in 0..Cardinality(Consumer)
    BY <2>2, RolesFinite, SubsetCardinality, FS_CardinalityType
  <2> QED
    BY <2>1, <2>3 DEF CensusMatches
<1> DEFINE rest == /\ noAliveProducer2' \in BOOLEAN /\ noAliveConsumer2' \in BOOLEAN
                   /\ failed2' \in BOOLEAN
                   /\ notFull2' \subseteq Worker \cup Consumer
                   /\ notEmpty2' \subseteq Worker \cup Consumer
                   /\ pushing2' \in [Worker \cup Consumer -> Task \cup {NoTask}]
                   /\ popping2' \subseteq Worker \cup Consumer
<1>2. ASSUME NEW p \in Worker, WorkerPuts(p)
      PROVE  queue2' \in Seq(Task) /\ objectId2' \in Nat /\ rest
  <2>1. held[p] \in Task
    BY <1>0, <1>2 DEF WorkerPuts, HandsMatchPlaces
  <2>2. queue2' \in Seq(Task)
    BY <1>0, <1>2, <2>1, AppendProperties DEF WorkerPuts, B2!Enqueue
  <2>3. notEmpty2' \subseteq notEmpty2
    BY <1>2 DEF WorkerPuts, B2!Enqueue, B2!WakeOne
  <2> QED
    BY <1>0, <1>2, <2>2, <2>3 DEF WorkerPuts, B2!Enqueue
<1>3. ASSUME NEW w \in Consumer, ConsumerGets(w)
      PROVE  queue2' \in Seq(Task) /\ objectId2' \in Nat /\ rest
  <2>1. queue2' \in Seq(Task)
    BY <1>0, <1>3, HeadTailProperties DEF ConsumerGets, B2!Dequeue
  <2>2. notFull2' \subseteq notFull2
    BY <1>3 DEF ConsumerGets, B2!Dequeue, B2!WakeOne
  <2> QED
    BY <1>0, <1>3, <2>1, <2>2 DEF ConsumerGets, B2!Dequeue
<1>4. ASSUME NEW t \in Worker \cup Consumer,
             WorkerWaitsForRoom(t) \/ ConsumerWaits(t) \/ ConsumerGetsNothing(t) \/ Wakeup2(t)
      PROVE  queue2' \in Seq(Task) /\ objectId2' \in Nat /\ rest
    BY <1>0, <1>4
        DEF WorkerWaitsForRoom, ConsumerWaits, ConsumerGetsNothing, Wakeup2, B2!SpuriousWakeup,
            B2!store, B2!census
<1>5. ASSUME NEW t, WorkerLeavesBuffer2(t) \/ ConsumerLeaves(t)
      PROVE  queue2' \in Seq(Task) /\ objectId2' \in Nat /\ rest
    BY <1>0, <1>5 DEF WorkerLeavesBuffer2, ConsumerLeaves
<1>6. CASE UNCHANGED buffer2
    BY <1>0, <1>6 DEF buffer2
<1>7. CASE Buffer2Step
    BY <1>1, <1>2, <1>3, <1>4, <1>5, <1>7 DEF Buffer2Step
<1> QED
    BY <1>6, <1>7, OtherStepsKeepBuffers DEF Step

-----------------------------------------------------------------------------
LEMMA ControlInit == Init => Control
<1> SUFFICES ASSUME Init PROVE Control
    OBVIOUS
<1> USE RolesApart DEF Init
<1>1. /\ Staying(Producer, pc, {"exit"}) = Producer /\ Staying(Worker, pc, {"exit"}) = Worker
      /\ Staying(Worker, pc, {"quit2", "exit"}) = Worker
      /\ Staying(Consumer, pc, {"exit"}) = Consumer
    BY DEF Staying
<1>2. CensusMatches
    BY <1>1, SchedulerAssumption DEF CensusMatches, B1!Init, B2!Init
<1>3. /\ Cardinality(Producer) \in Nat /\ Cardinality(Worker) \in Nat
      /\ Cardinality(Consumer) \in Nat
    BY RolesFinite, FS_CardinalityType
<1>4. <<>> \in Seq(Task)
    OBVIOUS
<1>5. B1!TypeOK
  <2>1. pushing1 \in [Producer \cup Worker -> Task \cup {NoTask}]
    BY DEF B1!Init
  <2>2. /\ numAliveProducer1 \in 0..Cardinality(Producer)
        /\ numAliveConsumer1 \in 0..Cardinality(Worker)
    BY <1>3 DEF B1!Init
  <2> QED
    BY <1>4, <2>1, <2>2 DEF B1!TypeOK, B1!Init
<1>6. B2!TypeOK
  <2>1. pushing2 \in [Worker \cup Consumer -> Task \cup {NoTask}]
    BY DEF B2!Init
  <2>2. /\ numAliveProducer2 \in 0..Cardinality(Worker)
        /\ numAliveConsumer2 \in 0..Cardinality(Consumer)
    BY <1>3 DEF B2!Init
  <2> QED
    BY <1>4, <2>1, <2>2 DEF B2!TypeOK, B2!Init
<1>7. TypeOK
  <2>1. pc \in [Thread -> Place] /\ held \in [Thread -> Task \cup {NoTask}]
    BY DEF Place
  <2> QED
    BY <1>4, <1>5, <1>6, <2>1 DEF TypeOK
<1> QED
    BY <1>2, <1>7
        DEF Control, PlacesByRole, HandsMatchPlaces, CallsMatchPlaces, NothingFails,
            StagesEndInOrder, B1!Init, B2!Init

LEMMA ControlStep == Control /\ [Next]_vars => Control'
<1> SUFFICES ASSUME Control, Step PROVE Control'
    BY NextIsStep
<1>1. TypeOK'
    BY PlacesStep, HandsStep, TasksStep, Buffer1Type, Buffer2Type DEF TypeOK
<1> QED
    BY <1>1, PlacesStep, HandsStep, TasksStep, CallsStep, CensusStep, StagesStep DEF Control

(* The scheduler and its buffers keep their types: the censuses stay       *)
(* within the numbers of threads, whichever thread quits when.             *)
THEOREM TypeCorrect == Spec => []TypeOK
<1>1. Control => TypeOK
    BY DEF Control
<1> QED
    BY <1>1, ControlInit, ControlStep, PTL DEF Spec

(* No assert(rtn == LONGAN_SUCC) of the scheduler's methods fails: no put  *)
(* finds its queue closed, and no thread quits that is not counted.        *)
THEOREM NoAssertFails == Spec => []AssertsHold
<1>1. Control => AssertsHold
    BY DEF Control, NothingFails, AssertsHold
<1> QED
    BY <1>1, ControlInit, ControlStep, PTL DEF Spec

-----------------------------------------------------------------------------
(* No lost wakeup.  Each of the four condition variables is one instance   *)
(* of the count in Counting: the poppers wait for objects, the pushers for *)
(* free places.                                                            *)
Pushing1 == {t \in Producer \cup Worker : pushing1[t] # NoTask}
Pushing2 == {t \in Worker \cup Consumer : pushing2[t] # NoTask}

Wakeups1 ==
    /\ notEmpty1 \subseteq popping1 /\ notFull1 \subseteq Pushing1
    /\ Len(queue1) <= BufferSize1
    /\ B1!NobodySleepsThroughTheEnd
    /\ Suffices(Len(queue1), notEmpty1, popping1)
    /\ Suffices(BufferSize1 - Len(queue1), notFull1, Pushing1)

Wakeups2 ==
    /\ notEmpty2 \subseteq popping2 /\ notFull2 \subseteq Pushing2
    /\ Len(queue2) <= BufferSize2
    /\ B2!NobodySleepsThroughTheEnd
    /\ Suffices(Len(queue2), notEmpty2, popping2)
    /\ Suffices(BufferSize2 - Len(queue2), notFull2, Pushing2)

LEMMA Wakeups1Step ==
    ASSUME Control, Control', Wakeups1, Step
    PROVE  Wakeups1'
<1> DEFINE T == Producer \cup Worker
           room == BufferSize1 - Len(queue1)
<1> USE RolesApart DEF Wakeups1, B1!NobodySleepsThroughTheEnd
<1>0. /\ queue1 \in Seq(Task) /\ Len(queue1) \in Nat /\ Len(queue1') \in Nat
      /\ IsFiniteSet(T) /\ BufferSize1 \in Nat
      /\ notEmpty1 \in SUBSET T /\ notEmpty1' \in SUBSET T
      /\ notFull1 \in SUBSET T /\ notFull1' \in SUBSET T
      /\ popping1 \in SUBSET T /\ popping1' \in SUBSET T
      /\ Pushing1 \in SUBSET T /\ Pushing1' \in SUBSET T
      /\ pushing1 \in [T -> Task \cup {NoTask}] /\ held \in [Thread -> Task \cup {NoTask}]
      /\ HandsMatchPlaces /\ ~failed1 /\ ~failed1'
      /\ Suffices(Len(queue1), notEmpty1, popping1) /\ Len(queue1) \in Int
      /\ Suffices(room, notFull1, Pushing1) /\ room \in Int
      /\ notEmpty1 \subseteq popping1 /\ notFull1 \subseteq Pushing1
    BY SchedulerAssumption, RolesFinite, LenProperties
        DEF Control, TypeOK, B1!TypeOK, NothingFails, Pushing1
<1>10. room = BufferSize1 - Len(queue1)
    OBVIOUS
<1> HIDE DEF T, room
<1>1. ASSUME NEW p \in Producer, ProducerWaits(p) PROVE Wakeups1'
  <2>1. Pushing1 \subseteq Pushing1' /\ p \in Pushing1'
    BY <1>0, <1>1 DEF ProducerWaits, Pushing1, HandsMatchPlaces, T
  <2>2. Suffices(BufferSize1 - Len(queue1), notFull1', Pushing1')
    BY <1>0, <1>1, SufficesKept, BufferSize1 - Len(queue1) <= 0 DEF ProducerWaits
  <2> QED
    BY <1>0, <1>1, <2>1, <2>2 DEF ProducerWaits
<1>2. ASSUME NEW p \in Producer, ProducerPuts(p) PROVE Wakeups1'
  <2>1. held[p] \in Task
    BY <1>0, <1>2 DEF ProducerPuts, HandsMatchPlaces
  <2>2. Len(queue1') = Len(queue1) + 1 /\ Len(queue1) < BufferSize1
    BY <1>0, <1>2, <2>1, AppendProperties DEF ProducerPuts, B1!Enqueue
  <2>3. \/ notEmpty1 = {} /\ notEmpty1' = {}
        \/ \E t \in notEmpty1 : notEmpty1' = notEmpty1 \ {t}
    BY <1>2 DEF ProducerPuts, B1!Enqueue, B1!WakeOne
  <2>4. Suffices(Len(queue1) + 1, notEmpty1', popping1)
    BY <1>0, <2>3, SufficesNotified
  <2>5. Pushing1 \ {p} \subseteq Pushing1' /\ p \notin notFull1
    BY <1>0, <1>2 DEF ProducerPuts, Pushing1, B1!AtPush, B1!Idle, T
  <2>6. Suffices(room - 1, notFull1, Pushing1')
    <3> HIDE DEF Wakeups1
    <3> QED
      BY <1>0, <2>5, SufficesTaken
  <2>7. room - 1 = BufferSize1 - Len(queue1')
    BY <1>0, <1>10, <2>2
  <2>8. UNCHANGED <<notFull1, popping1, noAliveProducer1, noAliveConsumer1>>
    BY <1>2 DEF ProducerPuts
  <2> QED
    BY <1>0, <2>2, <2>3, <2>4, <2>5, <2>6, <2>7, <2>8
<1>3. ASSUME NEW p \in Producer, ProducerLeaves(p) PROVE Wakeups1'
  <2>1. Suffices(Len(queue1), notEmpty1', popping1)
    BY <1>3 DEF ProducerLeaves, Suffices
  <2>2. Pushing1' = Pushing1
    BY <1>3 DEF ProducerLeaves, Pushing1
  <2> QED
    BY <1>0, <1>3, <2>1, <2>2 DEF ProducerLeaves
<1>4. ASSUME NEW w \in Worker, WorkerWaits(w) PROVE Wakeups1'
  <2>1. Len(queue1') = 0
    BY <1>4 DEF WorkerWaits
  <2>2. Suffices(Len(queue1'), notEmpty1', popping1')
    BY <1>0, <2>1, SufficesKept
  <2>3. Pushing1' = Pushing1
    BY <1>4 DEF WorkerWaits, Pushing1
  <2> QED
    BY <1>0, <1>4, <2>2, <2>3 DEF WorkerWaits
<1>5. ASSUME NEW w \in Worker, WorkerGets(w) PROVE Wakeups1'
  <2>1. Len(queue1') = Len(queue1) - 1
    BY <1>0, <1>5, HeadTailProperties DEF WorkerGets, B1!Dequeue
  <2>2. \/ notFull1 = {} /\ notFull1' = {}
        \/ \E t \in notFull1 : notFull1' = notFull1 \ {t}
    BY <1>5 DEF WorkerGets, B1!Dequeue, B1!WakeOne
  <2>3. Pushing1' = Pushing1
    BY <1>5 DEF WorkerGets, Pushing1
  <2>4. Suffices(room + 1, notFull1', Pushing1)
    <3> HIDE DEF Wakeups1
    <3> QED
      BY <1>0, <2>2, SufficesNotified
  <2>5. popping1 \ {w} \subseteq popping1' /\ notEmpty1 \subseteq popping1'
    BY <1>5 DEF WorkerGets, B1!AtPop, B1!Idle
  <2>6. Suffices(Len(queue1) - 1, notEmpty1, popping1')
    <3> HIDE DEF Wakeups1
    <3> QED
      BY <1>0, <2>5, SufficesTaken
  <2>7. room + 1 = BufferSize1 - Len(queue1')
    BY <1>0, <1>10, <2>1
  <2>8. UNCHANGED <<notEmpty1, noAliveProducer1, noAliveConsumer1>>
    BY <1>5 DEF WorkerGets
  <2> QED
    BY <1>0, <2>1, <2>2, <2>3, <2>4, <2>5, <2>6, <2>7, <2>8
<1>6. ASSUME NEW w \in Worker, WorkerGetsNothing(w) PROVE Wakeups1'
  <2>1. Len(queue1') = 0
    BY <1>6 DEF WorkerGetsNothing
  <2>2. Suffices(Len(queue1'), notEmpty1', popping1')
    BY <1>0, <2>1, SufficesKept
  <2>3. Pushing1' = Pushing1 /\ notEmpty1 \subseteq popping1'
    BY <1>6 DEF WorkerGetsNothing, Pushing1, B1!AtPop, B1!Idle
  <2> QED
    BY <1>0, <1>6, <2>2, <2>3 DEF WorkerGetsNothing
<1>7. ASSUME NEW w \in Worker, WorkerLeavesBuffer1(w) PROVE Wakeups1'
  <2>1. Pushing1' = Pushing1
    BY <1>7 DEF WorkerLeavesBuffer1, Pushing1
  <2>2. Suffices(BufferSize1 - Len(queue1), notFull1', Pushing1)
    BY <1>7 DEF WorkerLeavesBuffer1, Suffices
  <2> QED
    BY <1>0, <1>7, <2>1, <2>2 DEF WorkerLeavesBuffer1
<1>8. ASSUME NEW t, Wakeup1(t) PROVE Wakeups1'
  <2>1. /\ notEmpty1' \subseteq notEmpty1 /\ notFull1' \subseteq notFull1
        /\ UNCHANGED <<queue1, popping1, noAliveProducer1, noAliveConsumer1>>
        /\ Pushing1' = Pushing1
    BY <1>8 DEF Wakeup1, B1!SpuriousWakeup, B1!store, B1!census, Pushing1
  <2>2. /\ Suffices(Len(queue1), notEmpty1', popping1)
        /\ Suffices(room, notFull1', Pushing1)
    BY <1>0, <2>1, SufficesKept
  <2> QED
    BY <1>0, <1>10, <2>1, <2>2
<1>9. CASE UNCHANGED buffer1
    BY <1>9 DEF buffer1, Pushing1
<1> QED
    BY <1>1, <1>2, <1>3, <1>4, <1>5, <1>6, <1>7, <1>8, <1>9, OtherStepsKeepBuffers
        DEF Step, Buffer1Step

LEMMA Wakeups2Step ==
    ASSUME Control, Control', Wakeups2, Step
    PROVE  Wakeups2'
<1> DEFINE T == Worker \cup Consumer
           room == BufferSize2 - Len(queue2)
<1> USE RolesApart DEF Wakeups2, B2!NobodySleepsThroughTheEnd
<1>0. /\ queue2 \in Seq(Task) /\ Len(queue2) \in Nat /\ Len(queue2') \in Nat
      /\ IsFiniteSet(T) /\ BufferSize2 \in Nat
      /\ notEmpty2 \in SUBSET T /\ notEmpty2' \in SUBSET T
      /\ notFull2 \in SUBSET T /\ notFull2' \in SUBSET T
      /\ popping2 \in SUBSET T /\ popping2' \in SUBSET T
      /\ Pushing2 \in SUBSET T /\ Pushing2' \in SUBSET T
      /\ pushing2 \in [T -> Task \cup {NoTask}] /\ held \in [Thread -> Task \cup {NoTask}]
      /\ HandsMatchPlaces /\ ~failed2 /\ ~failed2'
      /\ Suffices(Len(queue2), notEmpty2, popping2) /\ Len(queue2) \in Int
      /\ Suffices(room, notFull2, Pushing2) /\ room \in Int
      /\ notEmpty2 \subseteq popping2 /\ notFull2 \subseteq Pushing2
    BY SchedulerAssumption, RolesFinite, LenProperties
        DEF Control, TypeOK, B2!TypeOK, NothingFails, Pushing2
<1>10. room = BufferSize2 - Len(queue2)
    OBVIOUS
<1> HIDE DEF T, room
<1>1. ASSUME NEW p \in Worker, WorkerWaitsForRoom(p) PROVE Wakeups2'
  <2>1. Pushing2 \subseteq Pushing2' /\ p \in Pushing2'
    BY <1>0, <1>1 DEF WorkerWaitsForRoom, Pushing2, HandsMatchPlaces, T
  <2>2. Suffices(BufferSize2 - Len(queue2), notFull2', Pushing2')
    BY <1>0, <1>1, SufficesKept, BufferSize2 - Len(queue2) <= 0 DEF WorkerWaitsForRoom
  <2> QED
    BY <1>0, <1>1, <2>1, <2>2 DEF WorkerWaitsForRoom
<1>2. ASSUME NEW p \in Worker, WorkerPuts(p) PROVE Wakeups2'
  <2>1. held[p] \in Task
    BY <1>0, <1>2 DEF WorkerPuts, HandsMatchPlaces
  <2>2. Len(queue2') = Len(queue2) + 1 /\ Len(queue2) < BufferSize2
    BY <1>0, <1>2, <2>1, AppendProperties DEF WorkerPuts, B2!Enqueue
  <2>3. \/ notEmpty2 = {} /\ notEmpty2' = {}
        \/ \E t \in notEmpty2 : notEmpty2' = notEmpty2 \ {t}
    BY <1>2 DEF WorkerPuts, B2!Enqueue, B2!WakeOne
  <2>4. Suffices(Len(queue2) + 1, notEmpty2', popping2)
    BY <1>0, <2>3, SufficesNotified
  <2>5. Pushing2 \ {p} \subseteq Pushing2' /\ p \notin notFull2
    BY <1>0, <1>2 DEF WorkerPuts, Pushing2, B2!AtPush, B2!Idle, T
  <2>6. Suffices(room - 1, notFull2, Pushing2')
    <3> HIDE DEF Wakeups2
    <3> QED
      BY <1>0, <2>5, SufficesTaken
  <2>7. room - 1 = BufferSize2 - Len(queue2')
    BY <1>0, <1>10, <2>2
  <2>8. UNCHANGED <<notFull2, popping2, noAliveProducer2, noAliveConsumer2>>
    BY <1>2 DEF WorkerPuts
  <2> QED
    BY <1>0, <2>2, <2>3, <2>4, <2>5, <2>6, <2>7, <2>8
<1>3. ASSUME NEW p \in Worker, WorkerLeavesBuffer2(p) PROVE Wakeups2'
  <2>1. Suffices(Len(queue2), notEmpty2', popping2)
    BY <1>3 DEF WorkerLeavesBuffer2, Suffices
  <2>2. Pushing2' = Pushing2
    BY <1>3 DEF WorkerLeavesBuffer2, Pushing2
  <2> QED
    BY <1>0, <1>3, <2>1, <2>2 DEF WorkerLeavesBuffer2
<1>4. ASSUME NEW w \in Consumer, ConsumerWaits(w) PROVE Wakeups2'
  <2>1. Len(queue2') = 0
    BY <1>4 DEF ConsumerWaits
  <2>2. Suffices(Len(queue2'), notEmpty2', popping2')
    BY <1>0, <2>1, SufficesKept
  <2>3. Pushing2' = Pushing2
    BY <1>4 DEF ConsumerWaits, Pushing2
  <2> QED
    BY <1>0, <1>4, <2>2, <2>3 DEF ConsumerWaits
<1>5. ASSUME NEW w \in Consumer, ConsumerGets(w) PROVE Wakeups2'
  <2>1. Len(queue2') = Len(queue2) - 1
    BY <1>0, <1>5, HeadTailProperties DEF ConsumerGets, B2!Dequeue
  <2>2. \/ notFull2 = {} /\ notFull2' = {}
        \/ \E t \in notFull2 : notFull2' = notFull2 \ {t}
    BY <1>5 DEF ConsumerGets, B2!Dequeue, B2!WakeOne
  <2>3. Pushing2' = Pushing2
    BY <1>5 DEF ConsumerGets, Pushing2
  <2>4. Suffices(room + 1, notFull2', Pushing2)
    <3> HIDE DEF Wakeups2
    <3> QED
      BY <1>0, <2>2, SufficesNotified
  <2>5. popping2 \ {w} \subseteq popping2' /\ notEmpty2 \subseteq popping2'
    BY <1>5 DEF ConsumerGets, B2!AtPop, B2!Idle
  <2>6. Suffices(Len(queue2) - 1, notEmpty2, popping2')
    <3> HIDE DEF Wakeups2
    <3> QED
      BY <1>0, <2>5, SufficesTaken
  <2>7. room + 1 = BufferSize2 - Len(queue2')
    BY <1>0, <1>10, <2>1
  <2>8. UNCHANGED <<notEmpty2, noAliveProducer2, noAliveConsumer2>>
    BY <1>5 DEF ConsumerGets
  <2> QED
    BY <1>0, <2>1, <2>2, <2>3, <2>4, <2>5, <2>6, <2>7, <2>8
<1>6. ASSUME NEW w \in Consumer, ConsumerGetsNothing(w) PROVE Wakeups2'
  <2>1. Len(queue2') = 0
    BY <1>6 DEF ConsumerGetsNothing
  <2>2. Suffices(Len(queue2'), notEmpty2', popping2')
    BY <1>0, <2>1, SufficesKept
  <2>3. Pushing2' = Pushing2 /\ notEmpty2 \subseteq popping2'
    BY <1>6 DEF ConsumerGetsNothing, Pushing2, B2!AtPop, B2!Idle
  <2> QED
    BY <1>0, <1>6, <2>2, <2>3 DEF ConsumerGetsNothing
<1>7. ASSUME NEW w \in Consumer, ConsumerLeaves(w) PROVE Wakeups2'
  <2>1. Pushing2' = Pushing2
    BY <1>7 DEF ConsumerLeaves, Pushing2
  <2>2. Suffices(BufferSize2 - Len(queue2), notFull2', Pushing2)
    BY <1>7 DEF ConsumerLeaves, Suffices
  <2> QED
    BY <1>0, <1>7, <2>1, <2>2 DEF ConsumerLeaves
<1>8. ASSUME NEW t, Wakeup2(t) PROVE Wakeups2'
  <2>1. /\ notEmpty2' \subseteq notEmpty2 /\ notFull2' \subseteq notFull2
        /\ UNCHANGED <<queue2, popping2, noAliveProducer2, noAliveConsumer2>>
        /\ Pushing2' = Pushing2
    BY <1>8 DEF Wakeup2, B2!SpuriousWakeup, B2!store, B2!census, Pushing2
  <2>2. /\ Suffices(Len(queue2), notEmpty2', popping2)
        /\ Suffices(room, notFull2', Pushing2)
    BY <1>0, <2>1, SufficesKept
  <2> QED
    BY <1>0, <1>10, <2>1, <2>2
<1>9. CASE UNCHANGED buffer2
    BY <1>9 DEF buffer2, Pushing2
<1> QED
    BY <1>1, <1>2, <1>3, <1>4, <1>5, <1>6, <1>7, <1>8, <1>9, OtherStepsKeepBuffers
        DEF Step, Buffer2Step

LEMMA WakeupsInit == Init => Wakeups1 /\ Wakeups2
BY SchedulerAssumption
    DEF Init, B1!Init, B2!Init, Wakeups1, Wakeups2, Suffices, B1!NobodySleepsThroughTheEnd,
        B2!NobodySleepsThroughTheEnd

\* The counting of the instances is that of FiniteSets.
LEMMA SameCardinality ==
    ASSUME NEW S
    PROVE  B1!Cardinality(S) = Cardinality(S) /\ B2!Cardinality(S) = Cardinality(S)
BY DEF B1!Cardinality, B2!Cardinality, Cardinality

LEMMA WakeupsNamed == Wakeups1 /\ Wakeups2 => NoLostWakeup
<1>1. /\ B1!WokenPushers = Pushing1 \ notFull1 /\ B1!WokenPoppers = popping1 \ notEmpty1
      /\ B2!WokenPushers = Pushing2 \ notFull2 /\ B2!WokenPoppers = popping2 \ notEmpty2
    BY DEF B1!WokenPushers, B1!WokenPoppers, B2!WokenPushers, B2!WokenPoppers, Pushing1,
           Pushing2
<1>2. ASSUME Wakeups1
      PROVE  B1!PushWakeupsSuffice /\ B1!PopWakeupsSuffice /\ B1!NobodySleepsThroughTheEnd
  <2>1. B1!PushWakeupsSuffice
    BY <1>1, <1>2, SameCardinality DEF Wakeups1, Suffices, B1!PushWakeupsSuffice
  <2>2. B1!PopWakeupsSuffice
    BY <1>1, <1>2, SameCardinality DEF Wakeups1, Suffices, B1!PopWakeupsSuffice
  <2> QED
    BY <1>2, <2>1, <2>2 DEF Wakeups1
<1>3. ASSUME Wakeups2
      PROVE  B2!PushWakeupsSuffice /\ B2!PopWakeupsSuffice /\ B2!NobodySleepsThroughTheEnd
  <2>1. B2!PushWakeupsSuffice
    BY <1>1, <1>3, SameCardinality DEF Wakeups2, Suffices, B2!PushWakeupsSuffice
  <2>2. B2!PopWakeupsSuffice
    BY <1>1, <1>3, SameCardinality DEF Wakeups2, Suffices, B2!PopWakeupsSuffice
  <2> QED
    BY <1>3, <2>1, <2>2 DEF Wakeups2
<1> QED
    BY <1>2, <1>3 DEF NoLostWakeup

(* Nobody sleeps on one of the four condition variables while there is     *)
(* something for him that nobody else is on the way to, although each put  *)
(* and each get wakes up one thread only.                                  *)
THEOREM SchedulerLosesNoWakeup == Spec => []NoLostWakeup
<1> DEFINE Inv == Control /\ Wakeups1 /\ Wakeups2
<1>1. Init => Inv
    BY ControlInit, WakeupsInit
<1>2. Inv /\ [Next]_vars => Inv'
    BY ControlStep, NextIsStep, Wakeups1Step, Wakeups2Step
<1>3. Inv => NoLostWakeup
    BY WakeupsNamed
<1> QED
    BY <1>1, <1>2, <1>3, PTL DEF Spec

-----------------------------------------------------------------------------
(***************************************************************************)
(* What becomes of the tasks.                                              *)
(***************************************************************************)

\* In how many places a task is.
InTodo(task)   == IF task \in todo THEN 1 ELSE 0
InHands(task)  == Cardinality(Holders(task, held, Thread))
In(task, seq)  == Cardinality(Positions(task, seq))
Places(task)   == InTodo(task) + InHands(task) + In(task, queue1) + In(task, queue2)
                      + In(task, consumed)

\* EachTaskInOnePlace, in terms of the counts of Counting.
OnePlace == \A task \in Task : Places(task) = 1

LEMMA OnePlaceNamed == OnePlace <=> EachTaskInOnePlace
BY DEF OnePlace, Places, InTodo, InHands, In, Holders, Positions, EachTaskInOnePlace,
       Occurrences

LEMMA PlacesAreNumbers ==
    ASSUME TypeOK, NEW task
    PROVE  /\ InTodo(task) \in Int /\ InHands(task) \in Int /\ In(task, queue1) \in Int
           /\ In(task, queue2) \in Int /\ In(task, consumed) \in Int
<1>1. queue1 \in Seq(Task) /\ queue2 \in Seq(Task) /\ consumed \in Seq(Task)
    BY DEF TypeOK, B1!TypeOK, B2!TypeOK
<1>2. Holders(task, held, Thread) \in SUBSET Thread
    BY DEF Holders
<1>3. InHands(task) \in Int
    BY <1>2, RolesFinite, SubsetCardinality DEF InHands
<1> QED
    BY <1>1, <1>3, PositionsFinite DEF InTodo, In

LEMMA OnePlaceInit == Init => OnePlace
<1> SUFFICES ASSUME Init, NEW task \in Task PROVE Places(task) = 1
    BY DEF OnePlace
<1>1. Holders(task, held, Thread) = {}
    BY RolesApart DEF Init, Holders
<1>2. InHands(task) = 0 /\ InTodo(task) = 1
    BY <1>1, FS_EmptySet DEF Init, InHands, InTodo
<1>3. In(task, queue1) = 0 /\ In(task, queue2) = 0 /\ In(task, consumed) = 0
    BY PositionsEmpty DEF Init, B1!Init, B2!Init, In
<1> QED
    BY <1>2, <1>3 DEF Places

\* A thread with one thing in its hand has another thing next.
LEMMA HandSwaps ==
    ASSUME TypeOK, NEW t \in Thread, NEW new, Hold(t, new), NEW task
    PROVE  InHands(task)' = InHands(task) + (IF new = task THEN 1 ELSE 0)
                                - (IF held[t] = task THEN 1 ELSE 0)
<1>1. /\ IsFiniteSet(Thread) /\ held'[t] = new
      /\ \A s \in Thread \ {t} : held'[s] = held[s]
    BY RolesFinite DEF TypeOK, Hold
<1>2. Cardinality(Holders(task, held', Thread))
          = Cardinality(Holders(task, held, Thread)) + (IF held'[t] = task THEN 1 ELSE 0)
                - (IF held[t] = task THEN 1 ELSE 0)
    BY <1>1, HandChanges
<1> QED
    BY <1>1, <1>2 DEF InHands, Holders

\* The steps that move tasks, and those that do not.
LEMMA OtherSteps ==
    ASSUME Step
    PROVE  \/ \E p \in Producer : MakeTask(p) \/ ProducerPuts(p)
           \/ \E w \in Worker : WorkerGets(w) \/ WorkerPuts(w)
           \/ \E c \in Consumer : ConsumerGets(c) \/ Consume(c)
           \/ UNCHANGED <<todo, held, queue1, queue2, consumed>>
<1>1. CASE ClientStep
    BY <1>1 DEF ClientStep, Start, WaitFinish, Compute, MonitorRun, buffer1, buffer2
<1>2. CASE Buffer1Step
    BY <1>2 DEF Buffer1Step, ProducerWaits, ProducerLeaves, WorkerWaits, WorkerGetsNothing,
                WorkerLeavesBuffer1, Wakeup1, B1!SpuriousWakeup, B1!store, buffer2, clients
<1>3. CASE Buffer2Step
    BY <1>3 DEF Buffer2Step, WorkerWaitsForRoom, WorkerLeavesBuffer2, ConsumerWaits,
                ConsumerGetsNothing, ConsumerLeaves, Wakeup2, B2!SpuriousWakeup, B2!store,
                buffer1, clients
<1>4. CASE UNCHANGED vars
    BY <1>4 DEF vars, buffer1, buffer2, clients
<1> QED
    BY <1>1, <1>2, <1>3, <1>4 DEF Step

(* No step loses a task or doubles it: what a step takes from one place it *)
(* puts in another.                                                        *)
LEMMA OnePlaceStep ==
    ASSUME Control, Control', OnePlace, Step
    PROVE  OnePlace'
<1> SUFFICES ASSUME NEW task \in Task PROVE Places(task)' = Places(task)
    BY DEF OnePlace
<1> USE RolesApart
<1>0. /\ TypeOK /\ TypeOK' /\ HandsMatchPlaces
      /\ queue1 \in Seq(Task) /\ queue2 \in Seq(Task) /\ consumed \in Seq(Task)
      /\ queue1' \in Seq(Task) /\ queue2' \in Seq(Task)
      /\ held \in [Thread -> Task \cup {NoTask}] /\ todo \in SUBSET Task /\ NoTask # task
    BY DEF Control, TypeOK, B1!TypeOK, B2!TypeOK
<1>1. /\ InTodo(task) \in Int /\ InHands(task) \in Int /\ In(task, queue1) \in Int
      /\ In(task, queue2) \in Int /\ In(task, consumed) \in Int
    BY <1>0, PlacesAreNumbers
<1>2. ASSUME NEW p \in Producer, MakeTask(p) PROVE Places(task)' = Places(task)
  <2>1. held[p] = NoTask
    BY <1>0, <1>2 DEF MakeTask, HandsMatchPlaces
  <2>2. PICK new \in todo : todo' = todo \ {new} /\ Hold(p, new)
    BY <1>2 DEF MakeTask
  <2>3. InHands(task)' = InHands(task) + (IF new = task THEN 1 ELSE 0)
    BY <1>0, <1>1, <2>1, <2>2, HandSwaps
  <2>4. InTodo(task)' = InTodo(task) - (IF new = task THEN 1 ELSE 0)
    BY <2>2 DEF InTodo
  <2>5. UNCHANGED <<queue1, queue2, consumed>>
    BY <1>2 DEF MakeTask, buffer1, buffer2
  <2> QED
    BY <1>1, <2>3, <2>4, <2>5 DEF Places, In
<1>3. ASSUME NEW p \in Producer, ProducerPuts(p) PROVE Places(task)' = Places(task)
  <2>1. held[p] \in Task /\ Hold(p, NoTask) /\ queue1' = Append(queue1, held[p])
    BY <1>0, <1>3 DEF ProducerPuts, HandsMatchPlaces, B1!Enqueue
  <2>2. InHands(task)' = InHands(task) - (IF held[p] = task THEN 1 ELSE 0)
    BY <1>0, <1>1, <2>1, HandSwaps
  <2>3. In(task, queue1') = In(task, queue1) + (IF held[p] = task THEN 1 ELSE 0)
    BY <1>0, <2>1, PositionsAppend DEF In
  <2>4. UNCHANGED <<todo, queue2, consumed>>
    BY <1>3 DEF ProducerPuts, buffer2
  <2> QED
    BY <1>1, <2>2, <2>3, <2>4 DEF Places, InTodo, In
<1>4. ASSUME NEW w \in Worker, WorkerGets(w) PROVE Places(task)' = Places(task)
  <2>1. held[w] = NoTask /\ Hold(w, Head(queue1)) /\ queue1 # <<>> /\ queue1' = Tail(queue1)
    BY <1>0, <1>4 DEF WorkerGets, HandsMatchPlaces, B1!Dequeue
  <2>2. InHands(task)' = InHands(task) + (IF Head(queue1) = task THEN 1 ELSE 0)
    BY <1>0, <1>1, <2>1, HandSwaps
  <2>3. In(task, queue1) = In(task, queue1') + (IF Head(queue1) = task THEN 1 ELSE 0)
    BY <1>0, <2>1, PositionsTail DEF In
  <2>4. UNCHANGED <<todo, queue2, consumed>> /\ In(task, queue1') \in Int
    BY <1>0, <1>4, PositionsFinite DEF In, WorkerGets, buffer2
  <2> QED
    BY <1>1, <2>2, <2>3, <2>4 DEF Places, InTodo, In
<1>5. ASSUME NEW w \in Worker, WorkerPuts(w) PROVE Places(task)' = Places(task)
  <2>1. held[w] \in Task /\ Hold(w, NoTask) /\ queue2' = Append(queue2, held[w])
    BY <1>0, <1>5 DEF WorkerPuts, HandsMatchPlaces, B2!Enqueue
  <2>2. InHands(task)' = InHands(task) - (IF held[w] = task THEN 1 ELSE 0)
    BY <1>0, <1>1, <2>1, HandSwaps
  <2>3. In(task, queue2') = In(task, queue2) + (IF held[w] = task THEN 1 ELSE 0)
    BY <1>0, <2>1, PositionsAppend DEF In
  <2>4. UNCHANGED <<todo, queue1, consumed>>
    BY <1>5 DEF WorkerPuts, buffer1
  <2> QED
    BY <1>1, <2>2, <2>3, <2>4 DEF Places, InTodo, In
<1>6. ASSUME NEW c \in Consumer, ConsumerGets(c) PROVE Places(task)' = Places(task)
  <2>1. held[c] = NoTask /\ Hold(c, Head(queue2)) /\ queue2 # <<>> /\ queue2' = Tail(queue2)
    BY <1>0, <1>6 DEF ConsumerGets, HandsMatchPlaces, B2!Dequeue
  <2>2. InHands(task)' = InHands(task) + (IF Head(queue2) = task THEN 1 ELSE 0)
    BY <1>0, <1>1, <2>1, HandSwaps
  <2>3. In(task, queue2) = In(task, queue2') + (IF Head(queue2) = task THEN 1 ELSE 0)
    BY <1>0, <2>1, PositionsTail DEF In
  <2>4. UNCHANGED <<todo, queue1, consumed>> /\ In(task, queue2') \in Int
    BY <1>0, <1>6, PositionsFinite DEF In, ConsumerGets, buffer1
  <2> QED
    BY <1>1, <2>2, <2>3, <2>4 DEF Places, InTodo, In
<1>7. ASSUME NEW c \in Consumer, Consume(c) PROVE Places(task)' = Places(task)
  <2>1. held[c] \in Task /\ Hold(c, NoTask) /\ consumed' = Append(consumed, held[c])
    BY <1>0, <1>7 DEF Consume, HandsMatchPlaces
  <2>2. InHands(task)' = InHands(task) - (IF held[c] = task THEN 1 ELSE 0)
    BY <1>0, <1>1, <2>1, HandSwaps
  <2>3. In(task, consumed') = In(task, consumed) + (IF held[c] = task THEN 1 ELSE 0)
    BY <1>0, <2>1, PositionsAppend DEF In
  <2>4. UNCHANGED <<todo, queue1, queue2>>
    BY <1>7 DEF Consume, buffer1, buffer2
  <2> QED
    BY <1>1, <2>2, <2>3, <2>4 DEF Places, InTodo, In
<1>8. CASE UNCHANGED <<todo, held, queue1, queue2, consumed>>
    BY <1>8 DEF Places, InTodo, InHands, In, Holders, Positions
<1> QED
    BY <1>2, <1>3, <1>4, <1>5, <1>6, <1>7, <1>8, OtherSteps

(* Exactly once, for every interleaving: a task is in one queue, in the    *)
(* hands of one thread, not made yet, or taken in once.                    *)
THEOREM EachTaskStaysInOnePlace == Spec => []EachTaskInOnePlace
<1> DEFINE Inv == Control /\ OnePlace
<1>1. Init => Inv
    BY ControlInit, OnePlaceInit
<1>2. Inv /\ [Next]_vars => Inv'
    BY ControlStep, NextIsStep, OnePlaceStep
<1>3. Inv => EachTaskInOnePlace
    BY OnePlaceNamed
<1> QED
    BY <1>1, <1>2, <1>3, PTL DEF Spec

LEMMA NothingLeftBehind ==
    ASSUME Control, OnePlace
    PROVE  JoinedMeansAllConsumed
<1> SUFFICES ASSUME joined, NEW task \in Task PROVE Occurrences(task, consumed) = 1
    BY DEF JoinedMeansAllConsumed
<1> USE RolesApart
<1>1. \A t \in Thread : pc[t] = "exit"
    BY DEF Control, StagesEndInOrder
<1>2. todo = {} /\ queue1 = <<>> /\ queue2 = <<>>
    BY <1>1, SchedulerAssumption DEF Control, StagesEndInOrder
<1>3. Holders(task, held, Thread) = {}
    BY <1>1 DEF Control, HandsMatchPlaces, Holders
<1>4. InTodo(task) = 0 /\ InHands(task) = 0
    BY <1>2, <1>3, FS_EmptySet DEF InTodo, InHands
<1>5. In(task, queue1) = 0 /\ In(task, queue2) = 0
    BY <1>2, PositionsEmpty DEF In
<1>6. In(task, consumed) \in Int /\ Places(task) = 1
    BY PlacesAreNumbers DEF Control, OnePlace
<1>7. In(task, consumed) = 1
    BY <1>4, <1>5, <1>6 DEF Places
<1> QED
    BY <1>7 DEF In, Positions, Occurrences

(* When WaitFinish returns, every task has been taken in, and once: no     *)
(* stage is left while something is still on its way to it.                *)
THEOREM NothingIsLeftUnconsumed == Spec => []JoinedMeansAllConsumed
<1> DEFINE Inv == Control /\ OnePlace
<1>1. Init => Inv
    BY ControlInit, OnePlaceInit
<1>2. Inv /\ [Next]_vars => Inv'
    BY ControlStep, NextIsStep, OnePlaceStep
<1>3. Inv => JoinedMeansAllConsumed
    BY NothingLeftBehind
<1> QED
    BY <1>1, <1>2, <1>3, PTL DEF Spec

-----------------------------------------------------------------------------
(* The refinement.  What a client of TaskPipeline sees of the scheduler.   *)
Hands == [t \in Worker \cup Consumer |-> held[t]]
Left  == {t \in Staff : pc[t] = "exit"}

LEMMA PipelineInit == Init => Pipeline!Init
<1> SUFFICES ASSUME Init PROVE Pipeline!Init
    OBVIOUS
<1>1. queue1 = <<>> /\ queue2 = <<>>
    BY DEF Init, B1!Init, B2!Init
<1>2. Hands = [t \in Worker \cup Consumer |-> NoTask] /\ Left = {}
    BY RolesApart DEF Init, Hands, Left, Thread
<1> QED
    BY <1>1, <1>2 DEF Pipeline!Init, Hands, Left

\* What the steps of a thread t do to the hands and to who has left.
LEMMA SeenOfProducer ==
    ASSUME TypeOK, NEW p \in Producer, NEW task, NEW place, place # "exit", pc[p] # "exit",
           Go(p, place), Hold(p, task)
    PROVE  Hands' = Hands /\ Left' = Left
BY RolesApart DEF TypeOK, Go, Hold, Hands, Left, Staff, Thread

LEMMA SeenOfOther ==
    ASSUME TypeOK, NEW t \in Worker \cup Consumer, NEW task, NEW place, place # "exit",
           pc[t] # "exit", Go(t, place), Hold(t, task)
    PROVE  Hands' = [Hands EXCEPT ![t] = task] /\ Left' = Left
BY RolesApart DEF TypeOK, Go, Hold, Hands, Left, Staff, Thread

LEMMA SeenOfMove ==
    ASSUME TypeOK, NEW t \in Thread, NEW place, place # "exit", pc[t] # "exit", Go(t, place),
           held' = held
    PROVE  Hands' = Hands /\ Left' = Left
BY DEF TypeOK, Go, Hands, Left, Staff, Thread

LEMMA SeenOfExit ==
    ASSUME TypeOK, NEW t \in Staff, Go(t, "exit"), held' = held
    PROVE  Hands' = Hands /\ Left' = Left \cup {t}
BY DEF TypeOK, Go, Hands, Left, Staff, Thread

(* Every step of the scheduler is one of the pipeline, or none: waiting,   *)
(* waking up, starting, making and computing a task and the first half of  *)
(* WorkerDone are invisible.                                               *)
LEMMA PipelineStep ==
    ASSUME Control, Step
    PROVE  Pipeline!Next \/ UNCHANGED Pipeline!vars
<1> DEFINE Same == Hands' = Hands /\ Left' = Left /\ UNCHANGED <<queue1, queue2>>
<1> USE RolesApart
<1>0. TypeOK /\ PlacesByRole /\ HandsMatchPlaces /\ CensusMatches /\ StagesEndInOrder
    BY DEF Control
<1>1. Same => UNCHANGED Pipeline!vars
    BY DEF Pipeline!vars, Hands, Left
<1> HIDE DEF Same
<1>2. ASSUME NEW p \in Producer, MakeTask(p) PROVE Same
    BY <1>0, <1>2, SeenOfProducer DEF MakeTask, buffer1, buffer2, Same
<1>3. ASSUME NEW p \in Producer, ProducerPuts(p) PROVE Pipeline!Next
  <2>1. p \notin Left /\ held[p] \in Task
    BY <1>0, <1>3 DEF ProducerPuts, HandsMatchPlaces, TypeOK, Left
  <2>2. Hands' = Hands /\ Left' = Left
    BY <1>0, <1>3, SeenOfProducer DEF ProducerPuts
  <2>3. Pipeline!ProducerPutTask(p, held[p])
    BY <1>3, <2>1, <2>2
        DEF Pipeline!ProducerPutTask, ProducerPuts, B1!Enqueue, buffer2, Hands, Left
  <2> QED
    BY <2>1, <2>3 DEF Pipeline!Next
<1>4. ASSUME NEW p \in Producer, ProducerLeaves(p) PROVE Pipeline!Next
  <2>1. p \notin Left
    BY <1>4 DEF ProducerLeaves, Left
  <2>2. Hands' = Hands /\ Left' = Left \cup {p}
    BY <1>0, <1>4, SeenOfExit DEF ProducerLeaves, Staff
  <2>3. Pipeline!ProducerDone(p)
    BY <1>4, <2>1, <2>2 DEF Pipeline!ProducerDone, ProducerLeaves, buffer2, Hands, Left
  <2> QED
    BY <2>3 DEF Pipeline!Next
<1>5. ASSUME NEW w \in Worker, WorkerGets(w) PROVE Pipeline!Next
  <2>1. w \notin Left /\ held[w] = NoTask
    BY <1>0, <1>5 DEF WorkerGets, HandsMatchPlaces, Left
  <2>2. Hands' = [Hands EXCEPT ![w] = Head(queue1)] /\ Left' = Left
    BY <1>0, <1>5, SeenOfOther DEF WorkerGets
  <2>3. Pipeline!WorkerGetTask(w)
    BY <1>5, <2>1, <2>2
        DEF Pipeline!WorkerGetTask, Pipeline!Ready, WorkerGets, B1!Dequeue, buffer2, Hands,
            Left
  <2> QED
    BY <2>3 DEF Pipeline!Next
<1>6. ASSUME NEW w \in Worker, WorkerPuts(w) PROVE Pipeline!Next
  <2>1. held[w] # NoTask /\ Hands[w] = held[w]
    BY <1>0, <1>6 DEF WorkerPuts, HandsMatchPlaces, Hands
  <2>2. Hands' = [Hands EXCEPT ![w] = NoTask] /\ Left' = Left
    BY <1>0, <1>6, SeenOfOther DEF WorkerPuts
  <2>3. Pipeline!WorkerPutTask(w)
    BY <1>6, <2>1, <2>2
        DEF Pipeline!WorkerPutTask, WorkerPuts, B2!Enqueue, buffer1, Hands, Left
  <2> QED
    BY <2>3 DEF Pipeline!Next
<1>7. ASSUME NEW w \in Worker, WorkerLeavesBuffer2(w) PROVE Pipeline!Next
  <2>1. w \notin Left /\ held[w] = NoTask /\ Hands[w] = held[w]
    BY <1>0, <1>7 DEF WorkerLeavesBuffer2, HandsMatchPlaces, Left, Hands
  <2>2. queue1 = <<>> /\ Producer \subseteq Left
    BY <1>0, <1>7 DEF WorkerLeavesBuffer2, StagesEndInOrder, CensusMatches, Staying, Left, Staff
  <2>3. Hands' = Hands /\ Left' = Left \cup {w}
    BY <1>0, <1>7, SeenOfExit DEF WorkerLeavesBuffer2, Staff
  <2>4. Pipeline!WorkerDone(w)
    BY <1>7, <2>1, <2>2, <2>3
        DEF Pipeline!WorkerDone, Pipeline!Ready, WorkerLeavesBuffer2, buffer1, Hands, Left
  <2> QED
    BY <2>4 DEF Pipeline!Next
<1>8. ASSUME NEW c \in Consumer, ConsumerGets(c) PROVE Pipeline!Next
  <2>1. c \notin Left /\ held[c] = NoTask
    BY <1>0, <1>8 DEF ConsumerGets, HandsMatchPlaces, Left
  <2>2. Hands' = [Hands EXCEPT ![c] = Head(queue2)] /\ Left' = Left
    BY <1>0, <1>8, SeenOfOther DEF ConsumerGets
  <2>3. Pipeline!ConsumerGetTask(c)
    BY <1>8, <2>1, <2>2
        DEF Pipeline!ConsumerGetTask, Pipeline!Ready, ConsumerGets, B2!Dequeue, buffer1,
            Hands, Left
  <2> QED
    BY <2>3 DEF Pipeline!Next
<1>9. ASSUME NEW c \in Consumer, Consume(c) PROVE Pipeline!Next
  <2>1. held[c] # NoTask /\ Hands[c] = held[c]
    BY <1>0, <1>9 DEF Consume, HandsMatchPlaces, Hands
  <2>2. Hands' = [Hands EXCEPT ![c] = NoTask] /\ Left' = Left
    BY <1>0, <1>9, SeenOfOther DEF Consume
  <2>3. Pipeline!ConsumerDropTask(c)
    BY <1>9, <2>1, <2>2
        DEF Pipeline!ConsumerDropTask, Consume, buffer1, buffer2, Hands, Left
  <2> QED
    BY <2>3 DEF Pipeline!Next
<1>10. ASSUME NEW c \in Consumer, ConsumerLeaves(c) PROVE Pipeline!Next
  <2>1. c \notin Left /\ held[c] = NoTask /\ Hands[c] = held[c]
    BY <1>0, <1>10 DEF ConsumerLeaves, HandsMatchPlaces, Left, Hands
  <2>2. queue2 = <<>> /\ Worker \subseteq Left
    BY <1>0, <1>10 DEF ConsumerLeaves, StagesEndInOrder, CensusMatches, Staying, Left, Staff
  <2>3. Hands' = Hands /\ Left' = Left \cup {c}
    BY <1>0, <1>10, SeenOfExit DEF ConsumerLeaves, Staff
  <2>4. Pipeline!ConsumerDone(c)
    BY <1>10, <2>1, <2>2, <2>3
        DEF Pipeline!ConsumerDone, Pipeline!Ready, ConsumerLeaves, buffer1, Hands, Left
  <2> QED
    BY <2>4 DEF Pipeline!Next
<1>11. ASSUME NEW t \in Thread, Start(t) PROVE Same
    BY <1>0, <1>11, SeenOfMove DEF Start, buffer1, buffer2, Same
<1>12. ASSUME NEW w \in Worker,
              Compute(w) \/ WorkerGetsNothing(w) \/ WorkerLeavesBuffer1(w)
       PROVE  Same
    BY <1>0, <1>12, SeenOfMove
        DEF Compute, WorkerGetsNothing, WorkerLeavesBuffer1, buffer1, buffer2, Same
<1>13. ASSUME NEW c \in Consumer, ConsumerGetsNothing(c) PROVE Same
    BY <1>0, <1>13, SeenOfMove DEF ConsumerGetsNothing, buffer1, Same
<1>14. ASSUME NEW m \in Monitor, MonitorRun(m) PROVE Same
  <2>1. m \notin Staff
    BY DEF Staff
  <2> QED
    BY <1>0, <1>14, <2>1
        DEF MonitorRun, Go, TypeOK, Hands, Left, Thread, buffer1, buffer2, Same
<1>15. CASE UNCHANGED <<pc, held, queue1, queue2>>
    BY <1>1, <1>15 DEF Pipeline!vars
<1>16. \/ Pipeline!Next \/ Same
       \/ UNCHANGED <<pc, held, queue1, queue2>>
  <2>1. CASE ClientStep
    BY <1>2, <1>9, <1>11, <1>12, <1>14, <2>1 DEF ClientStep, WaitFinish, buffer1, buffer2
  <2>2. CASE Buffer1Step
    BY <1>3, <1>4, <1>5, <1>12, <2>2
        DEF Buffer1Step, ProducerWaits, WorkerWaits, Wakeup1, B1!SpuriousWakeup, B1!store,
            buffer2, clients
  <2>3. CASE Buffer2Step
    BY <1>6, <1>7, <1>8, <1>10, <1>13, <2>3
        DEF Buffer2Step, WorkerWaitsForRoom, ConsumerWaits, Wakeup2, B2!SpuriousWakeup,
            B2!store, buffer1, clients
  <2>4. CASE UNCHANGED vars
    BY <2>4 DEF vars, buffer1, buffer2, clients
  <2> QED
    BY <2>1, <2>2, <2>3, <2>4 DEF Step
<1> QED
    BY <1>1, <1>15, <1>16

(* The scheduler keeps what TaskPipeline promises, and so the models of    *)
(* the computations, which are built from TaskPipeline's actions, stand    *)
(* for computations on the scheduler.                                      *)
THEOREM SchedulerIsPipeline == Spec => ImplementsTaskPipeline
<1>1. Init => Pipeline!Init
    BY PipelineInit
<1>2. Control /\ [Next]_vars => [Pipeline!Next]_(Pipeline!vars)
    BY NextIsStep, PipelineStep
<1>3. Init => Control
    BY ControlInit
<1>4. Control /\ [Next]_vars => Control'
    BY ControlStep, NextIsStep
<1> QED
    BY <1>1, <1>2, <1>3, <1>4, PTL DEF Spec, ImplementsTaskPipeline, Pipeline!Spec
=============================================================================
