------------------------- MODULE ObjectBufferProofs -------------------------
(***************************************************************************)
(* Proofs about ObjectBuffer, for any number of threads, any capacity and  *)
(* any number of producers and consumers, and the proof that it implements *)
(* ObjectChannel.                                                          *)
(***************************************************************************)
EXTENDS ObjectBufferHistory, Counting

\* What notify_one leaves asleep was asleep before.
LEMMA WakeOneSubset ==
    ASSUME NEW S, NEW R \in WakeOne(S)
    PROVE  R \subseteq S
BY DEF WakeOne

LEMMA WakeOneOfNone ==
    ASSUME NEW R \in WakeOne({})
    PROVE  R = {}
BY DEF WakeOne

-----------------------------------------------------------------------------
LEMMA TypeInit == Init => TypeOK
<1> SUFFICES ASSUME Init PROVE TypeOK
    OBVIOUS
<1>1. queue \in Seq(Object)
    BY DEF Init
<1>2. pushing \in [Thread -> Object \cup {NoObject}]
    BY DEF Init
<1>3. numAliveProducer \in 0..NumProducer /\ numAliveConsumer \in 0..NumConsumer
    BY BufferAssumption DEF Init
<1> QED
    BY <1>1, <1>2, <1>3 DEF Init, TypeOK

\* What a call that puts an object in does to the queue and the sleepers.
LEMMA EnqueueType ==
    ASSUME TypeOK, NEW o \in Object, Enqueue(o)
    PROVE  /\ queue' \in Seq(Object)
           /\ Len(queue') = Len(queue) + 1
           /\ objectId' \in Nat
           /\ notEmpty' \subseteq notEmpty
BY AppendProperties, WakeOneSubset DEF TypeOK, Enqueue

LEMMA DequeueType ==
    ASSUME TypeOK, queue # <<>>, Dequeue
    PROVE  /\ queue' \in Seq(Object)
           /\ Len(queue') = Len(queue) - 1
           /\ notFull' \subseteq notFull
BY HeadTailProperties, WakeOneSubset DEF TypeOK, Dequeue

LEMMA TypeStep == TypeOK /\ [Next]_vars => TypeOK'
<1> SUFFICES ASSUME TypeOK, [Next]_vars PROVE TypeOK'
    OBVIOUS
<1> USE BufferAssumption
<1>1. CASE UNCHANGED vars
    BY <1>1 DEF TypeOK, vars, store, census, waits
<1>2. ASSUME NEW t \in Thread, SpuriousWakeup(t) PROVE TypeOK'
    BY <1>2 DEF TypeOK, SpuriousWakeup, store, census
<1>3. ASSUME NEW t \in Thread, PopBlocks(t) PROVE TypeOK'
    BY <1>3 DEF TypeOK, PopBlocks, store, census
<1>4. ASSUME NEW t \in Thread, Clear(t) PROVE TypeOK'
    BY <1>4 DEF TypeOK, Clear, census, waits
<1>5. ASSUME NEW t \in Thread, ForceFail(t) PROVE TypeOK'
    BY <1>5 DEF TypeOK, ForceFail, census
<1>6. ASSUME NEW t \in Thread, NEW o \in Object, PushBlocks(t, o) PROVE TypeOK'
    BY <1>6 DEF TypeOK, PushBlocks, store, census
<1>7. ASSUME NEW t \in Thread, NEW code \in Code, ProducerQuit(t, code) PROVE TypeOK'
  <2>1. CASE UNCHANGED <<census, notEmpty>>
    BY <1>7, <2>1
        DEF TypeOK, ProducerQuit, UnexceptedProducerQuit, LastProducerQuits, store,
            census
  <2>2. CASE numAliveProducer # 0 /\ numAliveProducer' = numAliveProducer - 1
    <3>1. numAliveProducer' \in 0..NumProducer
      BY <2>2 DEF TypeOK
    <3>2. CASE numAliveProducer' = 0
      BY <1>7, <2>2, <3>1, <3>2
          DEF TypeOK, ProducerQuit, UnexceptedProducerQuit, LastProducerQuits, store,
              census
    <3>3. CASE numAliveProducer' # 0
      BY <1>7, <2>2, <3>1, <3>3
          DEF TypeOK, ProducerQuit, UnexceptedProducerQuit, LastProducerQuits, store,
              census
    <3> QED
      BY <3>2, <3>3
  <2> QED
    BY <1>7, <2>1, <2>2 DEF ProducerQuit, UnexceptedProducerQuit, LastProducerQuits
<1>8. ASSUME NEW t \in Thread, NEW code \in Code, ConsumerQuit(t, code) PROVE TypeOK'
  <2>1. CASE UNCHANGED <<queue, census, notFull>>
    BY <1>8, <2>1
        DEF TypeOK, ConsumerQuit, UnexceptedConsumerQuit, LastConsumerQuits, census
  <2>2. CASE numAliveConsumer # 0 /\ numAliveConsumer' = numAliveConsumer - 1
    <3>1. numAliveConsumer' \in 0..NumConsumer
      BY <2>2 DEF TypeOK
    <3>2. CASE numAliveConsumer' = 0
      <4>0. queue' = <<>>
        BY <1>8, <2>2, <3>2
            DEF TypeOK, ConsumerQuit, UnexceptedConsumerQuit, LastConsumerQuits,
                census
      <4>1. queue' \in Seq(Object)
        BY <4>0
      <4> QED
        BY <1>8, <2>2, <3>1, <3>2, <4>1
            DEF TypeOK, ConsumerQuit, UnexceptedConsumerQuit, LastConsumerQuits,
                census
    <3>3. CASE numAliveConsumer' # 0
      BY <1>8, <2>2, <3>1, <3>3
          DEF TypeOK, ConsumerQuit, UnexceptedConsumerQuit, LastConsumerQuits, census
    <3> QED
      BY <3>2, <3>3
  <2> QED
    BY <1>8, <2>1, <2>2 DEF ConsumerQuit, UnexceptedConsumerQuit, LastConsumerQuits
<1>9. ASSUME NEW t \in Thread, NEW o \in Object, NEW code \in Code, Push(t, o, code)
      PROVE  TypeOK'
  <2>1. CASE Enqueue(o)
    BY <1>9, <2>1, EnqueueType DEF TypeOK, Push, census
  <2>2. CASE UNCHANGED <<store, notEmpty>>
    BY <1>9, <2>2 DEF TypeOK, Push, census, store
  <2> QED
    BY <1>9, <2>1, <2>2 DEF Push
<1>10. ASSUME NEW t \in Thread, NEW o \in Object, NEW code \in Code, TryPush(t, o, code)
       PROVE  TypeOK'
  <2>1. CASE Enqueue(o)
    BY <1>10, <2>1, EnqueueType DEF TypeOK, TryPush, census
  <2>2. CASE UNCHANGED <<store, notEmpty>>
    BY <1>10, <2>2 DEF TypeOK, TryPush, census, store
  <2> QED
    BY <1>10, <2>1, <2>2 DEF TryPush
<1>11. ASSUME NEW t \in Thread, NEW o \in Object \cup {NoObject}, NEW code \in Code,
              Pop(t, o, code)
       PROVE  TypeOK'
  <2>1. CASE queue # <<>> /\ Dequeue
    BY <1>11, <2>1, DequeueType DEF TypeOK, Pop, NoMoreObject, census
  <2>2. CASE UNCHANGED <<queue, notFull>>
    BY <1>11, <2>2 DEF TypeOK, Pop, NoMoreObject, census
  <2> QED
    BY <1>11, <2>1, <2>2 DEF Pop, NoMoreObject
<1>12. ASSUME NEW t \in Thread, NEW o \in Object \cup {NoObject}, NEW code \in Code,
              TryPop(t, o, code)
       PROVE  TypeOK'
  <2>1. CASE queue # <<>> /\ Dequeue
    BY <1>12, <2>1, DequeueType DEF TypeOK, TryPop, census
  <2>2. CASE UNCHANGED <<queue, notFull>>
    BY <1>12, <2>2 DEF TypeOK, TryPop, census
  <2> QED
    BY <1>12, <2>1, <2>2 DEF TryPop
<1> QED
    BY <1>1, <1>2, <1>3, <1>4, <1>5, <1>6, <1>7, <1>8, <1>9, <1>10, <1>11, <1>12
        DEF Next

(* The fields keep their types: in particular neither count of living      *)
(* threads leaves its range, however often the quits are called.           *)
THEOREM TypeCorrect == Spec => []TypeOK
<1>1. Init => TypeOK
    BY TypeInit
<1>2. TypeOK /\ [Next]_vars => TypeOK'
    BY TypeStep
<1> QED
    BY <1>1, <1>2, PTL DEF Spec

-----------------------------------------------------------------------------
(* The safety of a buffer does not depend on who calls it in what order.   *)
(* The three invariants are inductive together: that a closed buffer is    *)
(* empty and has no sleepers is kept by what each call does on a closed    *)
(* buffer, and the bound on the queue by the tests of Push and TryPush.    *)
Safe == ClosedIsEmpty /\ WithinMaxSize /\ NobodySleepsThroughTheEnd

LEMMA SafeInit == Init => Safe
BY DEF Init, Safe, ClosedIsEmpty, WithinMaxSize, NobodySleepsThroughTheEnd

\* A call that succeeds in putting an object in found an open buffer with room.
LEMMA SafeEnqueue ==
    ASSUME TypeOK, Safe, NEW o \in Object, Enqueue(o), ~failed, ~noAliveConsumer, ~Full,
           UNCHANGED <<census, failed, notFull>>
    PROVE  Safe'
<1> USE BufferAssumption
<1>1. Len(queue') = Len(queue) + 1 /\ notEmpty' \subseteq notEmpty /\ Len(queue) \in Nat
    BY EnqueueType DEF TypeOK
<1>2. ClosedIsEmpty'
    BY DEF ClosedIsEmpty, census
<1>3. WithinMaxSize'
    BY <1>1 DEF WithinMaxSize, Full
<1>4. NobodySleepsThroughTheEnd'
    BY <1>1 DEF Safe, NobodySleepsThroughTheEnd, census
<1> QED
    BY <1>2, <1>3, <1>4 DEF Safe

LEMMA SafeDequeue ==
    ASSUME TypeOK, Safe, queue # <<>>, Dequeue, UNCHANGED <<census, failed, notEmpty>>
    PROVE  Safe'
<1> USE BufferAssumption
<1>1. Len(queue') = Len(queue) - 1 /\ notFull' \subseteq notFull /\ Len(queue) \in Nat
    BY DequeueType DEF TypeOK
<1>2. ClosedIsEmpty'
    BY DEF Safe, ClosedIsEmpty, census
<1>3. WithinMaxSize'
    BY <1>1 DEF Safe, WithinMaxSize
<1>4. NobodySleepsThroughTheEnd'
    BY <1>1 DEF Safe, NobodySleepsThroughTheEnd, census
<1> QED
    BY <1>2, <1>3, <1>4 DEF Safe

LEMMA SafeStep == TypeOK /\ Safe /\ [Next]_vars => Safe'
<1> SUFFICES ASSUME TypeOK, Safe, [Next]_vars PROVE Safe'
    OBVIOUS
<1> USE BufferAssumption
        DEF Safe, ClosedIsEmpty, WithinMaxSize, NobodySleepsThroughTheEnd
<1>1. CASE UNCHANGED vars
    BY <1>1 DEF vars, store, census, waits
<1>2. ASSUME NEW t \in Thread, SpuriousWakeup(t) PROVE Safe'
    BY <1>2 DEF SpuriousWakeup, store, census
<1>3. ASSUME NEW t \in Thread, PopBlocks(t) PROVE Safe'
    BY <1>3 DEF PopBlocks, PopWaits, store, census
<1>4. ASSUME NEW t \in Thread, Clear(t) PROVE Safe'
    BY <1>4 DEF Clear, census, waits
<1>5. ASSUME NEW t \in Thread, ForceFail(t) PROVE Safe'
    BY <1>5 DEF ForceFail, census
<1>6. ASSUME NEW t \in Thread, NEW o \in Object, PushBlocks(t, o) PROVE Safe'
    BY <1>6 DEF PushBlocks, PushWaits, store, census
<1>7. ASSUME NEW t \in Thread, NEW code \in Code, ProducerQuit(t, code) PROVE Safe'
    BY <1>7
        DEF TypeOK, ProducerQuit, UnexceptedProducerQuit, LastProducerQuits, store,
            census
<1>8. ASSUME NEW t \in Thread, NEW code \in Code, ConsumerQuit(t, code) PROVE Safe'
    BY <1>8 DEF TypeOK, ConsumerQuit, UnexceptedConsumerQuit, LastConsumerQuits, census
<1>9. ASSUME NEW t \in Thread, NEW o \in Object, NEW code \in Code,
             Push(t, o, code) \/ TryPush(t, o, code)
      PROVE  Safe'
  <2>1. CASE Enqueue(o) /\ ~failed /\ ~noAliveConsumer
    <3>1. ~Full /\ UNCHANGED <<census, failed, notFull>>
      BY <1>9, <2>1 DEF Push, TryPush, PushWaits, Enqueue, store, TypeOK
    <3> QED
      BY <2>1, <3>1, SafeEnqueue
  <2>2. CASE UNCHANGED <<store, notEmpty>>
    BY <1>9, <2>2 DEF Push, TryPush, census, store
  <2> QED
    BY <1>9, <2>1, <2>2 DEF Push, TryPush
<1>10. ASSUME NEW t \in Thread, NEW o \in Object \cup {NoObject}, NEW code \in Code,
              Pop(t, o, code) \/ TryPop(t, o, code)
       PROVE  Safe'
  <2>1. CASE queue # <<>> /\ Dequeue
    BY <1>10, <2>1, SafeDequeue DEF Pop, NoMoreObject, TryPop
  <2>2. CASE UNCHANGED <<queue, notFull>>
    BY <1>10, <2>2 DEF Pop, NoMoreObject, TryPop, census
  <2> QED
    BY <1>10, <2>1, <2>2 DEF Pop, NoMoreObject, TryPop
<1> QED
    BY <1>1, <1>2, <1>3, <1>4, <1>5, <1>6, <1>7, <1>8, <1>9, <1>10 DEF Next

LEMMA SafeAlways == Spec => []Safe
<1>1. Init => TypeOK /\ Safe
    BY TypeInit, SafeInit
<1>2. TypeOK /\ Safe /\ [Next]_vars => (TypeOK /\ Safe)'
    BY TypeStep, SafeStep
<1> QED
    BY <1>1, <1>2, PTL DEF Spec

(* A failed buffer and one without consumers hold nothing: what ForceFail  *)
(* and the last ConsumerQuit throw away is not followed by anything.       *)
THEOREM ClosedStaysEmpty == Spec => []ClosedIsEmpty
<1>1. Safe => ClosedIsEmpty
    BY DEF Safe
<1> QED
    BY <1>1, SafeAlways, PTL

\* No queue grows beyond mMaxSize, however many threads push and try to push.
THEOREM SizeStaysBounded == Spec => []WithinMaxSize
<1>1. Safe => WithinMaxSize
    BY DEF Safe
<1> QED
    BY <1>1, SafeAlways, PTL

(* ForceFail and the last quits leave nobody asleep, and nobody falls      *)
(* asleep after them.                                                      *)
THEOREM NobodyIsForgotten == Spec => []NobodySleepsThroughTheEnd
<1>1. Safe => NobodySleepsThroughTheEnd
    BY DEF Safe
<1> QED
    BY <1>1, SafeAlways, PTL

-----------------------------------------------------------------------------
(* No wakeup is lost: one notification per object and per free place is    *)
(* enough, for any number of threads and any capacity.  For the producers  *)
(* this needs clients that never call Clear.                               *)

LEMMA WokenFinite ==
    ASSUME TypeOK
    PROVE  /\ IsFiniteSet(WokenPoppers) /\ Cardinality(WokenPoppers) \in Nat
           /\ IsFiniteSet(WokenPushers) /\ Cardinality(WokenPushers) \in Nat
<1>1. WokenPoppers \in SUBSET Thread /\ WokenPushers \in SUBSET Thread
    BY DEF TypeOK, WokenPoppers, WokenPushers
<1> QED
    BY <1>1, SubsetCardinality, BufferAssumption

-----------------------------------------------------------------------------
LEMMA SleepersInit == Init => SleepersAreCalling
BY DEF Init, SleepersAreCalling

LEMMA SleepersStep == TypeOK /\ SleepersAreCalling /\ [Next]_vars => SleepersAreCalling'
<1> SUFFICES ASSUME TypeOK, SleepersAreCalling, [Next]_vars PROVE SleepersAreCalling'
    OBVIOUS
<1> USE DEF SleepersAreCalling
<1>1. CASE UNCHANGED vars
    BY <1>1 DEF vars, waits
<1>2. ASSUME NEW t \in Thread, SpuriousWakeup(t) PROVE SleepersAreCalling'
    BY <1>2 DEF SpuriousWakeup
<1>3. ASSUME NEW t \in Thread, PopBlocks(t) PROVE SleepersAreCalling'
    BY <1>3 DEF PopBlocks
<1>4. ASSUME NEW t \in Thread, Clear(t) \/ ForceFail(t) PROVE SleepersAreCalling'
    BY <1>4 DEF Clear, ForceFail, waits
<1>5. ASSUME NEW t \in Thread, NEW o \in Object, PushBlocks(t, o)
      PROVE  SleepersAreCalling'
    BY <1>5, BufferAssumption DEF PushBlocks, PushWaits, Full, TypeOK
<1>6. ASSUME NEW t \in Thread, NEW code \in Code, ProducerQuit(t, code) \/ ConsumerQuit(t, code)
      PROVE  SleepersAreCalling'
    BY <1>6
        DEF ProducerQuit, UnexceptedProducerQuit, LastProducerQuits, ConsumerQuit,
            UnexceptedConsumerQuit, LastConsumerQuits
<1>7. ASSUME NEW t \in Thread, NEW o \in Object, NEW code \in Code,
             Push(t, o, code) \/ TryPush(t, o, code)
      PROVE  SleepersAreCalling'
  <2>1. notEmpty' \subseteq notEmpty /\ UNCHANGED <<notFull, popping>>
    BY <1>7, WakeOneSubset DEF Push, TryPush, Enqueue
  <2>2. ASSUME NEW s \in notFull PROVE pushing'[s] # NoObject
    BY <1>7, <2>2 DEF Push, TryPush, AtPush, Idle, TypeOK
  <2> QED
    BY <2>1, <2>2
<1>8. ASSUME NEW t \in Thread, NEW o \in Object \cup {NoObject}, NEW code \in Code,
             Pop(t, o, code) \/ TryPop(t, o, code)
      PROVE  SleepersAreCalling'
  <2>1. notFull' \subseteq notFull /\ UNCHANGED <<notEmpty, pushing>>
    BY <1>8, WakeOneSubset DEF Pop, NoMoreObject, TryPop, Dequeue
  <2>2. notEmpty \subseteq popping'
    BY <1>8 DEF Pop, NoMoreObject, TryPop, AtPop, Idle
  <2> QED
    BY <2>1, <2>2
<1> QED
    BY <1>1, <1>2, <1>3, <1>4, <1>5, <1>6, <1>7, <1>8 DEF Next

-----------------------------------------------------------------------------
(* Consumers: an object put in wakes a sleeper, an object taken out takes  *)
(* at most the taker away from those on their way.                         *)

\* The consumers on their way do not change, or become more, and the queue does
\* not grow; or nobody sleeps; or nothing is there.
LEMMA PopWakeupsKept ==
    ASSUME TypeOK, TypeOK', PopWakeupsSuffice,
           \/ notEmpty' = {}
           \/ queue' = <<>>
           \/ queue' = queue /\ notEmpty' \subseteq notEmpty /\ popping \subseteq popping'
    PROVE  PopWakeupsSuffice'
<1>1. /\ Cardinality(WokenPoppers') \in Nat /\ IsFiniteSet(WokenPoppers')
      /\ Cardinality(WokenPoppers) \in Nat /\ IsFiniteSet(WokenPoppers)
      /\ Len(queue) \in Nat
  <2>1. WokenPoppers \in SUBSET Thread /\ WokenPoppers' \in SUBSET Thread
    BY DEF TypeOK, WokenPoppers
  <2> QED
    BY <2>1, SubsetCardinality, LenProperties, BufferAssumption DEF TypeOK
<1>2. CASE notEmpty' = {}
    BY <1>2 DEF PopWakeupsSuffice
<1>3. CASE queue' = <<>>
  <2>1. Len(queue') = 0
    BY <1>3, EmptySeq
  <2> QED
    BY <1>1, <2>1 DEF PopWakeupsSuffice
<1>4. CASE queue' = queue /\ notEmpty' \subseteq notEmpty /\ popping \subseteq popping'
  <2>1. WokenPoppers \in SUBSET WokenPoppers'
    BY <1>4 DEF WokenPoppers
  <2>2. Cardinality(WokenPoppers) <= Cardinality(WokenPoppers')
    BY <1>1, <2>1, SubsetCardinality
  <2>3. notEmpty' # {} => Len(queue) <= Cardinality(WokenPoppers)
    BY <1>4 DEF PopWakeupsSuffice
  <2> QED
    BY <1>1, <1>4, <2>2, <2>3 DEF PopWakeupsSuffice
<1> QED
    BY <1>2, <1>3, <1>4

LEMMA PopWakeupsEnqueue ==
    ASSUME TypeOK, TypeOK', SleepersAreCalling, PopWakeupsSuffice,
           NEW o \in Object, Enqueue(o), UNCHANGED popping
    PROVE  PopWakeupsSuffice'
<1>1. WokenPoppers \in SUBSET Thread /\ WokenPoppers' \in SUBSET Thread
    BY DEF TypeOK, WokenPoppers
<1>2. /\ Cardinality(WokenPoppers') \in Nat /\ IsFiniteSet(WokenPoppers')
      /\ Cardinality(WokenPoppers) \in Nat /\ IsFiniteSet(WokenPoppers)
    BY <1>1, SubsetCardinality, BufferAssumption
<1>3. Len(queue') = Len(queue) + 1 /\ Len(queue) \in Nat
    BY EnqueueType, LenProperties DEF TypeOK
<1>4. CASE notEmpty = {}
    BY <1>4, WakeOneOfNone DEF Enqueue, PopWakeupsSuffice
<1>5. CASE notEmpty # {}
  <2>1. PICK t \in notEmpty : notEmpty' = notEmpty \ {t}
    BY <1>5 DEF Enqueue, WakeOne
  <2>2. t \in WokenPoppers' /\ t \notin WokenPoppers /\ WokenPoppers \subseteq WokenPoppers'
    BY <2>1 DEF WokenPoppers, SleepersAreCalling
  <2>3. Cardinality(WokenPoppers') >= Cardinality(WokenPoppers) + 1
    BY <1>2, <2>2, OneMore
  <2>4. Len(queue) <= Cardinality(WokenPoppers)
    BY <1>5 DEF PopWakeupsSuffice
  <2> QED
    BY <1>2, <1>3, <2>3, <2>4 DEF PopWakeupsSuffice
<1> QED
    BY <1>4, <1>5

LEMMA PopWakeupsDequeue ==
    ASSUME TypeOK, TypeOK', PopWakeupsSuffice, NEW t \in Thread,
           queue # <<>>, Dequeue, popping \ {t} \subseteq popping', UNCHANGED notEmpty
    PROVE  PopWakeupsSuffice'
<1>1. WokenPoppers \in SUBSET Thread /\ WokenPoppers' \in SUBSET Thread
    BY DEF TypeOK, WokenPoppers
<1>2. /\ Cardinality(WokenPoppers') \in Nat /\ IsFiniteSet(WokenPoppers')
      /\ Cardinality(WokenPoppers) \in Nat /\ IsFiniteSet(WokenPoppers)
    BY <1>1, SubsetCardinality, BufferAssumption
<1>3. Len(queue') = Len(queue) - 1 /\ Len(queue) \in Nat
    BY DequeueType, LenProperties DEF TypeOK
<1>4. WokenPoppers \ {t} \subseteq WokenPoppers'
    BY DEF WokenPoppers
<1>5. Cardinality(WokenPoppers') >= Cardinality(WokenPoppers) - 1
    BY <1>2, <1>4, AllButOne
<1> QED
    BY <1>2, <1>3, <1>5 DEF PopWakeupsSuffice

LEMMA PopWakeupsStep ==
    TypeOK /\ TypeOK' /\ Safe /\ SleepersAreCalling /\ PopWakeupsSuffice /\ [Next]_vars
        => PopWakeupsSuffice'
<1> SUFFICES ASSUME TypeOK, TypeOK', Safe, SleepersAreCalling, PopWakeupsSuffice, [Next]_vars
             PROVE  PopWakeupsSuffice'
    OBVIOUS
<1>1. CASE UNCHANGED vars
    BY <1>1, PopWakeupsKept DEF vars, store, waits
<1>2. ASSUME NEW t \in Thread, SpuriousWakeup(t) PROVE PopWakeupsSuffice'
    BY <1>2, PopWakeupsKept DEF SpuriousWakeup, store
<1>3. ASSUME NEW t \in Thread, PopBlocks(t) PROVE PopWakeupsSuffice'
    BY <1>3, PopWakeupsKept DEF PopBlocks, PopWaits, store
<1>4. ASSUME NEW t \in Thread, Clear(t) \/ ForceFail(t) PROVE PopWakeupsSuffice'
    BY <1>4, PopWakeupsKept DEF Clear, ForceFail
<1>5. ASSUME NEW t \in Thread, NEW o \in Object, PushBlocks(t, o) PROVE PopWakeupsSuffice'
    BY <1>5, PopWakeupsKept DEF PushBlocks, store
<1>6. ASSUME NEW t \in Thread, NEW code \in Code, ProducerQuit(t, code) \/ ConsumerQuit(t, code)
      PROVE  PopWakeupsSuffice'
    BY <1>6, PopWakeupsKept
        DEF ProducerQuit, UnexceptedProducerQuit, LastProducerQuits, ConsumerQuit,
            UnexceptedConsumerQuit, LastConsumerQuits, store
<1>7. ASSUME NEW t \in Thread, NEW o \in Object, NEW code \in Code,
             Push(t, o, code) \/ TryPush(t, o, code)
      PROVE  PopWakeupsSuffice'
  <2>1. popping' = popping
    BY <1>7 DEF Push, TryPush
  <2>2. CASE Enqueue(o)
    BY <2>1, <2>2, PopWakeupsEnqueue
  <2>3. CASE UNCHANGED <<store, notEmpty>>
    BY <2>1, <2>3, PopWakeupsKept DEF store
  <2> QED
    BY <1>7, <2>2, <2>3 DEF Push, TryPush
<1>8. ASSUME NEW t \in Thread, NEW o \in Object \cup {NoObject}, NEW code \in Code,
             Pop(t, o, code) \/ TryPop(t, o, code)
      PROVE  PopWakeupsSuffice'
  <2>1. notEmpty' = notEmpty /\ popping \ {t} \subseteq popping'
    BY <1>8 DEF Pop, NoMoreObject, TryPop
  <2>2. CASE queue # <<>> /\ Dequeue
    BY <2>1, <2>2, PopWakeupsDequeue
  <2>3. CASE failed /\ queue' = queue
    <3>1. notEmpty' = {}
      BY <2>1, <2>3 DEF Safe, NobodySleepsThroughTheEnd
    <3> QED
      BY <3>1, PopWakeupsKept
  <2>4. CASE queue = <<>> /\ queue' = queue
    BY <2>4, PopWakeupsKept
  <2> QED
    BY <1>8, <2>2, <2>3, <2>4 DEF Pop, NoMoreObject, TryPop
<1> QED
    BY <1>1, <1>2, <1>3, <1>4, <1>5, <1>6, <1>7, <1>8 DEF Next

(* Waking one consumer per object is enough: while a consumer sleeps in    *)
(* Pop, as many others are on their way as there are objects for them.     *)
THEOREM PopLosesNoWakeup == Spec => []PopWakeupsSuffice
<1> DEFINE Inv == TypeOK /\ Safe /\ SleepersAreCalling /\ PopWakeupsSuffice
<1>1. Init => Inv
  <2>1. Init => PopWakeupsSuffice
    BY DEF Init, PopWakeupsSuffice
  <2> QED
    BY <2>1, TypeInit, SafeInit, SleepersInit
<1>2. Inv /\ [Next]_vars => Inv'
    BY TypeStep, SafeStep, SleepersStep, PopWakeupsStep
<1>3. Inv => PopWakeupsSuffice
    OBVIOUS
<1> QED
    BY <1>1, <1>2, <1>3, PTL DEF Spec

-----------------------------------------------------------------------------
(* Producers: an object taken out wakes a sleeper, an object put in fills  *)
(* the place its putter was on the way to.                                 *)

LEMMA PushWakeupsKept ==
    ASSUME TypeOK, TypeOK', PushWakeupsSuffice, queue' = queue,
           \/ notFull' = {}
           \/ Full
           \/ /\ notFull' \subseteq notFull
              /\ \A t \in Thread : pushing[t] # NoObject => pushing'[t] # NoObject
    PROVE  PushWakeupsSuffice'
<1>1. WokenPushers \in SUBSET Thread /\ WokenPushers' \in SUBSET Thread
    BY DEF TypeOK, WokenPushers
<1>2. /\ Cardinality(WokenPushers') \in Nat /\ IsFiniteSet(WokenPushers')
      /\ Cardinality(WokenPushers) \in Nat /\ IsFiniteSet(WokenPushers)
      /\ Len(queue) \in Nat
    BY <1>1, SubsetCardinality, LenProperties, BufferAssumption DEF TypeOK
<1>3. CASE notFull' = {}
    BY <1>3 DEF PushWakeupsSuffice
<1>4. CASE Full
    BY <1>2, <1>4, BufferAssumption DEF PushWakeupsSuffice, Full
<1>5. CASE /\ notFull' \subseteq notFull
           /\ \A t \in Thread : pushing[t] # NoObject => pushing'[t] # NoObject
  <2>1. WokenPushers \in SUBSET WokenPushers'
    BY <1>5 DEF WokenPushers
  <2>2. Cardinality(WokenPushers) <= Cardinality(WokenPushers')
    BY <1>2, <2>1, SubsetCardinality
  <2>3. notFull' # {} => MaxSize - Len(queue) <= Cardinality(WokenPushers)
    BY <1>5 DEF PushWakeupsSuffice
  <2> QED
    BY <1>2, <2>2, <2>3, BufferAssumption DEF PushWakeupsSuffice
<1> QED
    BY <1>3, <1>4, <1>5

LEMMA PushWakeupsEnqueue ==
    ASSUME TypeOK, TypeOK', PushWakeupsSuffice, NEW t \in Thread, NEW o \in Object,
           Enqueue(o), UNCHANGED notFull,
           \A s \in Thread \ {t} : pushing'[s] = pushing[s]
    PROVE  PushWakeupsSuffice'
<1>1. WokenPushers \in SUBSET Thread /\ WokenPushers' \in SUBSET Thread
    BY DEF TypeOK, WokenPushers
<1>2. /\ Cardinality(WokenPushers') \in Nat /\ IsFiniteSet(WokenPushers')
      /\ Cardinality(WokenPushers) \in Nat /\ IsFiniteSet(WokenPushers)
    BY <1>1, SubsetCardinality, BufferAssumption
<1>3. Len(queue') = Len(queue) + 1 /\ Len(queue) \in Nat
    BY EnqueueType, LenProperties DEF TypeOK
<1>4. WokenPushers \ {t} \subseteq WokenPushers'
    BY DEF WokenPushers
<1>5. Cardinality(WokenPushers') >= Cardinality(WokenPushers) - 1
    BY <1>2, <1>4, AllButOne
<1> QED
    BY <1>2, <1>3, <1>5, BufferAssumption DEF PushWakeupsSuffice

LEMMA PushWakeupsDequeue ==
    ASSUME TypeOK, TypeOK', SleepersAreCalling, PushWakeupsSuffice,
           queue # <<>>, Dequeue, UNCHANGED pushing
    PROVE  PushWakeupsSuffice'
<1>1. WokenPushers \in SUBSET Thread /\ WokenPushers' \in SUBSET Thread
    BY DEF TypeOK, WokenPushers
<1>2. /\ Cardinality(WokenPushers') \in Nat /\ IsFiniteSet(WokenPushers')
      /\ Cardinality(WokenPushers) \in Nat /\ IsFiniteSet(WokenPushers)
    BY <1>1, SubsetCardinality, BufferAssumption
<1>3. Len(queue') = Len(queue) - 1 /\ Len(queue) \in Nat
    BY DequeueType, LenProperties DEF TypeOK
<1>4. CASE notFull = {}
    BY <1>4, WakeOneOfNone DEF Dequeue, PushWakeupsSuffice
<1>5. CASE notFull # {}
  <2>1. PICK t \in notFull : notFull' = notFull \ {t}
    BY <1>5 DEF Dequeue, WakeOne
  <2>2. t \in WokenPushers' /\ t \notin WokenPushers /\ WokenPushers \subseteq WokenPushers'
    BY <2>1 DEF WokenPushers, SleepersAreCalling, TypeOK
  <2>3. Cardinality(WokenPushers') >= Cardinality(WokenPushers) + 1
    BY <1>2, <2>2, OneMore
  <2>4. MaxSize - Len(queue) <= Cardinality(WokenPushers)
    BY <1>5 DEF PushWakeupsSuffice
  <2> QED
    BY <1>2, <1>3, <2>3, <2>4, BufferAssumption DEF PushWakeupsSuffice
<1> QED
    BY <1>4, <1>5

LEMMA PushWakeupsStep ==
    ASSUME ~MayClear
    PROVE  TypeOK /\ TypeOK' /\ Safe /\ SleepersAreCalling /\ PushWakeupsSuffice /\ [Next]_vars
               => PushWakeupsSuffice'
<1> SUFFICES ASSUME TypeOK, TypeOK', Safe, SleepersAreCalling, PushWakeupsSuffice, [Next]_vars
             PROVE  PushWakeupsSuffice'
    OBVIOUS
<1>1. CASE UNCHANGED vars
    BY <1>1, PushWakeupsKept DEF vars, store, waits
<1>2. ASSUME NEW t \in Thread, SpuriousWakeup(t) PROVE PushWakeupsSuffice'
    BY <1>2, PushWakeupsKept DEF SpuriousWakeup, store
<1>3. ASSUME NEW t \in Thread, PopBlocks(t) PROVE PushWakeupsSuffice'
    BY <1>3, PushWakeupsKept DEF PopBlocks, store
<1>4. ASSUME NEW t \in Thread, Clear(t) \/ ForceFail(t) PROVE PushWakeupsSuffice'
    BY <1>4 DEF Clear, ForceFail, PushWakeupsSuffice
<1>5. ASSUME NEW t \in Thread, NEW o \in Object, PushBlocks(t, o) PROVE PushWakeupsSuffice'
    BY <1>5, PushWakeupsKept DEF PushBlocks, PushWaits, store
<1>6. ASSUME NEW t \in Thread, NEW code \in Code, ProducerQuit(t, code)
      PROVE  PushWakeupsSuffice'
    BY <1>6, PushWakeupsKept
        DEF ProducerQuit, UnexceptedProducerQuit, LastProducerQuits, store
<1>7. ASSUME NEW t \in Thread, NEW code \in Code, ConsumerQuit(t, code)
      PROVE  PushWakeupsSuffice'
  <2>1. CASE notFull' = {}
    BY <2>1 DEF PushWakeupsSuffice
  <2>2. CASE UNCHANGED <<queue, notFull>>
    BY <1>7, <2>2, PushWakeupsKept
        DEF ConsumerQuit, UnexceptedConsumerQuit, LastConsumerQuits
  <2> QED
    BY <1>7, <2>1, <2>2 DEF ConsumerQuit, UnexceptedConsumerQuit, LastConsumerQuits
<1>8. ASSUME NEW t \in Thread, NEW o \in Object, NEW code \in Code,
             Push(t, o, code) \/ TryPush(t, o, code)
      PROVE  PushWakeupsSuffice'
  <2>1. notFull' = notFull /\ \A s \in Thread \ {t} : pushing'[s] = pushing[s]
    BY <1>8 DEF Push, TryPush, TypeOK
  <2>2. CASE Enqueue(o)
    BY <2>1, <2>2, PushWakeupsEnqueue
  <2>3. CASE UNCHANGED store /\ (failed \/ noAliveConsumer)
    <3>1. notFull' = {} /\ queue' = queue
      BY <2>1, <2>3 DEF Safe, NobodySleepsThroughTheEnd, store
    <3> QED
      BY <3>1, PushWakeupsKept
  <2>4. CASE UNCHANGED store /\ Full
    BY <2>4, PushWakeupsKept DEF store
  <2> QED
    BY <1>8, <2>2, <2>3, <2>4 DEF Push, TryPush
<1>9. ASSUME NEW t \in Thread, NEW o \in Object \cup {NoObject}, NEW code \in Code,
             Pop(t, o, code) \/ TryPop(t, o, code)
      PROVE  PushWakeupsSuffice'
  <2>1. pushing' = pushing
    BY <1>9 DEF Pop, NoMoreObject, TryPop
  <2>2. CASE queue # <<>> /\ Dequeue
    BY <2>1, <2>2, PushWakeupsDequeue
  <2>3. CASE UNCHANGED <<queue, notFull>>
    BY <2>1, <2>3, PushWakeupsKept
  <2> QED
    BY <1>9, <2>2, <2>3 DEF Pop, NoMoreObject, TryPop
<1> QED
    BY <1>1, <1>2, <1>3, <1>4, <1>5, <1>6, <1>7, <1>8, <1>9 DEF Next

(* Waking one producer per free place is enough, as long as nobody calls   *)
(* Clear, which frees places and wakes nobody: a producer sleeps in Push   *)
(* only while the buffer is full or others are on their way to its places. *)
THEOREM PushLosesNoWakeup ==
    ASSUME ~MayClear
    PROVE  Spec => [](PushWakeupsSuffice /\ BlockedOnlyWhenFull)
<1> DEFINE Inv == TypeOK /\ Safe /\ SleepersAreCalling /\ PushWakeupsSuffice
<1>1. Init => Inv
  <2>1. Init => PushWakeupsSuffice
    BY DEF Init, PushWakeupsSuffice
  <2> QED
    BY <2>1, TypeInit, SafeInit, SleepersInit
<1>2. Inv /\ [Next]_vars => Inv'
    BY TypeStep, SafeStep, SleepersStep, PushWakeupsStep
<1>3. Inv => PushWakeupsSuffice /\ BlockedOnlyWhenFull
  <2> SUFFICES ASSUME Inv, notFull # {}, WokenPushers = {} PROVE Full
    BY DEF BlockedOnlyWhenFull
  <2>1. Cardinality(WokenPushers) = 0
    BY FS_EmptySet
  <2>2. MaxSize - Len(queue) <= 0 /\ MaxSize >= 0 /\ Len(queue) \in Nat
    BY <2>1, LenProperties DEF PushWakeupsSuffice, SleepersAreCalling, TypeOK
  <2> QED
    BY <2>2, BufferAssumption DEF Full
<1> QED
    BY <1>1, <1>2, <1>3, PTL DEF Spec

-----------------------------------------------------------------------------
(***************************************************************************)
(* An ObjectBuffer implements ObjectChannel: the initial states map to     *)
(* initial states, and every step to a step of the channel or to a         *)
(* stutter.                                                                *)
(***************************************************************************)

(* What the ids are made from: mObjectId counts the accepted objects, and  *)
(* the queue holds the last of them.                                       *)
QueueIsLastAccepted ==
    /\ accepted \in Seq(Object)
    /\ objectId = Len(accepted)
    /\ Len(queue) <= objectId
    /\ \A k \in 1..Len(queue) : queue[k] = accepted[objectId - Len(queue) + k]

HInv == TypeOK /\ Safe /\ QueueIsLastAccepted

-----------------------------------------------------------------------------
\* The refinement mapping under the operations of the queue.

LEMMA LastIndex ==
    ASSUME NEW m \in Nat, NEW k \in 1..(m + 1)
    PROVE  k \in 1..m \/ k = m + 1
OBVIOUS

LEMMA ChannelOfProperties ==
    ASSUME NEW q \in Seq(Object), NEW n \in Nat
    PROVE  /\ ChannelOf(q, n) \in Seq(Int)
           /\ Len(ChannelOf(q, n)) = Len(q)
           /\ \A k \in 1..Len(q) : ChannelOf(q, n)[k] = n - Len(q) + k - 1
<1>1. Len(q) \in Nat
    BY LenProperties
<1>2. ChannelOf(q, n) \in [1..Len(q) -> Int]
    BY <1>1 DEF ChannelOf
<1>3. ChannelOf(q, n) \in Seq(Int)
    BY <1>1, <1>2, SeqDef
<1>4. Len(ChannelOf(q, n)) = Len(q)
    BY <1>1, <1>2, <1>3, LenProperties
<1> QED
    BY <1>3, <1>4 DEF ChannelOf

LEMMA ChannelOfEmpty ==
    ASSUME NEW n \in Nat
    PROVE  ChannelOf(<<>>, n) = <<>>
<1>1. <<>> \in Seq(Object) /\ <<>> \in Seq(Int) /\ Len(<<>>) = 0
    BY EmptySeq
<1>2. ChannelOf(<<>>, n) \in Seq(Int) /\ Len(ChannelOf(<<>>, n)) = 0
    BY <1>1, ChannelOfProperties
<1> QED
    BY <1>2, EmptySeq

LEMMA ChannelOfAppend ==
    ASSUME NEW q \in Seq(Object), NEW n \in Nat, NEW o \in Object
    PROVE  ChannelOf(Append(q, o), n + 1) = Append(ChannelOf(q, n), n)
<1> DEFINE new == ChannelOf(Append(q, o), n + 1)
           old == ChannelOf(q, n)
<1>1. /\ Append(q, o) \in Seq(Object)
      /\ Len(Append(q, o)) = Len(q) + 1
      /\ Len(q) \in Nat
    BY AppendProperties, LenProperties
<1>2. /\ new \in Seq(Int) /\ Len(new) = Len(q) + 1
      /\ \A k \in 1..(Len(q) + 1) : new[k] = (n + 1) - (Len(q) + 1) + k - 1
  <2>1. n + 1 \in Nat
    OBVIOUS
  <2>2. /\ new \in Seq(Int) /\ Len(new) = Len(Append(q, o))
        /\ \A k \in 1..Len(Append(q, o)) : new[k] = (n + 1) - Len(Append(q, o)) + k - 1
    BY <1>1, <2>1, ChannelOfProperties
  <2> HIDE DEF new
  <2> QED
    BY <1>1, <2>2
<1>3. /\ old \in Seq(Int) /\ Len(old) = Len(q)
      /\ \A k \in 1..Len(q) : old[k] = n - Len(q) + k - 1
    BY ChannelOfProperties
<1> HIDE DEF new, old
<1>4. /\ Append(old, n) \in Seq(Int)
      /\ Len(Append(old, n)) = Len(q) + 1
      /\ \A k \in 1..Len(q) : Append(old, n)[k] = old[k]
      /\ Append(old, n)[Len(q) + 1] = n
    BY <1>1, <1>3, AppendProperties
<1>5. ASSUME NEW k \in 1..(Len(q) + 1) PROVE new[k] = Append(old, n)[k]
  <2>1. CASE k \in 1..Len(q)
    BY <1>1, <1>2, <1>3, <1>4, <2>1
  <2>2. CASE k = Len(q) + 1
    <3>1. new[k] = (n + 1) - (Len(q) + 1) + k - 1
      BY <1>2
    <3> QED
      BY <1>1, <1>4, <2>2, <3>1
  <2> QED
    BY <1>1, <2>1, <2>2, LastIndex
<1>6. new = Append(old, n)
    BY <1>2, <1>4, <1>5, SeqEqual
<1> QED
    BY <1>6 DEF new, old

LEMMA ChannelOfTail ==
    ASSUME NEW q \in Seq(Object), NEW n \in Nat, q # <<>>
    PROVE  /\ ChannelOf(q, n) # <<>>
           /\ Head(ChannelOf(q, n)) = n - Len(q)
           /\ ChannelOf(Tail(q), n) = Tail(ChannelOf(q, n))
<1> DEFINE new == ChannelOf(Tail(q), n)
           old == ChannelOf(q, n)
<1>1. Tail(q) \in Seq(Object) /\ Len(Tail(q)) = Len(q) - 1 /\ Len(q) \in Nat \ {0}
    BY HeadTailProperties, EmptySeq
<1>2. /\ new \in Seq(Int) /\ Len(new) = Len(q) - 1
      /\ \A k \in 1..(Len(q) - 1) : new[k] = n - (Len(q) - 1) + k - 1
  <2>1. /\ new \in Seq(Int) /\ Len(new) = Len(Tail(q))
        /\ \A k \in 1..Len(Tail(q)) : new[k] = n - Len(Tail(q)) + k - 1
    BY <1>1, ChannelOfProperties
  <2> HIDE DEF new
  <2> QED
    BY <1>1, <2>1
<1>3. /\ old \in Seq(Int) /\ Len(old) = Len(q)
      /\ \A k \in 1..Len(q) : old[k] = n - Len(q) + k - 1
    BY ChannelOfProperties
<1> HIDE DEF new, old
<1>4. old # <<>>
    BY <1>1, <1>3, EmptySeq
<1>5. /\ Tail(old) \in Seq(Int) /\ Len(Tail(old)) = Len(q) - 1
      /\ \A k \in 1..(Len(q) - 1) : Tail(old)[k] = old[k + 1]
    BY <1>3, <1>4, HeadTailProperties
<1>6. Head(old) = old[1]
    BY <1>3, <1>4
<1>7. Head(old) = n - Len(q)
    BY <1>1, <1>3, <1>6
<1>8. ASSUME NEW k \in 1..(Len(q) - 1) PROVE new[k] = Tail(old)[k]
    BY <1>1, <1>2, <1>3, <1>5
<1>9. new = Tail(old)
    BY <1>2, <1>5, <1>8, SeqEqual
<1> QED
    BY <1>4, <1>7, <1>9 DEF new, old

-----------------------------------------------------------------------------
LEMMA HInvInit == HInit => HInv
<1> SUFFICES ASSUME HInit PROVE HInv
    OBVIOUS
<1>1. TypeOK /\ Safe
    BY TypeInit, SafeInit DEF HInit
<1>2. accepted = <<>> /\ queue = <<>> /\ objectId = 0
    BY DEF HInit, Init
<1>3. QueueIsLastAccepted
    BY <1>2, EmptySeq DEF QueueIsLastAccepted
<1> QED
    BY <1>1, <1>3 DEF HInv

\* A step of the buffer with its history is a step of the buffer.
LEMMA HNextIsNext == [HNext]_hvars => [Next]_vars
BY DEF HNext, HOther, HPut, HGet, Next, hvars

\* A call that puts nothing in leaves the relation between queue and ids alone,
\* provided it leaves the queue alone or empties it.
LEMMA UnchangedKeepsIds ==
    ASSUME HInv, UNCHANGED <<objectId, accepted>>, queue' = queue \/ queue' = <<>>
    PROVE  QueueIsLastAccepted'
<1>1. CASE queue' = queue
    BY <1>1 DEF HInv, QueueIsLastAccepted
<1>2. CASE queue' = <<>>
  <2>1. Len(queue') = 0
    BY <1>2, EmptySeq
  <2> QED
    BY <2>1 DEF HInv, QueueIsLastAccepted, TypeOK
<1> QED
    BY <1>1, <1>2

LEMMA EnqueueKeepsIds ==
    ASSUME HInv, NEW o \in Object, Enqueue(o), accepted' = Append(accepted, o)
    PROVE  QueueIsLastAccepted'
<1>1. /\ accepted' \in Seq(Object) /\ Len(accepted') = Len(accepted) + 1
      /\ \A k \in 1..Len(accepted) : accepted'[k] = accepted[k]
      /\ accepted'[Len(accepted) + 1] = o
    BY AppendProperties DEF HInv, QueueIsLastAccepted
<1>2. /\ queue' \in Seq(Object) /\ Len(queue') = Len(queue) + 1
      /\ \A k \in 1..Len(queue) : queue'[k] = queue[k]
      /\ queue'[Len(queue) + 1] = o
    BY AppendProperties DEF HInv, TypeOK, Enqueue
<1>3. objectId' = Len(accepted')
    BY <1>1 DEF HInv, QueueIsLastAccepted, Enqueue
<1>4. Len(queue) \in Nat /\ Len(queue) <= objectId /\ objectId \in Nat
    BY LenProperties DEF HInv, QueueIsLastAccepted, TypeOK
<1>5. ASSUME NEW k \in 1..Len(queue')
      PROVE  queue'[k] = accepted'[objectId' - Len(queue') + k]
  <2>1. CASE k \in 1..Len(queue)
    <3>1. objectId' - Len(queue') + k = objectId - Len(queue) + k
      BY <1>2, <1>4 DEF Enqueue
    <3>2. objectId - Len(queue) + k \in 1..Len(accepted)
      BY <1>4, <2>1 DEF HInv, QueueIsLastAccepted
    <3>3. queue[k] = accepted[objectId - Len(queue) + k]
      BY <2>1 DEF HInv, QueueIsLastAccepted
    <3> QED
      BY <1>1, <1>2, <2>1, <3>1, <3>2, <3>3
  <2>2. CASE k = Len(queue) + 1
    <3>1. objectId' - Len(queue') + k = Len(accepted) + 1
      BY <1>2, <1>4, <2>2 DEF Enqueue, HInv, QueueIsLastAccepted
    <3> QED
      BY <1>1, <1>2, <2>2, <3>1
  <2> QED
    BY <1>2, <1>4, <2>1, <2>2, LastIndex
<1>6. Len(queue') <= objectId'
    BY <1>2, <1>4 DEF Enqueue
<1> QED
    BY <1>1, <1>3, <1>5, <1>6 DEF QueueIsLastAccepted, Enqueue

LEMMA DequeueKeepsIds ==
    ASSUME HInv, queue # <<>>, Dequeue, UNCHANGED <<objectId, accepted>>
    PROVE  QueueIsLastAccepted'
<1>1. /\ Len(queue') = Len(queue) - 1 /\ Len(queue) \in Nat \ {0}
      /\ \A k \in 1..(Len(queue) - 1) : queue'[k] = queue[k + 1]
    BY HeadTailProperties, EmptySeq DEF HInv, TypeOK, Dequeue
<1>2. ASSUME NEW k \in 1..Len(queue')
      PROVE  queue'[k] = accepted'[objectId' - Len(queue') + k]
  <2>1. k + 1 \in 1..Len(queue)
    BY <1>1
  <2>2. queue[k + 1] = accepted[objectId - Len(queue) + (k + 1)]
    BY <2>1 DEF HInv, QueueIsLastAccepted
  <2>3. objectId' - Len(queue') + k = objectId - Len(queue) + (k + 1)
    BY <1>1 DEF HInv, TypeOK
  <2> QED
    BY <1>1, <2>2, <2>3
<1> QED
    BY <1>1, <1>2 DEF HInv, QueueIsLastAccepted, TypeOK

-----------------------------------------------------------------------------
\* What the calls that move no object, one, or none do to the queue.

LEMMA OtherEffect ==
    ASSUME NEW t \in Thread, HOther(t)
    PROVE  /\ UNCHANGED <<objectId, accepted, delivered>>
           /\ \/ UNCHANGED <<queue, failed, noAliveConsumer>>
              \/ queue' = <<>> /\ (failed' \/ noAliveConsumer')
              \/ MayClear /\ queue' = <<>> /\ UNCHANGED <<failed, noAliveConsumer>>
<1>1. CASE SpuriousWakeup(t) \/ PopBlocks(t) \/ \E o \in Object : PushBlocks(t, o)
    BY <1>1 DEF HOther, SpuriousWakeup, PopBlocks, PushBlocks, store, census
<1>2. CASE Clear(t) \/ ForceFail(t)
    BY <1>2 DEF HOther, Clear, ForceFail, census
<1>3. ASSUME NEW code \in Code, ProducerQuit(t, code)
      PROVE  UNCHANGED <<objectId, queue, failed, noAliveConsumer>>
    BY <1>3 DEF ProducerQuit, UnexceptedProducerQuit, LastProducerQuits, store, census
<1>4. ASSUME NEW code \in Code, ConsumerQuit(t, code)
      PROVE  /\ UNCHANGED objectId
             /\ \/ UNCHANGED <<queue, failed, noAliveConsumer>>
                \/ queue' = <<>> /\ (failed' \/ noAliveConsumer')
    BY <1>4 DEF ConsumerQuit, UnexceptedConsumerQuit, LastConsumerQuits, census
<1> QED
    BY <1>1, <1>2, <1>3, <1>4 DEF HOther

LEMMA PutEffect ==
    ASSUME TypeOK, NEW t \in Thread, NEW o \in Object, NEW code \in Code, HPut(t, o, code)
    PROVE  /\ UNCHANGED <<delivered, failed, noAliveConsumer>>
           /\ \/ UNCHANGED <<queue, objectId, accepted>>
              \/ /\ ~failed /\ ~noAliveConsumer /\ ~Full
                 /\ Enqueue(o)
                 /\ accepted' = Append(accepted, o)
BY DEF HPut, Push, TryPush, PushWaits, store, census, TypeOK

LEMMA GetEffect ==
    ASSUME NEW t \in Thread, NEW o \in Object \cup {NoObject}, NEW code \in Code,
           HGet(t, o, code)
    PROVE  /\ UNCHANGED <<accepted, objectId, failed, noAliveConsumer>>
           /\ \/ UNCHANGED <<queue, delivered>>
              \/ /\ queue # <<>>
                 /\ Dequeue
                 /\ delivered' = Append(delivered, [id |-> PopId, obj |-> Head(queue)])
BY DEF HGet, Pop, NoMoreObject, TryPop, census

LEMMA HInvStep == HInv /\ [HNext]_hvars => HInv'
<1> SUFFICES ASSUME HInv, [HNext]_hvars PROVE HInv'
    OBVIOUS
<1>1. TypeOK' /\ Safe'
    BY HNextIsNext, TypeStep, SafeStep DEF HInv
<1>2. CASE UNCHANGED hvars
    BY <1>1, <1>2, UnchangedKeepsIds DEF HInv, hvars, vars, store
<1>3. ASSUME NEW t \in Thread, HOther(t) PROVE QueueIsLastAccepted'
    BY <1>3, OtherEffect, UnchangedKeepsIds
<1>4. ASSUME NEW t \in Thread, NEW o \in Object, NEW code \in Code, HPut(t, o, code)
      PROVE  QueueIsLastAccepted'
    BY <1>4, PutEffect, UnchangedKeepsIds, EnqueueKeepsIds DEF HInv
<1>5. ASSUME NEW t \in Thread, NEW o \in Object \cup {NoObject}, NEW code \in Code,
             HGet(t, o, code)
      PROVE  QueueIsLastAccepted'
    BY <1>5, GetEffect, UnchangedKeepsIds, DequeueKeepsIds
<1>6. QueueIsLastAccepted'
    BY <1>2, <1>3, <1>4, <1>5, UnchangedKeepsIds DEF HNext, HInv
<1> QED
    BY <1>1, <1>6 DEF HInv

-----------------------------------------------------------------------------
LEMMA ChannelInit == HInit => Channel!Init
<1> SUFFICES ASSUME HInit PROVE Channel!Init
    OBVIOUS
<1>1. queue = <<>> /\ objectId = 0
    BY DEF HInit, Init
<1>2. ChannelOf(queue, objectId) = <<>>
    BY <1>1, ChannelOfEmpty
<1> QED
    BY <1>2 DEF HInit, Init, Channel!Init

LEMMA ChannelStep == HInv /\ [HNext]_hvars => [Channel!Next]_(Channel!vars)
<1> SUFFICES ASSUME HInv, [HNext]_hvars PROVE [Channel!Next]_(Channel!vars)
    OBVIOUS
<1> DEFINE chan == ChannelOf(queue, objectId)
           closed == failed \/ noAliveConsumer
<1>a. queue \in Seq(Object) /\ objectId \in Nat /\ objectId = Len(accepted)
    BY DEF HInv, TypeOK, QueueIsLastAccepted
<1>b. Len(queue) \in Nat /\ Len(chan) = Len(queue)
    BY <1>a, ChannelOfProperties, LenProperties
<1>1. CASE UNCHANGED hvars
    BY <1>1 DEF hvars, vars, store, census, Channel!vars
<1>2. ASSUME NEW t \in Thread, HOther(t) PROVE [Channel!Next]_(Channel!vars)
  <2>1. CASE UNCHANGED <<queue, failed, noAliveConsumer>>
    BY <1>2, <2>1, OtherEffect DEF Channel!vars
  <2>2. CASE queue' = <<>>
    <3>1. chan' = <<>>
      BY <1>a, <1>2, <2>2, OtherEffect, ChannelOfEmpty
    <3>2. CASE failed' \/ noAliveConsumer'
      <4>1. closed' = TRUE
        BY <3>2
      <4>2. Channel!Close
        BY <1>2, <3>1, <4>1, OtherEffect DEF Channel!Close
      <4> QED
        BY <4>2 DEF Channel!Next
    <3>3. CASE MayClear /\ UNCHANGED <<failed, noAliveConsumer>>
      <4>1. Channel!Clear
        BY <1>2, <3>1, <3>3, OtherEffect DEF Channel!Clear
      <4> QED
        BY <4>1 DEF Channel!Next
    <3> QED
      BY <1>2, <2>1, <3>2, <3>3, OtherEffect
  <2> QED
    BY <1>2, <2>1, <2>2, OtherEffect
<1>3. ASSUME NEW t \in Thread, NEW o \in Object, NEW code \in Code, HPut(t, o, code)
      PROVE  [Channel!Next]_(Channel!vars)
  <2>1. CASE UNCHANGED <<queue, objectId, accepted>>
    BY <1>3, <2>1, PutEffect DEF HInv, Channel!vars
  <2>2. CASE /\ ~failed /\ ~noAliveConsumer /\ ~Full
             /\ Enqueue(o)
             /\ accepted' = Append(accepted, o)
    <3>1. chan' = Append(chan, Len(accepted))
      BY <1>a, <2>2, ChannelOfAppend DEF Enqueue
    <3>2. MaxSize >= 0 => Len(chan) < MaxSize
      BY <1>b, <2>2, BufferAssumption DEF Full
    <3>3. Channel!Accept(o)
      BY <1>3, <2>2, <3>1, <3>2, PutEffect DEF HInv, Channel!Accept
    <3> QED
      BY <3>3 DEF Channel!Next
  <2> QED
    BY <1>3, <2>1, <2>2, PutEffect DEF HInv
<1>4. ASSUME NEW t \in Thread, NEW o \in Object \cup {NoObject}, NEW code \in Code,
             HGet(t, o, code)
      PROVE  [Channel!Next]_(Channel!vars)
  <2>1. CASE UNCHANGED <<queue, delivered>>
    BY <1>4, <2>1, GetEffect DEF Channel!vars
  <2>2. CASE /\ queue # <<>>
             /\ Dequeue
             /\ delivered' = Append(delivered, [id |-> PopId, obj |-> Head(queue)])
    <3>1. chan # <<>> /\ Head(chan) = PopId /\ chan' = Tail(chan)
      BY <1>a, <1>4, <2>2, ChannelOfTail, GetEffect DEF Dequeue, PopId
    <3>2. Head(queue) = accepted[PopId + 1]
      <4>1. Len(queue) \in Nat \ {0}
        BY <1>a, <2>2, EmptySeq
      <4>2. 1 \in 1..Len(queue) /\ Head(queue) = queue[1]
        BY <4>1
      <4>3. queue[1] = accepted[objectId - Len(queue) + 1]
        BY <4>2 DEF HInv, QueueIsLastAccepted
      <4> QED
        BY <4>2, <4>3 DEF PopId
    <3>3. delivered' = Append(delivered, [id |-> Head(chan), obj |-> accepted[Head(chan) + 1]])
      BY <2>2, <3>1, <3>2
    <3>4. UNCHANGED <<accepted, closed>>
      BY <1>4, GetEffect
    <3>5. Channel!Deliver
      BY <3>1, <3>3, <3>4 DEF Channel!Deliver
    <3> QED
      BY <3>5 DEF Channel!Next
  <2> QED
    BY <1>4, <2>1, <2>2, GetEffect
<1> QED
    BY <1>1, <1>2, <1>3, <1>4 DEF HNext

(* Every behaviour of the buffer is a behaviour of the channel: objects    *)
(* come out in the order they went in, at most once each, and under the id *)
(* they were given by Push.                                                *)
THEOREM BufferImplementsChannel == HSpec => ImplementsChannel
<1>1. HInit => HInv /\ Channel!Init
    BY HInvInit, ChannelInit
<1>2. HInv /\ [HNext]_hvars => HInv' /\ [Channel!Next]_(Channel!vars)
    BY HInvStep, ChannelStep
<1> QED
    BY <1>1, <1>2, PTL DEF HSpec, ImplementsChannel, Channel!Spec
=============================================================================
