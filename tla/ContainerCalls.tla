----------------------------- MODULE ContainerCalls -----------------------------
(***************************************************************************)
(* One object of one of the classes of algorithm/data_structure or         *)
(* common/util/running_statistic.h, or an allocator, used by one caller in *)
(* any order.  None of these classes has a lock.                           *)
(***************************************************************************)
EXTENDS DataStructures, Allocators, BagsExt, TLC

CONSTANTS
    Null, Thrown,   \* nothing is returned, LonganRuntimeError is thrown
    Elements,       \* the values that are added; keys of the hash set
    Capacities,     \* what constructors are given
    MaxElements,    \* bound on the elements in a container
    MaxAdded        \* bound on the values added to a statistic

VARIABLES
    object,         \* the object
    given,          \* what the last operation was given; history
    returned,       \* what it returned
    added           \* the values added to a statistic; history

cvars == <<object, given, returned, added>>
vars  == <<cvars, allocvars>>
-----------------------------------------------------------------------------
None == [kind |-> "none"]

Init ==
    /\ given = <<>>
    /\ returned = Null
    /\ added = <<>>
    /\ \/ \E capacity \in Capacities :
             /\ object \in {NewQueue(capacity), NewStack(capacity), NewHeap(capacity), NewSet(capacity),
                           NewStatistics}
             /\ allocator = None /\ live = {} /\ freedOthers = {}
       \/ object = None /\ AllocInit

UsedAs(kind) == object.kind = kind
UnchangedHistory == UNCHANGED <<added, allocvars>>
HasRoom == object.size < MaxElements

\* The four Add operations of the containers return nothing, or true.
AddElement(kind, op(_, _)) ==
    /\ UsedAs(kind)
    /\ HasRoom
    /\ \E e \in Elements : given' = <<e>> /\ object' = op(object, e)
    /\ returned' = Null
    /\ UnchangedHistory

\* Taking from an empty container throws.
TakeElement(kind, first(_), op(_)) ==
    /\ UsedAs(kind)
    /\ given' = <<>>
    /\ IF object.size = 0 THEN returned' = Thrown /\ UNCHANGED object
       ELSE returned' = first(object) /\ object' = op(object)
    /\ UnchangedHistory

QueueEnqueue == AddElement("queue", Enqueue)
QueueDequeue == TakeElement("queue", QueueFront, Dequeue)
StackPush == AddElement("stack", Push)
StackPop == TakeElement("stack", StackTop, Pop)
HeapAdd == AddElement("heap", LAMBDA h, e : Add(h, e, HeapOrder))
HeapExtract == TakeElement("heap", Top, LAMBDA h : Extract(h, HeapOrder))
SetInsert == AddElement("set", InsertKey)

HeapModify ==
    /\ UsedAs("heap")
    /\ \E pos \in 0..object.size - 1, e \in Elements :
          given' = <<e>> /\ object' = Modify(object, pos, e, HeapOrder)
    /\ returned' = Null
    /\ UnchangedHistory

\* A heap that is made of a range replaces one that is empty.
HeapFromRange ==
    /\ UsedAs("heap") /\ object.size = 0
    /\ \E n \in 0..MaxElements : \E s \in [1..n -> Elements] :
          given' = s /\ object' = HeapOf(s, object.capacity, HeapOrder)
    /\ returned' = Null
    /\ UnchangedHistory

SetFind ==
    /\ UsedAs("set")
    /\ \E key \in Elements :
          LET p == Find(object, key)
          IN given' = <<key>> /\ returned' = (IF p = NoneFurther THEN Null ELSE object.data[p])
    /\ UNCHANGED object
    /\ UnchangedHistory

StatisticAdd ==
    /\ UsedAs("statistics")
    /\ Len(added) < MaxAdded
    /\ \E v \in DOMAIN BinOf :
          /\ object' = AddValue(object, v)
          /\ added' = Append(added, v)
    /\ UNCHANGED <<given, returned, allocvars>>

Next ==
    \/ QueueEnqueue \/ QueueDequeue
    \/ StackPush \/ StackPop
    \/ HeapAdd \/ HeapExtract \/ HeapModify \/ HeapFromRange
    \/ SetInsert \/ SetFind
    \/ StatisticAdd
    \/ AllocNext /\ UNCHANGED cvars

Spec == Init /\ [][Next]_vars
-----------------------------------------------------------------------------
(* Properties.                                                             *)

BagOf(s) == FoldLeft(BagAdd, EmptyBag, s)

\* The elements of an object, whatever its capacity and their places.
ContentOf(o) ==
    CASE o.kind = "queue" -> [kind |-> "queue", items |-> QueueItems(o)]
      [] o.kind = "stack" -> [kind |-> "stack", items |-> StackItems(o)]
      [] o.kind \in {"heap", "set"} -> [kind |-> o.kind, items |-> BagOf(HeapItems(o))]
      [] OTHER -> [kind |-> "none", items |-> EmptyBag]

IsContainer == object.kind \in {"queue", "stack", "heap", "set"}

Abstract == INSTANCE Collections
    WITH content <- ContentOf(object)

\* Queue, stack, heaps and hash set do what Collections says, across
\* expansions of their memory and wrapped positions.
KeepPromises == Abstract!CollectionSpec

\* What may be looked at without taking it: the front of a queue, its rear
\* unless mRear has wrapped (queue.h:49), the top of a stack and a heap.
PeeksAgree ==
    IsContainer /\ object.kind # "set" /\ object.size > 0 =>
        LET items == ContentOf(object).items
        IN CASE UsedAs("queue") -> /\ QueueFront(object) = Head(items)
                                   /\ object.rear # 0 => QueueRear(object) = Last(items)
             [] UsedAs("stack") -> StackTop(object) = Last(items)
             [] UsedAs("heap") -> \A e \in BagToSet(items) : <<Top(object), e>> \notin HeapOrder

SortedBy(s, lt) == SetToSortSeq(DOMAIN s, LAMBDA i, j : <<s[i], s[j]>> \in lt \/ (s[i] = s[j] /\ i < j))

\* The K first of the values in the order, however often each was added.
FirstK(s, lt) ==
    LET order == SortedBy(s, lt)
    IN [k \in 1..(IF Len(s) < K THEN Len(s) ELSE K) |-> s[order[k]]]

\* Every statistic is that of the values added, in whatever order they
\* came.
StatisticsAgree ==
    UsedAs("statistics") =>
        LET values == {added[i] : i \in DOMAIN added}
            n == Len(added)
        IN /\ object.min = Min({TypeMax} \cup values)
           /\ added # <<>> => object.max = Max(values)
           /\ BagOf(HeapItems(object.minK)) = BagOf(FirstK(added, Smaller))
           /\ BagOf(HeapItems(object.maxK)) = BagOf(FirstK(added, Greater))
           /\ object.count = n
           /\ object.sum = FoldLeft(LAMBDA x, y : x + y, 0, added)
           /\ CurrentVarTimesCountSquared(object) =
                 MapThenSumSet(LAMBDA p : (added[p[1]] - added[p[2]]) * (added[p[1]] - added[p[2]]),
                               {p \in (1..n) \X (1..n) : p[1] < p[2]})
           /\ \A b \in DOMAIN object.frequencies :
                 object.frequencies[b] = Cardinality({i \in 1..n : BinOf[added[i]] = b})
=============================================================================
