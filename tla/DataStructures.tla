---------------------------- MODULE DataStructures ----------------------------
(***************************************************************************)
(* Queue, Stack, MaxBinaryHeap, MinBinaryHeap and HashSetChained of        *)
(* algorithm/data_structure, and the running statistics of common/util.    *)
(* An object is a record of its members.  Its memory is a function from    *)
(* 0..capacity-1, with Raw where no element has been constructed yet or    *)
(* where one was destroyed.                                                *)
(***************************************************************************)
EXTENDS Integers, Sequences, FiniteSetsExt

CONSTANTS
    HeapOrder,      \* <<x, y>>: x is further from the top than y
    HashOf,         \* the hash function, a function of the keys
    BucketSize,
    K,              \* how many values RunningMinK and RunningMaxK keep
    TypeMax,        \* numeric_limits<T>::max()
    TypeMin,        \* numeric_limits<T>::min(): not the least for a double
    BinOf           \* what RunningDistribution's callers convert values with

Raw == "raw"
RawMemory(capacity) == [i \in 0..capacity - 1 |-> Raw]

\* The elements move to the start of memory twice as large.
Moved(old, capacity) == [i \in 0..2 * capacity - 1 |-> IF i < capacity THEN old[i] ELSE Raw]
-----------------------------------------------------------------------------
NewQueue(capacity) ==
    [kind |-> "queue", data |-> RawMemory(capacity), capacity |-> capacity, front |-> 0, rear |-> 0, size |-> 0]

Wrapped(position, q) == IF position = q.capacity THEN 0 ELSE position

\* Mutant of ExpandQueue: the elements keep their places.
ExpandQueueInPlace(q) ==
    [q EXCEPT !.data = Moved(q.data, q.capacity), !.front = 0, !.rear = q.capacity, !.capacity = 2 * @]

\* The element at the front becomes the first.
ExpandQueue(q) ==
    [q EXCEPT !.data = Moved([i \in DOMAIN q.data |-> q.data[(q.front + i) % q.capacity]], q.capacity),
              !.front = 0, !.rear = q.capacity, !.capacity = 2 * @]

Enqueue(queue, e) ==
    LET q == IF queue.size >= queue.capacity THEN ExpandQueue(queue) ELSE queue
    IN [q EXCEPT !.data[q.rear] = e, !.rear = Wrapped(q.rear + 1, q), !.size = @ + 1]

Dequeue(q) == [q EXCEPT !.data[q.front] = Raw, !.front = Wrapped(q.front + 1, q), !.size = @ - 1]

QueueFront(q) == q.data[q.front]

\* Reads in front of the memory if mRear has wrapped.
QueueRear(q) == IF q.rear = 0 THEN Raw ELSE q.data[q.rear - 1]

QueueItems(q) == [k \in 1..q.size |-> q.data[(q.front + k - 1) % q.capacity]]
-----------------------------------------------------------------------------
NewStack(capacity) == [kind |-> "stack", data |-> RawMemory(capacity), capacity |-> capacity, size |-> 0]

Expanded(s) == [s EXCEPT !.data = Moved(s.data, s.capacity), !.capacity = 2 * @]

Push(stack, e) ==
    LET s == IF stack.size >= stack.capacity THEN Expanded(stack) ELSE stack
    IN [s EXCEPT !.data[s.size] = e, !.size = @ + 1]

Pop(s) == [s EXCEPT !.data[s.size - 1] = Raw, !.size = @ - 1]

StackTop(s) == s.data[s.size - 1]

StackItems(s) == [k \in 1..s.size |-> s.data[k - 1]]
-----------------------------------------------------------------------------
(* The heaps differ in the order only.  The key that moves is written with *)
(* every exchange here, once at the end in the code.                       *)

Exchange(data, i, j) == [data EXCEPT ![i] = data[j], ![j] = data[i]]

RECURSIVE ShiftUp(_, _, _)
ShiftUp(data, i, lt) ==
    LET j == (i - 1) \div 2
    IN IF i > 0 /\ <<data[j], data[i]>> \in lt THEN ShiftUp(Exchange(data, i, j), j, lt) ELSE data

RECURSIVE ShiftDown(_, _, _, _)
ShiftDown(data, size, i, lt) ==
    LET left == 2 * i + 1
        j == IF left + 1 < size /\ <<data[left], data[left + 1]>> \in lt THEN left + 1 ELSE left
    IN IF left < size /\ <<data[i], data[j]>> \in lt
       THEN ShiftDown(Exchange(data, i, j), size, j, lt) ELSE data

NewHeap(capacity) == [kind |-> "heap", data |-> RawMemory(capacity), capacity |-> capacity, size |-> 0]

RECURSIVE Heapified(_, _, _, _)
Heapified(data, size, i, lt) ==
    IF i < 0 THEN data ELSE Heapified(ShiftDown(data, size, i, lt), size, i - 1, lt)

\* The constructors that take a range.
HeapOf(s, capacity, lt) ==
    LET h == NewHeap(IF Len(s) > capacity THEN Len(s) ELSE capacity)
        copied == [i \in DOMAIN h.data |-> IF i < Len(s) THEN s[i + 1] ELSE Raw]
    IN [h EXCEPT !.size = Len(s), !.data = Heapified(copied, Len(s), Len(s) \div 2 - 1, lt)]

Add(heap, e, lt) ==
    LET h == IF heap.size >= heap.capacity THEN Expanded(heap) ELSE heap
    IN [h EXCEPT !.data = ShiftUp([@ EXCEPT ![h.size] = e], h.size, lt), !.size = @ + 1]

\* The last element is moved to the top.  (If it is the only one it is
\* destroyed before it is copied, which for a number changes nothing.)
Extract(h, lt) ==
    LET size == h.size - 1
        moved == [[h.data EXCEPT ![0] = h.data[size]] EXCEPT ![size] = Raw]
    IN [h EXCEPT !.data = IF size = 0 THEN moved ELSE ShiftDown(moved, size, 0, lt), !.size = size]

\* Mutant of Modify: the new value can only sink.
ModifyDown(h, pos, e, lt) ==
    [h EXCEPT !.data = ShiftDown([@ EXCEPT ![pos] = e], h.size, pos, lt)]

\* The value at "pos" after it has risen is the one that then sinks.
Modify(h, pos, e, lt) ==
    [h EXCEPT !.data = ShiftDown(ShiftUp([@ EXCEPT ![pos] = e], pos, lt), h.size, pos, lt)]

Top(h) == h.data[0]

HeapItems(h) == [k \in 1..h.size |-> h.data[k - 1]]
-----------------------------------------------------------------------------
NoneFurther == -1

NewSet(capacity) ==
    [kind |-> "set", bucket |-> [b \in 0..BucketSize - 1 |-> NoneFurther], data |-> RawMemory(capacity),
     next |-> RawMemory(capacity), capacity |-> capacity, size |-> 0]

Slot(key) == HashOf[key] % BucketSize

\* The first with this key of those chained from position p on.
RECURSIVE FindFrom(_, _, _)
FindFrom(s, key, p) ==
    CASE p = NoneFurther -> NoneFurther
      [] p # NoneFurther /\ s.data[p] = key -> p
      [] OTHER -> FindFrom(s, key, s.next[p])

Find(s, key) == FindFrom(s, key, s.bucket[Slot(key)])

ExpandSet(s) == [s EXCEPT !.data = Moved(s.data, s.capacity), !.next = Moved(s.next, s.capacity), !.capacity = 2 * @]

\* A key that is in the set already is inserted again.
InsertKey(set, key) ==
    LET s == IF set.size >= set.capacity THEN ExpandSet(set) ELSE set
    IN [s EXCEPT !.data[s.size] = key, !.next[s.size] = s.bucket[Slot(key)],
                 !.bucket[Slot(key)] = s.size, !.size = @ + 1]
-----------------------------------------------------------------------------
(* common/util/running_statistic.h: statistics that are kept up to date    *)
(* value by value and remember no more than they need.  RunningMinK keeps  *)
(* the K least values in a MaxBinaryHeap, the greatest of them on top, and *)
(* replaces that one; RunningMaxK does the opposite.                       *)

Smaller == {p \in (-TypeMax - 1..TypeMax) \X (-TypeMax - 1..TypeMax) : p[1] < p[2]}
Greater == {<<p[2], p[1]>> : p \in Smaller}

NewStatistics ==
    [kind |-> "statistics", min |-> TypeMax, max |-> IF TypeMin < -TypeMax THEN TypeMin ELSE -TypeMax,
     minK |-> NewHeap(K), maxK |-> NewHeap(K), count |-> 0, sum |-> 0, sqrSum |-> 0,
     frequencies |-> [b \in {BinOf[v] : v \in DOMAIN BinOf} |-> 0]]

\* Mutant of KeepIfBefore: the heap's order and the comparison disagree.
KeepIfAfter(heap, v, lt) ==
    CASE heap.size < K -> Add(heap, v, lt)
      [] heap.size = K /\ <<Top(heap), v>> \in lt -> Modify(heap, 0, v, lt)
      [] OTHER -> heap

KeepIfBefore(heap, v, lt) ==
    CASE heap.size < K -> Add(heap, v, lt)
      [] heap.size = K /\ <<v, Top(heap)>> \in lt -> Modify(heap, 0, v, lt)
      [] OTHER -> heap

AddMinMax(s, v) == [s EXCEPT !.min = IF v < @ THEN v ELSE @, !.max = IF @ < v THEN v ELSE @]
AddMinK(s, v) == [s EXCEPT !.minK = KeepIfBefore(@, v, Smaller)]
AddMaxK(s, v) == [s EXCEPT !.maxK = KeepIfBefore(@, v, Greater)]
AddSums(s, v) == [s EXCEPT !.count = @ + 1, !.sum = @ + v, !.sqrSum = @ + v * v]
AddFrequency(s, v) == [s EXCEPT !.frequencies[BinOf[v]] = @ + 1]

AddValue(s, v) == AddFrequency(AddSums(AddMaxK(AddMinK(AddMinMax(s, v), v), v), v), v)

\* CurrentVar times the square of mCount: the code divides, and what it
\* divides by is never 0.
CurrentVarTimesCountSquared(s) == IF s.count = 0 THEN 0 ELSE s.count * s.sqrSum - s.sum * s.sum
=============================================================================
