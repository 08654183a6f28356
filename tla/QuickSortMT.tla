------------------------------ MODULE QuickSortMT ------------------------------
(***************************************************************************)
(* Quick sort with threads, algorithm/sort/quick_sort_mt.h.  A call of     *)
(* MTQuickSort works on a range of the array.  It sorts a short range by   *)
(* insertion and partitions a longer one.  If the range is long it makes a *)
(* thread for each part and joins both; otherwise it sorts the parts       *)
(* itself.  Nothing but the ranges keeps the threads apart: the array has  *)
(* no lock, and a step is one insertion or one way of the partition's      *)
(* hole.                                                                   *)
(***************************************************************************)
EXTENDS Arrays

CONSTANTS
    MTInputs,       \* the arrays to sort
    ThreadNums,     \* what SetThreadNum may set
    SortOrder       \* the order, a relation as in Arrays

Elements == UNION {{input[x] : x \in DOMAIN input} : input \in MTInputs}

\* Arrays start at 0; cmp(x, y) < 0 is a strict weak order on their elements.
ASSUME QuickSortAssumption ==
    /\ \A input \in MTInputs :
          IsFiniteSet(DOMAIN input) /\ input = [x \in 0..Size(input) - 1 |-> input[x]]
    /\ ThreadNums \subseteq Nat \ {0}
    /\ \A a, b, c \in Elements :
          /\ Less(SortOrder, a, b) => ~Less(SortOrder, b, a)
          /\ Less(SortOrder, a, c) => Less(SortOrder, a, b) \/ Less(SortOrder, b, c)

VARIABLES
    array,          \* the array
    unsorted,       \* what it was when the sort was called; history
    mMTThreshold,   \* ranges longer than this are sorted by two threads
    calls           \* the calls under way, by their ranges <<left, right>>

mtvars == <<array, unsorted, mMTThreshold, calls>>

Span(left, right) == <<left, right>>

\* The calls under way, with new ones for the parts.
WithCalls(parts, underWay) ==
    [range \in parts \cup DOMAIN underWay |->
        IF range \in parts THEN [phase |-> "called"] ELSE underWay[range]]

\* The caller's thread starts with the whole array.
MTCall(input, threadNum) ==
    /\ array = input
    /\ unsorted = input
    /\ mMTThreshold = Size(input) \div threadNum
    /\ calls = WithCalls({Span(0, Size(input) - 1)}, <<>>)

MTInit == \E input \in MTInputs, threadNum \in ThreadNums : MTCall(input, threadNum)
-----------------------------------------------------------------------------
Without(range) == [r \in DOMAIN calls \ {range} |-> calls[r]]

InPhase(range, phases) == range \in DOMAIN calls /\ calls[range].phase \in phases

BeginShort(range) ==
    /\ InPhase(range, {"called"})
    /\ range[2] - range[1] < sThreshold
    /\ calls' = [calls EXCEPT ![range] = [phase |-> "inserting", j |-> range[1] + 1]]
    /\ UNCHANGED <<array, unsorted, mMTThreshold>>

InsertNext(range) ==
    /\ InPhase(range, {"inserting"})
    /\ LET j == calls[range].j
       IN /\ j <= range[2]
          /\ array' = Insert(array, j, range[1], 1, SortOrder)
          /\ calls' = [calls EXCEPT ![range] = [phase |-> "inserting", j |-> j + 1]]
    /\ UNCHANGED <<unsorted, mMTThreshold>>

EndInsertion(range) ==
    /\ InPhase(range, {"inserting"})
    /\ calls[range].j > range[2]
    /\ calls' = Without(range)
    /\ UNCHANGED <<array, unsorted, mMTThreshold>>
-----------------------------------------------------------------------------
(* The elements below i are not greater than the key, those above j not    *)
(* less; the hole is at i or at j.                                         *)

PartitionFrom(phase, i, j, key) == [phase |-> phase, i |-> i, j |-> j, key |-> key]

BeginPartition(range) ==
    /\ InPhase(range, {"called"})
    /\ range[2] - range[1] >= sThreshold
    /\ array' = MedianOfThree(array, range[1], range[2], SortOrder)
    /\ calls' = [calls EXCEPT ![range] =
                    PartitionFrom("fromRight", range[1] + 1, range[2] - 1, array'[range[1] + 1])]
    /\ UNCHANGED <<unsorted, mMTThreshold>>

\* If nothing is found before j meets i, the loop ends.
TakeFromRight(range) ==
    /\ InPhase(range, {"fromRight"})
    /\ LET c == calls[range]
           j == FromRight(array, c.i, c.j, c.key, SortOrder)
       IN /\ c.i < c.j
          /\ IF c.i < j
             THEN /\ array' = [array EXCEPT ![c.i] = array[j]]
                  /\ calls' = [calls EXCEPT ![range] = PartitionFrom("fromLeft", c.i + 1, j, c.key)]
             ELSE /\ array' = array
                  /\ calls' = [calls EXCEPT ![range] = PartitionFrom("fromRight", c.i, c.i, c.key)]
    /\ UNCHANGED <<unsorted, mMTThreshold>>

TakeFromLeft(range) ==
    /\ InPhase(range, {"fromLeft"})
    /\ LET c == calls[range]
           i == FromLeft(array, c.i, c.j, c.key, SortOrder)
       IN /\ c.i < c.j
          /\ IF i < c.j
             THEN /\ array' = [array EXCEPT ![c.j] = array[i]]
                  /\ calls' = [calls EXCEPT ![range] = PartitionFrom("fromRight", i, c.j - 1, c.key)]
             ELSE /\ array' = array
                  /\ calls' = [calls EXCEPT ![range] = PartitionFrom("fromLeft", c.j, c.j, c.key)]
    /\ UNCHANGED <<unsorted, mMTThreshold>>

\* Mutant of LowPart: the part includes the key and the element above it.
LowPartOverlapping(range, mid) == Span(range[1], mid + 1)

\* Mutant of LowPart: the element below the key is left out.
LowPartShort(range, mid) == Span(range[1], mid - 2)

LowPart(range, mid)  == Span(range[1], mid - 1)
HighPart(range, mid) == Span(mid + 1, range[2])

\* The key gets to its place, and the parts are called: both, by two threads
\* this one waits for, or the lower one first.
EndPartition(range) ==
    /\ InPhase(range, {"fromRight", "fromLeft"})
    /\ LET c == calls[range]
           spawns == range[2] - range[1] > mMTThreshold
           parts == {LowPart(range, c.i)} \cup {part \in {HighPart(range, c.i)} : spawns}
       IN /\ c.i = c.j
          /\ array' = [array EXCEPT ![c.i] = c.key]
          /\ calls' = WithCalls(parts, [calls EXCEPT ![range] =
                          [phase |-> IF spawns THEN "joining" ELSE "first", mid |-> c.i]])
    /\ UNCHANGED <<unsorted, mMTThreshold>>
-----------------------------------------------------------------------------
\* The parts a call has called.
PartsCalled(range) ==
    LET mid == calls[range].mid
    IN {part \in {LowPart(range, mid)} : calls[range].phase # "second"} \cup
       {part \in {HighPart(range, mid)} : calls[range].phase # "first"}

HaveReturned(parts) == parts \cap DOMAIN calls = {}

CallSecond(range) ==
    /\ InPhase(range, {"first"})
    /\ HaveReturned(PartsCalled(range))
    /\ LET mid == calls[range].mid
       IN calls' = WithCalls({HighPart(range, mid)},
                             [calls EXCEPT ![range] = [phase |-> "second", mid |-> mid]])
    /\ UNCHANGED <<array, unsorted, mMTThreshold>>

MTReturn(range) ==
    /\ InPhase(range, {"joining", "second"})
    /\ HaveReturned(PartsCalled(range))
    /\ calls' = Without(range)
    /\ UNCHANGED <<array, unsorted, mMTThreshold>>

MTStep(range) ==
    \/ BeginShort(range)
    \/ InsertNext(range)
    \/ EndInsertion(range)
    \/ BeginPartition(range)
    \/ TakeFromRight(range)
    \/ TakeFromLeft(range)
    \/ EndPartition(range)
    \/ CallSecond(range)
    \/ MTReturn(range)

MTNext == \E range \in DOMAIN calls : MTStep(range)

MTSpec == MTInit /\ [][MTNext]_mtvars
-----------------------------------------------------------------------------
(* Properties.                                                             *)

Waiting == {"joining", "first", "second"}

Active == {range \in DOMAIN calls : calls[range].phase \notin Waiting}

\* The ranges still to be sorted: the parts that are called second have not
\* been called yet.
Unsorted ==
    Active \cup {HighPart(range, calls[range].mid) : range \in {r \in DOMAIN calls : calls[r].phase = "first"}}

\* Where the key of a partition belongs until it ends.
Partitioning == {range \in DOMAIN calls : calls[range].phase \in {"fromRight", "fromLeft"}}

Hole(range) == IF calls[range].phase = "fromRight" THEN calls[range].i ELSE calls[range].j

\* The array with the keys that are out of it.
Filled ==
    [x \in DOMAIN array |->
        LET at == {range \in Partitioning : Hole(range) = x}
        IN IF at = {} THEN array[x] ELSE calls[CHOOSE range \in at : TRUE].key]

IsPermutation(a, b) ==
    \A x \in DOMAIN a : Cardinality({y \in DOMAIN a : a[y] = a[x]}) = Cardinality({y \in DOMAIN b : b[y] = a[x]})

Sorted(a, lt) == \A x, y \in DOMAIN a : x < y => ~Less(lt, a[y], a[x])

Within(x, range) == range[1] <= x /\ x <= range[2]

\* Threads that run at the same time have no element in common: the array
\* is written without a lock (quick_sort_mt.h:61-69).
ThreadsApart ==
    \A r1, r2 \in Active : r1 # r2 => r1[1]..r1[2] \cap r2[1]..r2[2] = {}

\* At any time, whoever has run so far, between any two moves of elements:
\* none is lost, an element in no range that is still to be sorted is where
\* it belongs, and no element has to leave the range it is in.  When the
\* last join returns the array is sorted.
SettledIsFinal ==
    /\ \A x, y \in DOMAIN array :
          x < y /\ (\A range \in Unsorted : ~(Within(x, range) /\ Within(y, range)))
            => ~Less(SortOrder, Filled[y], Filled[x])
    /\ IsPermutation(unsorted, Filled)
=============================================================================
