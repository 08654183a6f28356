-------------------------------- MODULE Sorting --------------------------------
(***************************************************************************)
(* The sorting algorithms of algorithm/sort and the helpers on arrays of   *)
(* common/base/algorithm.h, as operators.                                  *)
(***************************************************************************)
EXTENDS Arrays, Sequences, SequencesExt

\* The indices a loop runs through, upwards and downwards.
Upwards(from, to) == [k \in 1..Max({0, to - from + 1}) |-> from + k - 1]
Downwards(from, to) == [k \in 1..Max({0, from - to + 1}) |-> from - k + 1]

ArrayReverse(array) ==
    LET mid == Size(array) \div 2
    IN FoldLeft(LAMBDA a, i : Swap(a, i, Size(a) - 1 - i), array, Upwards(0, mid - 1))
-----------------------------------------------------------------------------
InsertionSortRange(array, left, right, lt) ==
    FoldLeft(LAMBDA a, j : Insert(a, j, left, 1, lt), array, Upwards(left + 1, right))

InsertionSort(array, lt) == InsertionSortRange(array, 0, Size(array) - 1, lt)

NextGap(n) == n \div 3 + 1

RECURSIVE ShellPasses(_, _, _)
ShellPasses(array, gap, lt) ==
    LET next == NextGap(gap)
        pass == FoldLeft(LAMBDA a, i : Insert(a, i, 0, next, lt), array, Upwards(next, Size(array) - 1))
    IN IF next > 1 THEN ShellPasses(pass, next, lt) ELSE pass

ShellSort(array, lt) == ShellPasses(array, Size(array), lt)
-----------------------------------------------------------------------------
BubblePass(array, i, lt) ==
    FoldLeft(LAMBDA a, j : IF Less(lt, a[j], a[j - 1]) THEN Swap(a, j, j - 1) ELSE a,
             array, Downwards(Size(array) - 1, i + 1))

\* A pass that swaps nothing is the last.
RECURSIVE BubblePasses(_, _, _)
BubblePasses(array, i, lt) ==
    LET pass == BubblePass(array, i, lt)
    IN IF i >= Size(array) \/ pass = array THEN array ELSE BubblePasses(pass, i + 1, lt)

BubbleSort(array, lt) == BubblePasses(array, 0, lt)
-----------------------------------------------------------------------------
(* Merge sort, and the count of inversions that is made with it.           *)

\* Two runs become one; "invs" grows by what is left of the first run
\* whenever the second has the next element.
RECURSIVE MergeRuns(_, _, _)
MergeRuns(first, second, lt) ==
    CASE first = <<>> -> [run |-> second, invs |-> 0]
      [] second = <<>> -> [run |-> first, invs |-> 0]
      [] first # <<>> /\ second # <<>> ->
           LET takeFirst == Less(lt, Head(first), Head(second))
               rest == IF takeFirst THEN MergeRuns(Tail(first), second, lt)
                                    ELSE MergeRuns(first, Tail(second), lt)
           IN [run |-> <<Head(IF takeFirst THEN first ELSE second)>> \o rest.run,
               invs |-> rest.invs + (IF takeFirst THEN 0 ELSE Len(first))]

Segment(array, left, right) == [k \in 1..(right - left + 1) |-> array[left + k - 1]]

Merge(array, left, mid, right, lt) ==
    LET merged == MergeRuns(Segment(array, left, mid), Segment(array, mid + 1, right), lt)
    IN [array |-> [x \in DOMAIN array |->
                      IF x \in left..right THEN merged.run[x - left + 1] ELSE array[x]],
        invs |-> merged.invs]

RECURSIVE DoMergeSort(_, _, _, _, _)
DoMergeSort(array, left, right, threshold, lt) ==
    IF right - left < threshold
    THEN [array |-> InsertionSortRange(array, left, right, lt), invs |-> 0]
    ELSE LET mid == (left + right) \div 2
             low == DoMergeSort(array, left, mid, threshold, lt)
             high == DoMergeSort(low.array, mid + 1, right, threshold, lt)
             all == Merge(high.array, left, mid, right, lt)
         IN [array |-> all.array, invs |-> low.invs + high.invs + all.invs]

MergeSort(array, lt) == DoMergeSort(array, 0, Size(array) - 1, sThreshold, lt).array

\* operator<, on the elements of an array.
Ascending(array) ==
    LET values == {array[x] : x \in DOMAIN array}
    IN {p \in values \X values : p[1] < p[2]}

\* Counts down to single elements, where there is nothing to insert.
CountInversion(array) == DoMergeSort(array, 0, Size(array) - 1, 1, Ascending(array)).invs
-----------------------------------------------------------------------------
\* The element at i sinks; equal ones are passed.
RECURSIVE Heapify(_, _, _, _)
Heapify(array, size, i, lt) ==
    LET left == 2 * i + 1
        j == IF left + 1 < size /\ Less(lt, array[left], array[left + 1]) THEN left + 1 ELSE left
    IN IF left >= size \/ Less(lt, array[j], array[i])
       THEN array
       ELSE Heapify(Swap(array, i, j), size, j, lt)

BuildHeap(array, lt) ==
    FoldLeft(LAMBDA a, i : Heapify(a, Size(a), i, lt), array, Downwards((Size(array) - 1) \div 2, 0))

HeapSort(array, lt) ==
    FoldLeft(LAMBDA a, i : Heapify(Swap(a, 0, i), i, 0, lt), BuildHeap(array, lt),
             Downwards(Size(array) - 1, 1))
-----------------------------------------------------------------------------
(* Quick sort.                                                             *)

RECURSIVE MoveHole(_, _, _, _, _)
MoveHole(array, i, j, key, lt) ==
    LET j1 == FromRight(array, i, j, key, lt)
        a1 == IF i < j1 THEN [array EXCEPT ![i] = array[j1]] ELSE array
        i1 == IF i < j1 THEN i + 1 ELSE i
        i2 == FromLeft(a1, i1, j1, key, lt)
        a2 == IF i2 < j1 THEN [a1 EXCEPT ![j1] = a1[i2]] ELSE a1
        j2 == IF i2 < j1 THEN j1 - 1 ELSE j1
    IN IF i2 < j2 THEN MoveHole(a2, i2, j2, key, lt)
                  ELSE [array |-> [a2 EXCEPT ![i2] = key], mid |-> i2]

Partition(array, left, right, lt) == MoveHole(array, left, right, array[left], lt)

\* The median of three is the key.
MedianPartition(array, left, right, lt) ==
    Partition(MedianOfThree(array, left, right, lt), left + 1, right - 1, lt)

RECURSIVE DoQuickSort(_, _, _, _)
DoQuickSort(array, left, right, lt) ==
    IF right - left < sThreshold THEN array
    ELSE LET p == MedianPartition(array, left, right, lt)
         IN DoQuickSort(DoQuickSort(p.array, left, p.mid - 1, lt), p.mid + 1, right, lt)

QuickSort(array, lt) == InsertionSort(DoQuickSort(array, 0, Size(array) - 1, lt), lt)

\* Every element some choice of the random keys may return, with
\* operator<: the other Select, with a comparator, calls a function that
\* does not exist (randomized_select.h:89).
RECURSIVE Select(_, _, _, _)
Select(array, left, right, k) ==
    UNION {LET p == Partition(Swap(array, rpos, left), left, right, Ascending(array))
           IN CASE k = p.mid -> {p.array[k]}
                [] k < p.mid -> Select(p.array, left, p.mid - 1, k)
                [] k > p.mid -> Select(p.array, p.mid + 1, right, k) : rpos \in left..right}

RandomizedSelect(array, k) == Select(array, 0, Size(array) - 1, k)
-----------------------------------------------------------------------------
\* Mutant of CountingSort: the elements are put in their places from the
\* first to the last.
CountingSortForwards(array, limit, cvt) ==
    LET below == [v \in 0..limit - 1 |-> Cardinality({x \in DOMAIN array : cvt[array[x]] <= v})]
        put == FoldLeft(LAMBDA s, x : LET v == cvt[array[x]]
                                      IN [count |-> [s.count EXCEPT ![v] = @ - 1],
                                          array |-> [s.array EXCEPT ![s.count[v] - 1] = array[x]]],
                        [count |-> below, array |-> array], Upwards(0, Size(array) - 1))
    IN put.array

\* "cvt" gives each element's number; "count" is how many elements are at
\* most that, until elements are put in their places, from the last on.
CountingSort(array, limit, cvt) ==
    LET below == [v \in 0..limit - 1 |-> Cardinality({x \in DOMAIN array : cvt[array[x]] <= v})]
        put == FoldLeft(LAMBDA s, x : LET v == cvt[array[x]]
                                      IN [count |-> [s.count EXCEPT ![v] = @ - 1],
                                          array |-> [s.array EXCEPT ![s.count[v] - 1] = array[x]]],
                        [count |-> below, array |-> array], Downwards(Size(array) - 1, 0))
    IN put.array
-----------------------------------------------------------------------------
(* Searching, and the next permutation and combination in lexicographic    *)
(* order.                                                                  *)

\* array[mid] == key is cmp(key, array[mid]) == 0: neither is less.
RECURSIVE Bisect(_, _, _, _, _)
Bisect(key, array, left, right, lt) ==
    LET mid == left + (right - left) \div 2
    IN CASE left > right -> -1
         [] left <= right /\ Less(lt, array[mid], key) -> Bisect(key, array, mid + 1, right, lt)
         [] left <= right /\ Less(lt, key, array[mid]) -> Bisect(key, array, left, mid - 1, lt)
         [] OTHER -> mid

BSearch(key, array, lt) == Bisect(key, array, 0, Size(array) - 1, lt)

\* The two NextPermutation of the code differ in the type of the elements
\* and in the early return for n <= 1, which changes nothing.
NextPermutation(array) ==
    LET n == Size(array)
        ascents == {j \in 0..n - 2 : array[j] < array[j + 1]}
        j == Max(ascents)
        k == Max({x \in 0..n - 1 : array[x] > array[j]})
        swapped == Swap(array, j, k)
    IN IF ascents = {} THEN [found |-> FALSE, array |-> ArrayReverse(array)]
       ELSE [found |-> TRUE,
             array |-> FoldLeft(LAMBDA a, x : Swap(a, x, n + j - x), swapped, Upwards(j + 1, (j + n) \div 2))]

NextCombination(array, n) ==
    LET r == Size(array)
        movable == {i \in 0..r - 1 : array[i] # n - r + i}
        i == Max(movable)
    IN IF movable = {} THEN [found |-> FALSE, array |-> array]
       ELSE [found |-> TRUE,
             array |-> [x \in DOMAIN array |-> IF x < i THEN array[x] ELSE array[i] + 1 + (x - i)]]
=============================================================================
