-------------------------------- MODULE Arrays --------------------------------
(***************************************************************************)
(* What the sorts of algorithm/sort do to an array in one go: an exchange, *)
(* an insertion, one way of the partition's hole.                          *)
(*                                                                         *)
(* An array of n elements is a function with domain 0..n-1.  The sorts     *)
(* come twice in the code, with operator< and with a comparator; here each *)
(* is one operator, which takes the order as a relation: <<x, y>> \in lt   *)
(* says x < y, or cmp(x, y) < 0.                                           *)
(***************************************************************************)
EXTENDS Integers, FiniteSets, FiniteSetsExt

CONSTANT sThreshold     \* ranges this short are sorted by insertion

ASSUME ThresholdAssumption == sThreshold \in Nat \ {0, 1}

Size(array) == Cardinality(DOMAIN array)
Less(lt, x, y) == <<x, y>> \in lt

Swap(array, i, j) == [array EXCEPT ![i] = array[j], ![j] = array[i]]

-----------------------------------------------------------------------------
(* Insertion: with a left end and a gap it also serves merge and shell     *)
(* sort.                                                                   *)

\* Mutant of Insert: the leftmost element is not compared.
InsertAboveFirst(array, j, left, gap, lt) ==
    LET slot == Max({s \in left..j :
                       (j - s) % gap = 0 /\ (s - 2 * gap < left \/ ~Less(lt, array[j], array[s - gap]))})
    IN [x \in DOMAIN array |->
           CASE x = slot -> array[j]
             [] x > slot /\ x <= j /\ (j - x) % gap = 0 -> array[x - gap]
             [] OTHER -> array[x]]

\* The element at j moves down, gap by gap, past those it is less than.
Insert(array, j, left, gap, lt) ==
    LET slot == Max({s \in left..j :
                       (j - s) % gap = 0 /\ (s - gap < left \/ ~Less(lt, array[j], array[s - gap]))})
    IN [x \in DOMAIN array |->
           CASE x = slot -> array[j]
             [] x > slot /\ x <= j /\ (j - x) % gap = 0 -> array[x - gap]
             [] OTHER -> array[x]]
-----------------------------------------------------------------------------
(* Partition.  The key leaves a hole, which changes sides as elements are  *)
(* moved into it.  With the hole at i, the element that goes there is the  *)
(* last of i..j that is not greater than the key; with the hole at j, the  *)
(* first that is not less.  If there is none, i and j have met.            *)

FromRight(array, i, j, key, lt) == Max({i} \cup {x \in i..j : ~Less(lt, key, array[x])})
FromLeft(array, i, j, key, lt)  == Min({j} \cup {x \in i..j : ~Less(lt, array[x], key)})

CompareExchange(array, i, j, lt) ==
    IF Less(lt, array[j], array[i]) THEN Swap(array, i, j) ELSE array

\* The median of the first, the middle and the last goes to left + 1; the
\* first is not greater, the last not less.
MedianOfThree(array, left, right, lt) ==
    LET a0 == Swap(array, (left + right) \div 2, left + 1)
        a1 == CompareExchange(a0, left, left + 1, lt)
        a2 == CompareExchange(a1, left, right, lt)
    IN CompareExchange(a2, left + 1, right, lt)
=============================================================================
