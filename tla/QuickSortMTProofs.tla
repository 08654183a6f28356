--------------------------- MODULE QuickSortMTProofs ---------------------------
(***************************************************************************)
(* The sort with threads, for every array, every number of threads and     *)
(* every strict weak order: the ranges of calls that work at the same time *)
(* are apart, and what no call has to sort any more is where it belongs.   *)
(***************************************************************************)
EXTENDS QuickSortMT, FunctionTheorems, FiniteSetTheorems, TLAPS

NotLess(x, y) == ~Less(SortOrder, x, y)

Apart(r1, r2)  == r1[2] < r2[1] \/ r2[2] < r1[1]
Inside(r1, r2) == r2[1] <= r1[1] /\ r1[2] <= r2[2]

Places == 0..Size(unsorted) - 1

-----------------------------------------------------------------------------
(* The inductive invariant.                                                *)

Phases == {"called", "inserting", "fromRight", "fromLeft"} \cup Waiting

\* Where a call is in its range.
CallOK(range) ==
    LET c == calls[range]
        between(x) == x \in Int /\ range[1] < x /\ x < range[2]
    IN /\ range[1] \in Nat /\ range[2] \in Int /\ range[2] < Size(unsorted)
       /\ \/ range[1] <= range[2]
          \/ range = <<0, -1>> /\ Size(unsorted) = 0
       /\ c.phase \in Phases
       /\ c.phase = "inserting" => c.j \in Int /\ range[1] < c.j
       /\ c.phase \in {"fromRight", "fromLeft"} =>
             between(c.i) /\ between(c.j) /\ c.i <= c.j /\ c.key \in Elements
       /\ c.phase \in Waiting => between(c.mid)

TypeInv ==
    /\ Size(unsorted) \in Nat
    /\ unsorted \in [Places -> Elements] /\ array \in [Places -> Elements]
    /\ mMTThreshold \in Int
    /\ DOMAIN calls \subseteq Int \X Int
    /\ calls = [range \in DOMAIN calls |-> calls[range]]
    /\ \A range \in DOMAIN calls : CallOK(range)

\* r1 is at work, or has been put to work, on a part r2 has called and
\* waits for.
Serves(r1, r2) ==
    /\ calls[r2].phase \in Waiting
    /\ \E part \in PartsCalled(r2) : part \in DOMAIN calls /\ Inside(r1, part)

Nested(r1, r2) == Apart(r1, r2) \/ Serves(r1, r2) \/ Serves(r2, r1)

Nesting == \A r1, r2 \in DOMAIN calls : r1 # r2 => Nested(r1, r2)

\* What a call has done to its range so far.
Inserted(range) ==
    calls[range].phase = "inserting" =>
        \A x, y \in Places :
            range[1] <= x /\ x < y /\ y < calls[range].j /\ y <= range[2] => NotLess(array[y], array[x])

Partitioned(range) ==
    LET c == calls[range]
    IN c.phase \in {"fromRight", "fromLeft"} =>
        \A x \in Places :
            /\ range[1] <= x /\ x < c.i => NotLess(c.key, array[x])
            /\ c.j < x /\ x <= range[2] => NotLess(array[x], c.key)

Progress == \A range \in DOMAIN calls : Inserted(range) /\ Partitioned(range)

Together(x, y) == \E range \in Unsorted : Within(x, range) /\ Within(y, range)

Settled == \A x, y \in Places : x < y /\ ~Together(x, y) => NotLess(Filled[y], Filled[x])

Rearranged == \E f \in Bijection(Places, Places) : Filled = [x \in Places |-> unsorted[f[x]]]

Inv == TypeInv /\ Nesting /\ Progress /\ Settled /\ Rearranged

-----------------------------------------------------------------------------
(* The order, and the ends of sets of integers.                            *)

LEMMA Order ==
    ASSUME NEW a \in Elements, NEW b \in Elements, NEW c \in Elements
    PROVE  /\ NotLess(a, a)
           /\ NotLess(b, a) /\ NotLess(c, b) => NotLess(c, a)
           /\ Less(SortOrder, a, b) => NotLess(b, a)
BY QuickSortAssumption DEF NotLess

LEMMA Threshold == sThreshold \in Int /\ sThreshold >= 2
BY ThresholdAssumption

LEMMA LeastNatural ==
    ASSUME NEW S, S \subseteq Nat, S # {}
    PROVE  \E x \in S : \A y \in S : x <= y
<1> DEFINE R == OpToRel(<, Nat)
<1>1. \A x, y \in Nat : <<x, y>> \in R <=> x < y
    BY DEF OpToRel
<1>2. IsWellFoundedOn(R, Nat)
    BY NatLessThanWellFounded
<1> HIDE DEF R
<1>3. PICK x \in S : \A y \in S : <<y, x>> \notin R
    BY <1>2, WFMin
<1>4. \A y \in S : x \in Nat /\ y \in Nat /\ ~(y < x)
    BY <1>1, <1>3
<1> QED
    BY <1>4

LEMMA LeastOf ==
    ASSUME NEW a \in Int, NEW b \in Int, NEW S, S \subseteq a..b, S # {}
    PROVE  Min(S) \in S /\ \A y \in S : Min(S) <= y
<1> DEFINE T == {x - a : x \in S}
<1>0. \A x \in S : x \in Int /\ x - a \in Nat
    OBVIOUS
<1>1. T \subseteq Nat /\ T # {}
    BY <1>0
<1>2. PICK t \in T : \A u \in T : t <= u
    BY <1>1, LeastNatural
<1>3. t + a \in S /\ \A y \in S : t + a <= y
    BY <1>2
<1> QED
    BY <1>3 DEF Min

LEMMA GreatestOf ==
    ASSUME NEW a \in Int, NEW b \in Int, NEW S, S \subseteq a..b, S # {}
    PROVE  Max(S) \in S /\ \A y \in S : y <= Max(S)
<1> DEFINE T == {b - x : x \in S}
<1>0. \A x \in S : x \in Int /\ b - x \in Nat
    OBVIOUS
<1>1. T \subseteq Nat /\ T # {}
    BY <1>0
<1>2. PICK t \in T : \A u \in T : t <= u
    BY <1>1, LeastNatural
<1>3. b - t \in S /\ \A y \in S : y <= b - t
    BY <1>2
<1> QED
    BY <1>3 DEF Max

LEMMA FoundFromRight ==
    ASSUME NEW a, NEW i \in Int, NEW j \in Int, i <= j, NEW key
    PROVE  LET stop == FromRight(a, i, j, key, SortOrder)
           IN /\ stop \in i..j
              /\ stop # i => NotLess(key, a[stop])
              /\ \A x \in i..j : x > stop => Less(SortOrder, key, a[x])
<1> DEFINE S == {i} \cup {x \in i..j : ~Less(SortOrder, key, a[x])}
<1>1. S \subseteq i..j /\ S # {}
    OBVIOUS
<1>2. Max(S) \in S /\ \A y \in S : y <= Max(S)
    BY <1>1, GreatestOf
<1> QED
    BY <1>2 DEF FromRight, NotLess

LEMMA FoundFromLeft ==
    ASSUME NEW a, NEW i \in Int, NEW j \in Int, i <= j, NEW key
    PROVE  LET stop == FromLeft(a, i, j, key, SortOrder)
           IN /\ stop \in i..j
              /\ stop # j => NotLess(a[stop], key)
              /\ \A x \in i..j : x < stop => Less(SortOrder, a[x], key)
<1> DEFINE S == {j} \cup {x \in i..j : ~Less(SortOrder, a[x], key)}
<1>1. S \subseteq i..j /\ S # {}
    OBVIOUS
<1>2. Min(S) \in S /\ \A y \in S : Min(S) <= y
    BY <1>1, LeastOf
<1> QED
    BY <1>2 DEF FromLeft, NotLess
-----------------------------------------------------------------------------
(* Moving elements within a range.                                         *)

\* b is a with the elements of the range in another order.
Shuffled(b, a, S, range) ==
    \E g \in Bijection(S, S) :
        /\ \A x \in S : Within(x, range) => Within(g[x], range)
        /\ \A x \in S : ~Within(x, range) => g[x] = x
        /\ b = [x \in S |-> a[g[x]]]

LEMMA BijectionIs ==
    ASSUME NEW S, NEW g \in [S -> S],
           \A x, y \in S : g[x] = g[y] => x = y,
           \A y \in S : \E x \in S : g[x] = y
    PROVE  g \in Bijection(S, S)
BY DEF Bijection, Injection, Surjection, IsInjective

LEMMA ShuffledOutside ==
    ASSUME NEW S, NEW V, NEW a \in [S -> V], NEW b, NEW range, Shuffled(b, a, S, range)
    PROVE  b \in [S -> V] /\ \A x \in S : ~Within(x, range) => b[x] = a[x]
BY DEF Shuffled, Bijection, Injection

LEMMA NotShuffled ==
    ASSUME NEW S, NEW V, NEW a \in [S -> V], NEW range
    PROVE  Shuffled(a, a, S, range)
<1> DEFINE g == [x \in S |-> x]
<1>1. g \in Bijection(S, S)
    BY BijectionIs
<1>2. a = [x \in S |-> a[g[x]]]
    OBVIOUS
<1> QED
    BY <1>1, <1>2 DEF Shuffled

LEMMA ShuffledTwice ==
    ASSUME NEW S, NEW V, NEW a \in [S -> V], NEW b, NEW c, NEW range,
           Shuffled(b, a, S, range), Shuffled(c, b, S, range)
    PROVE  Shuffled(c, a, S, range)
<1>1. PICK g \in Bijection(S, S) :
          /\ \A x \in S : Within(x, range) => Within(g[x], range)
          /\ \A x \in S : ~Within(x, range) => g[x] = x
          /\ b = [x \in S |-> a[g[x]]]
    BY DEF Shuffled
<1>2. PICK h \in Bijection(S, S) :
          /\ \A x \in S : Within(x, range) => Within(h[x], range)
          /\ \A x \in S : ~Within(x, range) => h[x] = x
          /\ c = [x \in S |-> b[h[x]]]
    BY DEF Shuffled
<1> DEFINE k == [x \in S |-> g[h[x]]]
<1>3. k \in Bijection(S, S)
    BY <1>1, <1>2, Fun_BijTransitive
<1>4. g \in [S -> S] /\ h \in [S -> S]
    BY <1>1, <1>2 DEF Bijection, Injection
<1>5. c = [x \in S |-> a[k[x]]]
    BY <1>1, <1>2, <1>4
<1>6. /\ \A x \in S : Within(x, range) => Within(k[x], range)
      /\ \A x \in S : ~Within(x, range) => k[x] = x
    BY <1>1, <1>2, <1>4
<1> HIDE DEF k
<1> QED
    BY <1>3, <1>5, <1>6 DEF Shuffled

LEMMA SwapShuffles ==
    ASSUME NEW S, NEW V, NEW a \in [S -> V], NEW range,
           NEW i \in S, NEW j \in S, Within(i, range), Within(j, range)
    PROVE  Shuffled(Swap(a, i, j), a, S, range)
<1> DEFINE g == [x \in S |-> IF x = i THEN j ELSE IF x = j THEN i ELSE x]
<1>1. g \in [S -> S] /\ \A x, y \in S : g[x] = g[y] => x = y
    OBVIOUS
<1>2. \A y \in S : \E x \in S : g[x] = y
    <2> TAKE y \in S
    <2>1. g[g[y]] = y /\ g[y] \in S
        OBVIOUS
    <2> QED
        BY <2>1
<1>3. g \in Bijection(S, S)
    BY <1>1, <1>2, BijectionIs
<1>4. Swap(a, i, j) = [x \in S |-> a[g[x]]]
    BY DEF Swap
<1>5. /\ \A x \in S : Within(x, range) => Within(g[x], range)
      /\ \A x \in S : ~Within(x, range) => g[x] = x
    OBVIOUS
<1> HIDE DEF g
<1> QED
    BY <1>3, <1>4, <1>5 DEF Shuffled

LEMMA ReorderingPermutes ==
    ASSUME NEW S, IsFiniteSet(S), NEW V, NEW a \in [S -> V], NEW f \in Bijection(S, S)
    PROVE  IsPermutation(a, [x \in S |-> a[f[x]]])
<1> DEFINE b == [x \in S |-> a[f[x]]]
<1> SUFFICES ASSUME NEW x \in S
             PROVE  Cardinality({y \in S : a[y] = a[x]}) = Cardinality({y \in S : b[y] = a[x]})
    BY DEF IsPermutation
<1> DEFINE A == {y \in S : a[y] = a[x]}
           B == {y \in S : b[y] = a[x]}
           g == [y \in B |-> f[y]]
<1>1. /\ f \in [S -> S] /\ \A y, z \in S : f[y] = f[z] => y = z
      /\ \A y \in S : \E z \in S : f[z] = y
    BY DEF Bijection, Injection, Surjection, IsInjective
<1>2. g \in [B -> A] /\ \A y, z \in B : g[y] = g[z] => y = z
    BY <1>1
<1>3. \A y \in A : \E z \in B : g[z] = y
    BY <1>1
<1>4. g \in Bijection(B, A)
    BY <1>2, <1>3 DEF Bijection, Injection, Surjection, IsInjective
<1>5. IsFiniteSet(B)
    BY FS_Subset
<1> HIDE DEF A, B, g
<1>6. ExistsBijection(B, A)
    BY <1>4 DEF ExistsBijection
<1>7. Cardinality(A) = Cardinality(B)
    BY <1>5, <1>6, FS_Bijection
<1> QED
    BY <1>7 DEF A, B

\* The element at j goes to the slot, those from the slot on move up.
InsertedAt(b, a, slot, left, j, S) ==
    /\ slot \in left..j
    /\ b = [x \in S |-> IF x = slot THEN a[j] ELSE IF slot < x /\ x <= j THEN a[x - 1] ELSE a[x]]
    /\ slot # left => NotLess(a[j], a[slot - 1])
    /\ \A x \in left..j : slot < x => Less(SortOrder, a[j], a[x - 1])

LEMMA InsertFindsSlot ==
    ASSUME NEW S, NEW V, NEW a \in [S -> V], S \subseteq Int,
           NEW left \in Int, NEW j \in Int, left <= j, left..j \subseteq S
    PROVE  \E slot : InsertedAt(Insert(a, j, left, 1, SortOrder), a, slot, left, j, S)
<1> DEFINE T == {s \in left..j : (j - s) % 1 = 0 /\ (s - 1 < left \/ ~Less(SortOrder, a[j], a[s - 1]))}
           slot == Max(T)
<1>1. \A x \in Int : x % 1 = 0
    OBVIOUS
<1>2. left \in T /\ T \subseteq left..j
    BY <1>1
<1>3. slot \in T /\ \A s \in T : s <= slot
    BY <1>2, GreatestOf
<1>4. \A x \in left..j : slot < x => Less(SortOrder, a[j], a[x - 1])
    BY <1>1, <1>3
<1>5. slot # left => NotLess(a[j], a[slot - 1])
    BY <1>3 DEF NotLess
<1>6. Insert(a, j, left, 1, SortOrder) =
          [x \in S |-> CASE x = slot -> a[j]
                         [] x > slot /\ x <= j /\ (j - x) % 1 = 0 -> a[x - 1]
                         [] OTHER -> a[x]]
    BY DEF Insert
<1>7. slot \in left..j
    BY <1>3
<1> HIDE DEF slot
<1>8. Insert(a, j, left, 1, SortOrder) =
          [x \in S |-> IF x = slot THEN a[j] ELSE IF slot < x /\ x <= j THEN a[x - 1] ELSE a[x]]
    BY <1>1, <1>6, <1>7
<1> QED
    BY <1>4, <1>5, <1>7, <1>8 DEF InsertedAt

LEMMA InsertShuffles ==
    ASSUME NEW S, NEW V, NEW a \in [S -> V], S \subseteq Int, NEW b, NEW slot,
           NEW left \in Int, NEW j \in Int, left..j \subseteq S,
           InsertedAt(b, a, slot, left, j, S),
           NEW range, range[1] \in Int, range[2] \in Int, range[1] <= left, j <= range[2]
    PROVE  Shuffled(b, a, S, range)
<1> DEFINE g == [x \in S |-> IF x = slot THEN j ELSE IF slot < x /\ x <= j THEN x - 1 ELSE x]
<1>1. slot \in left..j
    BY DEF InsertedAt
<1>2. g \in [S -> S] /\ \A x, y \in S : g[x] = g[y] => x = y
    BY <1>1
<1>3. \A y \in S : \E x \in S : g[x] = y
  <2> TAKE y \in S
  <2> DEFINE x == IF y = j THEN slot ELSE IF slot <= y /\ y < j THEN y + 1 ELSE y
  <2>1. x \in S /\ g[x] = y
      BY <1>1
  <2> QED
      BY <2>1
<1>4. g \in Bijection(S, S)
    BY <1>2, <1>3, BijectionIs
<1>5. b = [x \in S |-> a[g[x]]]
    BY <1>1 DEF InsertedAt
<1>6. /\ \A x \in S : Within(x, range) => Within(g[x], range)
      /\ \A x \in S : ~Within(x, range) => g[x] = x
    BY <1>1 DEF Within
<1> HIDE DEF g
<1> QED
    BY <1>4, <1>5, <1>6 DEF Shuffled

LEMMA InsertKeepsOrder ==
    ASSUME NEW S, NEW a \in [S -> Elements], S \subseteq Int, NEW b, NEW slot,
           NEW left \in Int, NEW j \in Int, left..j \subseteq S,
           InsertedAt(b, a, slot, left, j, S),
           \A x, y \in left..(j - 1) : x < y => NotLess(a[y], a[x])
    PROVE  \A x, y \in left..j : x < y => NotLess(b[y], b[x])
<1> SUFFICES ASSUME NEW x \in left..j, NEW y \in left..j, x < y
             PROVE  NotLess(b[y], b[x])
    OBVIOUS
<1>1. slot \in left..j /\ j \in S
    BY DEF InsertedAt
<1> DEFINE from(z) == IF z = slot THEN j ELSE IF slot < z THEN z - 1 ELSE z
<1>2. \A z \in left..j : from(z) \in S /\ b[z] = a[from(z)]
    BY <1>1 DEF InsertedAt
<1>3. CASE x # slot /\ y # slot
    BY <1>1, <1>2, <1>3
<1>4. CASE x = slot
  <2>1. Less(SortOrder, a[j], a[y - 1]) /\ y - 1 \in S
    BY <1>1, <1>4 DEF InsertedAt
  <2>2. b[x] = a[j] /\ b[y] = a[y - 1]
    BY <1>1, <1>2, <1>4
  <2> QED
    BY <1>1, <2>1, <2>2, Order
<1>5. CASE y = slot
  <2>1. NotLess(a[j], a[slot - 1]) /\ slot - 1 \in S /\ x \in S
    BY <1>1, <1>5 DEF InsertedAt
  <2>2. b[x] = a[x] /\ b[y] = a[j]
    BY <1>1, <1>2, <1>5
  <2>3. x = slot - 1 \/ NotLess(a[slot - 1], a[x])
    BY <1>1, <1>5
  <2> QED
    BY <1>1, <2>1, <2>2, <2>3, Order
<1> QED
    BY <1>3, <1>4, <1>5

\* The smaller one of two elements is at i now.
Exchanged(b, a, i, j, S) ==
    /\ b \in [S -> Elements]
    /\ NotLess(b[j], b[i])
    /\ \/ b = a
       \/ Less(SortOrder, a[j], a[i]) /\ b[i] = a[j] /\ b[j] = a[i]
    /\ \A x \in S : x # i /\ x # j => b[x] = a[x]

LEMMA ExchangeSmaller ==
    ASSUME NEW S, NEW a \in [S -> Elements], NEW i \in S, NEW j \in S, i # j,
           NEW range, Within(i, range), Within(j, range)
    PROVE  /\ Exchanged(CompareExchange(a, i, j, SortOrder), a, i, j, S)
           /\ Shuffled(CompareExchange(a, i, j, SortOrder), a, S, range)
<1>1. CASE Less(SortOrder, a[j], a[i])
    BY <1>1, SwapShuffles, Order DEF CompareExchange, Swap, Exchanged
<1>2. CASE ~Less(SortOrder, a[j], a[i])
    BY <1>2, NotShuffled DEF CompareExchange, NotLess, Exchanged
<1> QED
    BY <1>1, <1>2

LEMMA MedianShuffles ==
    ASSUME NEW S, NEW a \in [S -> Elements], NEW left \in Int, NEW right \in Int,
           left + 2 <= right, S \subseteq Int, left..right \subseteq S
    PROVE  LET b == MedianOfThree(a, left, right, SortOrder)
           IN /\ Shuffled(b, a, S, <<left, right>>)
              /\ NotLess(b[left + 1], b[left]) /\ NotLess(b[right], b[left + 1])
<1> DEFINE range == <<left, right>>
           middle == (left + right) \div 2
           a0 == Swap(a, middle, left + 1)
           a1 == CompareExchange(a0, left, left + 1, SortOrder)
           a2 == CompareExchange(a1, left, right, SortOrder)
           a3 == CompareExchange(a2, left + 1, right, SortOrder)
<1>1. /\ left \in S /\ left + 1 \in S /\ right \in S /\ middle \in S
      /\ Within(left, range) /\ Within(left + 1, range) /\ Within(right, range) /\ Within(middle, range)
      /\ left # left + 1 /\ left # right /\ left + 1 # right
    BY DEF Within
<1> HIDE DEF range, middle
<1>2. Shuffled(a0, a, S, range) /\ a0 \in [S -> Elements]
    BY <1>1, SwapShuffles, ShuffledOutside
<1> HIDE DEF a0
<1>3. Exchanged(a1, a0, left, left + 1, S) /\ Shuffled(a1, a0, S, range)
    BY ONLY <1>1, <1>2, ExchangeSmaller
<1>4. a1 \in [S -> Elements] /\ NotLess(a1[left + 1], a1[left])
    BY <1>3 DEF Exchanged
<1> HIDE DEF a1
<1>5. Exchanged(a2, a1, left, right, S) /\ Shuffled(a2, a1, S, range)
    BY ONLY <1>1, <1>4, ExchangeSmaller
<1>6. /\ a2 \in [S -> Elements] /\ NotLess(a2[left + 1], a2[left])
      /\ NotLess(a2[right], a2[left])
    BY <1>1, <1>4, <1>5, Order DEF Exchanged
<1> HIDE DEF a2
<1>7. Exchanged(a3, a2, left + 1, right, S) /\ Shuffled(a3, a2, S, range)
    BY ONLY <1>1, <1>6, ExchangeSmaller
<1> HIDE DEF a3
<1>8. NotLess(a3[left + 1], a3[left]) /\ NotLess(a3[right], a3[left + 1])
    BY <1>1, <1>6, <1>7 DEF Exchanged
<1>9. Shuffled(a3, a, S, range)
    BY <1>2, <1>3, <1>4, <1>5, <1>6, <1>7, ShuffledTwice
<1>10. MedianOfThree(a, left, right, SortOrder) = a3
    BY DEF MedianOfThree, a0, a1, a2, a3, middle
<1> QED
    BY <1>8, <1>9, <1>10 DEF range

-----------------------------------------------------------------------------
(* The ranges.                                                             *)

LEMMA RangeFacts ==
    ASSUME TypeInv, NEW range \in DOMAIN calls
    PROVE  /\ range[1] \in Nat /\ range[2] \in Int /\ range[2] < Size(unsorted)
           /\ range = <<range[1], range[2]>>
           /\ \/ range[1] <= range[2]
              \/ range = <<0, -1>> /\ Size(unsorted) = 0
BY DEF TypeInv, CallOK

PartsFit ==
    \A range \in DOMAIN calls : calls[range].phase \in Waiting =>
        LET mid == calls[range].mid
        IN /\ mid \in Int /\ range[1] < mid /\ mid < range[2]
           /\ LowPart(range, mid) = <<range[1], mid - 1>>
           /\ HighPart(range, mid) = <<mid + 1, range[2]>>
           /\ \A part \in PartsCalled(range) :
                 \/ part = <<range[1], mid - 1>> /\ calls[range].phase # "second"
                 \/ part = <<mid + 1, range[2]>> /\ calls[range].phase # "first"

LEMMA PartFacts == TypeInv => PartsFit
BY DEF PartsFit, TypeInv, CallOK, LowPart, HighPart, Span, PartsCalled

LEMMA UnsortedIs ==
    ASSUME NEW range
    PROVE  range \in Unsorted <=>
              \/ range \in Active
              \/ \E r \in DOMAIN calls :
                    calls[r].phase = "first" /\ range = HighPart(r, calls[r].mid)
BY DEF Unsorted

\* A range is unsorted for a call: its own, or its second part.
LEMMA UnsortedFor ==
    ASSUME TypeInv, NEW range \in Unsorted
    PROVE  /\ range[1] \in Nat /\ range[2] \in Int /\ range[2] < Size(unsorted)
           /\ \E r \in DOMAIN calls :
                /\ Inside(range, r)
                /\ \/ range = r /\ r \in Active
                   \/ calls[r].phase = "first" /\ range = HighPart(r, calls[r].mid)
<1>1. CASE range \in Active
    BY <1>1, RangeFacts DEF Active, Inside
<1>2. ASSUME NEW r \in DOMAIN calls, calls[r].phase = "first", range = HighPart(r, calls[r].mid)
      PROVE  range[1] \in Nat /\ range[2] \in Int /\ range[2] < Size(unsorted) /\ Inside(range, r)
    BY <1>2, RangeFacts, PartFacts DEF PartsFit, Inside, Waiting
<1> QED
    BY <1>1, <1>2, UnsortedIs

\* What serves a call in its first part is below the second.
LEMMA ServesLow ==
    ASSUME TypeInv, NEW r1 \in DOMAIN calls, NEW r2 \in DOMAIN calls, Serves(r1, r2)
    PROVE  /\ r2 \notin Active
           /\ Inside(r1, r2)
           /\ calls[r2].phase = "first" => r1[2] < calls[r2].mid
<1>1. PICK part \in PartsCalled(r2) : part \in DOMAIN calls /\ Inside(r1, part)
    BY DEF Serves
<1>2. calls[r2].phase \in Waiting
    BY DEF Serves
<1> QED
    BY <1>1, <1>2, PartFacts, RangeFacts DEF PartsFit, Inside, Active

LEMMA UnsortedApart ==
    TypeInv /\ Nesting => \A r1, r2 \in Unsorted : r1 # r2 => Apart(r1, r2)
<1> SUFFICES ASSUME TypeInv, Nesting, NEW r1 \in Unsorted, NEW r2 \in Unsorted, r1 # r2
             PROVE  Apart(r1, r2)
    OBVIOUS
<1>1. PICK o1 \in DOMAIN calls :
          /\ Inside(r1, o1)
          /\ \/ r1 = o1 /\ o1 \in Active
             \/ calls[o1].phase = "first" /\ r1 = HighPart(o1, calls[o1].mid)
    BY UnsortedFor
<1>2. PICK o2 \in DOMAIN calls :
          /\ Inside(r2, o2)
          /\ \/ r2 = o2 /\ o2 \in Active
             \/ calls[o2].phase = "first" /\ r2 = HighPart(o2, calls[o2].mid)
    BY UnsortedFor
<1>3. /\ r1[1] \in Int /\ r1[2] \in Int /\ r2[1] \in Int /\ r2[2] \in Int
      /\ o1[1] \in Int /\ o1[2] \in Int /\ o2[1] \in Int /\ o2[2] \in Int
    BY UnsortedFor, RangeFacts
<1>4. o1 # o2
    BY <1>1, <1>2 DEF Active, Waiting
<1>5. CASE Apart(o1, o2)
    BY <1>1, <1>2, <1>3, <1>5 DEF Apart, Inside
<1>6. CASE Serves(o1, o2)
  <2>1. calls[o2].phase = "first" /\ r2 = HighPart(o2, calls[o2].mid) /\ o1[2] < calls[o2].mid
      BY <1>2, <1>6, ServesLow
  <2>2. calls[o2].mid \in Int /\ r2[1] = calls[o2].mid + 1
      BY <2>1, PartFacts DEF PartsFit, Waiting
  <2> QED
      BY <1>1, <1>3, <2>1, <2>2 DEF Apart, Inside
<1>7. CASE Serves(o2, o1)
  <2>1. calls[o1].phase = "first" /\ r1 = HighPart(o1, calls[o1].mid) /\ o2[2] < calls[o1].mid
      BY <1>1, <1>7, ServesLow
  <2>2. calls[o1].mid \in Int /\ r1[1] = calls[o1].mid + 1
      BY <2>1, PartFacts DEF PartsFit, Waiting
  <2> QED
      BY <1>2, <1>3, <2>1, <2>2 DEF Apart, Inside
<1> QED
    BY <1>4, <1>5, <1>6, <1>7 DEF Nesting, Nested

\* Two ranges that are apart have no place in common.
LEMMA OneRange ==
    ASSUME TypeInv, Nesting, NEW r1 \in Unsorted, NEW r2 \in Unsorted, NEW x \in Int,
           Within(x, r1), Within(x, r2)
    PROVE  r1 = r2
BY UnsortedApart, UnsortedFor DEF Apart, Within
-----------------------------------------------------------------------------
(* The array with the keys that are out of it.                             *)

FilledFacts ==
    /\ Filled \in [Places -> Elements]
    /\ \A x \in Places :
          \/ \E range \in Partitioning : x = Hole(range) /\ Filled[x] = calls[range].key
          \/ (\A range \in Partitioning : x # Hole(range)) /\ Filled[x] = array[x]

LEMMA HoleWithin ==
    ASSUME TypeInv, NEW range \in Partitioning
    PROVE  /\ range \in Active /\ Hole(range) \in Places /\ Within(Hole(range), range)
           /\ range[1] < Hole(range) /\ Hole(range) < range[2]
           /\ calls[range].key \in Elements
BY RangeFacts DEF TypeInv, CallOK, Partitioning, Hole, Active, Waiting, Places, Within

LEMMA FilledIs == TypeInv /\ Nesting => FilledFacts
<1> SUFFICES ASSUME TypeInv, Nesting PROVE FilledFacts
    OBVIOUS
<1> DEFINE at(x) == {range \in Partitioning : Hole(range) = x}
<1>1. Filled = [x \in Places |-> IF at(x) = {} THEN array[x] ELSE calls[CHOOSE range \in at(x) : TRUE].key]
    BY DEF TypeInv, Filled
<1>2. ASSUME NEW x \in Places
      PROVE  /\ at(x) = {} => Filled[x] = array[x]
             /\ at(x) # {} => \E range \in Partitioning : x = Hole(range) /\ Filled[x] = calls[range].key
    BY <1>1
<1>3. \A x \in Places : Filled[x] \in Elements
    BY <1>2, HoleWithin DEF TypeInv
<1> QED
    BY <1>1, <1>2, <1>3 DEF FilledFacts

\* What is at a place depends on nothing but the call in whose range it is.
FilledByCalls ==
    \A x \in Places :
        /\ \A range \in Unsorted : Within(x, range) =>
              Filled[x] = IF range \in Partitioning /\ x = Hole(range)
                          THEN calls[range].key ELSE array[x]
        /\ (\A range \in Active : ~Within(x, range)) => Filled[x] = array[x]

LEMMA FilledIn == TypeInv /\ Nesting => FilledByCalls
<1> SUFFICES ASSUME TypeInv, Nesting, NEW x \in Places
             PROVE  /\ \A range \in Unsorted : Within(x, range) =>
                          Filled[x] = IF range \in Partitioning /\ x = Hole(range)
                                      THEN calls[range].key ELSE array[x]
                    /\ (\A range \in Active : ~Within(x, range)) => Filled[x] = array[x]
    BY DEF FilledByCalls
<1>1. \/ \E range \in Partitioning : x = Hole(range) /\ Filled[x] = calls[range].key
      \/ (\A range \in Partitioning : x # Hole(range)) /\ Filled[x] = array[x]
    BY FilledIs DEF FilledFacts
<1>2. \A range \in Partitioning : range \in Active /\ range \in Unsorted /\ Within(Hole(range), range)
    BY HoleWithin, UnsortedIs
<1>3. x \in Int
    BY DEF Places, TypeInv
<1> QED
    BY <1>1, <1>2, <1>3, OneRange

-----------------------------------------------------------------------------
(* What a step of one call leaves to the others.                           *)

OthersStay(range) ==
    \A r \in DOMAIN calls \ {range} : r \in DOMAIN calls' /\ calls'[r] = calls[r]

\* No call serves the call of the range.
Bottom(range) == \A r \in DOMAIN calls \ {range} : Apart(range, r) \/ Serves(range, r)

LEMMA ActiveIsBottom ==
    ASSUME TypeInv, Nesting, NEW range \in Active
    PROVE  Bottom(range)
BY ServesLow DEF Active, Nesting, Nested, Bottom, Apart

LEMMA ReturnedIsBottom ==
    ASSUME TypeInv, Nesting, NEW range \in DOMAIN calls, HaveReturned(PartsCalled(range))
    PROVE  Bottom(range)
<1>1. \A r : ~Serves(r, range)
    BY DEF HaveReturned, Serves
<1> QED
    BY <1>1 DEF Nesting, Nested, Bottom, Apart

LEMMA ServesStays ==
    ASSUME NEW range, OthersStay(range), NEW r1, NEW r2 \in DOMAIN calls \ {range},
           calls[r2].phase \in Waiting,
           NEW part \in PartsCalled(r2), part \in DOMAIN calls', Inside(r1, part)
    PROVE  Serves(r1, r2)'
<1>1. calls'[r2] = calls[r2]
    BY DEF OthersStay
<1>2. PartsCalled(r2)' = PartsCalled(r2)
    BY <1>1 DEF PartsCalled, LowPart, HighPart
<1> QED
    BY <1>1, <1>2 DEF Serves, Inside

\* A call in the range can only be its own.
LEMMA NoneInside ==
    ASSUME TypeInv, NEW range \in DOMAIN calls, Bottom(range),
           NEW r \in DOMAIN calls, r # range, Inside(r, range)
    PROVE  FALSE
<1>1. /\ r[1] \in Int /\ r[2] \in Int /\ r[1] <= r[2]
      /\ range[1] \in Int /\ range[2] \in Int
    BY RangeFacts
<1>2. CASE Serves(range, r)
  <2>1. PICK part \in PartsCalled(r) : Inside(range, part) /\ calls[r].phase \in Waiting
    BY <1>2 DEF Serves
  <2> QED
    BY <1>1, <2>1, PartFacts DEF PartsFit, Inside
<1> QED
    BY <1>1, <1>2 DEF Bottom, Apart, Inside

LEMMA NestingKept ==
    ASSUME TypeInv, Nesting, TypeInv', NEW range \in DOMAIN calls, Bottom(range), OthersStay(range),
           \A r \in DOMAIN calls' \ {range} :
              \/ r \in DOMAIN calls
              \/ /\ range \in DOMAIN calls' /\ calls'[range].phase \in Waiting
                 /\ r \in PartsCalled(range)'
    PROVE  Nesting'
<1> SUFFICES ASSUME NEW r1 \in DOMAIN calls', NEW r2 \in DOMAIN calls', r1 # r2
             PROVE  Nested(r1, r2)'
    BY DEF Nesting
<1>0. /\ r1[1] \in Int /\ r1[2] \in Int /\ r2[1] \in Int /\ r2[2] \in Int
      /\ range[1] \in Int /\ range[2] \in Int
    BY RangeFacts DEF TypeInv, CallOK
\* The parts of the range.
<1>1. ASSUME NEW r \in DOMAIN calls', r # range, r \notin DOMAIN calls
      PROVE  /\ Serves(r, range)' /\ range \in DOMAIN calls' /\ Inside(r, range)
             /\ r \in {<<range[1], calls'[range].mid - 1>>, <<calls'[range].mid + 1, range[2]>>}
             /\ calls'[range].mid \in Int
  <2>1. /\ range \in DOMAIN calls' /\ calls'[range].phase \in Waiting
        /\ r \in PartsCalled(range)'
    BY <1>1
  <2>2. PartsFit'
    BY PartFacts, PTL
  <2>3. /\ r \in {<<range[1], calls'[range].mid - 1>>, <<calls'[range].mid + 1, range[2]>>}
        /\ calls'[range].mid \in Int
        /\ range[1] < calls'[range].mid /\ calls'[range].mid < range[2]
    BY <2>1, <2>2 DEF PartsFit
  <2>4. Inside(r, range) /\ Inside(r, r)
    BY <1>0, <2>3 DEF Inside
  <2> QED
    BY <1>1, <2>1, <2>3, <2>4 DEF Serves, Inside
<1>2. ASSUME NEW r \in DOMAIN calls, r # range, Inside(r, range) PROVE FALSE
    BY <1>2, NoneInside
<1>3. ASSUME NEW s1 \in DOMAIN calls, NEW s2 \in DOMAIN calls \ {range}, Serves(s1, s2),
             s1 = range => range \in DOMAIN calls'
      PROVE  Serves(s1, s2)'
  <2>1. PICK part \in PartsCalled(s2) :
            part \in DOMAIN calls /\ Inside(s1, part) /\ calls[s2].phase \in Waiting
    BY <1>3 DEF Serves
  <2>2. part \in DOMAIN calls'
    BY <1>2, <1>3, <2>1 DEF OthersStay
  <2> QED
    BY <2>1, <2>2, ServesStays
\* Who is nested with the range.
<1>4. ASSUME NEW r \in DOMAIN calls', r # range, range \in DOMAIN calls' PROVE Nested(range, r)'
  <2>1. CASE r \in DOMAIN calls
    BY <1>3, <1>4, <2>1 DEF Bottom, Nested, Apart
  <2>2. CASE r \notin DOMAIN calls
    BY <1>1, <1>4, <2>2 DEF Nested
  <2> QED
    BY <2>1, <2>2
<1>5. ASSUME NEW s1 \in DOMAIN calls', s1 # range, s1 \notin DOMAIN calls,
             NEW s2 \in DOMAIN calls', s2 # range, s2 \in DOMAIN calls
      PROVE  Nested(s1, s2)'
  <2>1. Inside(s1, range) /\ range \in DOMAIN calls'
    BY <1>1, <1>5
  <2>2. s1[1] \in Int /\ s1[2] \in Int /\ s2[1] \in Int /\ s2[2] \in Int
    BY <1>5, RangeFacts DEF TypeInv, CallOK
  <2>3. CASE Apart(range, s2)
    BY <1>0, <2>1, <2>2, <2>3 DEF Apart, Inside, Nested
  <2>4. CASE Serves(range, s2)
    <3>1. PICK part \in PartsCalled(s2) :
              part \in DOMAIN calls /\ Inside(range, part) /\ calls[s2].phase \in Waiting
      BY <2>4 DEF Serves
    <3>2. part \in DOMAIN calls'
      BY <2>1, <3>1 DEF OthersStay
    <3>3. part[1] \in Int /\ part[2] \in Int
      BY <3>1, RangeFacts
    <3>4. Inside(s1, part)
      BY <1>0, <2>1, <2>2, <3>1, <3>3 DEF Inside
    <3> QED
      BY <1>5, <3>1, <3>2, <3>4, ServesStays DEF Nested
  <2> QED
    BY <1>5, <2>3, <2>4 DEF Bottom
<1>6. CASE r1 = range \/ r2 = range
    BY <1>4, <1>6 DEF Nested, Apart
<1>7. CASE r1 # range /\ r2 # range /\ r1 \in DOMAIN calls /\ r2 \in DOMAIN calls
    BY <1>3, <1>7 DEF Nesting, Nested, Apart
<1>8. CASE r1 # range /\ r2 # range /\ r1 \notin DOMAIN calls /\ r2 \notin DOMAIN calls
    BY <1>0, <1>1, <1>8 DEF Nested, Apart
<1> QED
    BY <1>5, <1>6, <1>7, <1>8 DEF Nested, Apart

LEMMA CallReplaced ==
    ASSUME TypeInv, NEW range \in DOMAIN calls, NEW c, calls' = [calls EXCEPT ![range] = c]
    PROVE  /\ DOMAIN calls' = DOMAIN calls /\ calls'[range] = c /\ OthersStay(range)
           /\ calls' = [r \in DOMAIN calls' |-> calls'[r]]
BY DEF TypeInv, OthersStay

LEMMA CallRemoved ==
    ASSUME NEW range \in DOMAIN calls, calls' = Without(range)
    PROVE  /\ DOMAIN calls' = DOMAIN calls \ {range} /\ OthersStay(range)
           /\ calls' = [r \in DOMAIN calls' |-> calls'[r]]
BY DEF Without, OthersStay

LEMMA TypesKept ==
    ASSUME TypeInv, UNCHANGED <<unsorted, mMTThreshold>>, array' \in [Places -> Elements],
           NEW range \in DOMAIN calls, OthersStay(range),
           calls' = [r \in DOMAIN calls' |-> calls'[r]],
           \A r \in DOMAIN calls' :
              \/ r # range /\ r \in DOMAIN calls
              \/ r \in Int \X Int /\ CallOK(r)'
    PROVE  TypeInv' /\ Places' = Places
<1>1. Places' = Places /\ Size(unsorted)' = Size(unsorted)
    BY DEF Places, Size
<1>2. ASSUME NEW r \in DOMAIN calls', r # range, r \in DOMAIN calls
      PROVE  CallOK(r)' /\ r \in Int \X Int
  <2>1. CallOK(r) /\ r \in Int \X Int /\ calls'[r] = calls[r]
    BY <1>2 DEF TypeInv, OthersStay
  <2> QED
    BY <1>1, <2>1 DEF CallOK
<1> QED
    BY <1>1, <1>2 DEF TypeInv

\* A step moves nothing out of the range of its call.
MovesIn(range) ==
    /\ array' \in [Places -> Elements]
    /\ \A x \in Places : ~Within(x, range) => array'[x] = array[x]

LEMMA ProgressKept ==
    ASSUME TypeInv, Nesting, Progress, Places' = Places, NEW range \in DOMAIN calls, OthersStay(range),
           array' = array \/ (range \in Active /\ MovesIn(range)),
           NEW r \in DOMAIN calls \ {range}
    PROVE  Inserted(r)' /\ Partitioned(r)'
<1>1. calls'[r] = calls[r]
    BY DEF OthersStay
<1>2. Inserted(r) /\ Partitioned(r)
    BY DEF Progress
<1>3. \/ r \notin Active
      \/ \A x \in Places : Within(x, r) => array'[x] = array[x]
  <2>1. CASE range \in Active /\ MovesIn(range) /\ r \in Active
    <3>1. range \in Unsorted /\ r \in Unsorted
      BY <2>1, UnsortedIs
    <3>2. \A x \in Places : x \in Int
      BY DEF Places, TypeInv
    <3> QED
      BY <2>1, <3>1, <3>2, OneRange DEF MovesIn
  <2> QED
    BY <2>1
<1>4. CASE r \notin Active
    BY <1>1, <1>4 DEF Active, Waiting, Inserted, Partitioned
<1>5. CASE r \in Active /\ \A x \in Places : Within(x, r) => array'[x] = array[x]
  <2>1. Inserted(r)'
    <3> SUFFICES ASSUME calls[r].phase = "inserting", NEW x \in Places, NEW y \in Places,
                        r[1] <= x, x < y, y < calls[r].j, y <= r[2]
                 PROVE  NotLess(array'[y], array'[x])
      BY <1>1 DEF Inserted, NotLess
    <3>1. Within(x, r) /\ Within(y, r)
      BY RangeFacts DEF Within, Places, TypeInv
    <3> QED
      BY <1>2, <1>5, <3>1 DEF Inserted
  <2>2. Partitioned(r)'
    <3> SUFFICES ASSUME calls[r].phase \in {"fromRight", "fromLeft"}, NEW x \in Places,
                        \/ r[1] <= x /\ x < calls[r].i
                        \/ calls[r].j < x /\ x <= r[2]
                 PROVE  array'[x] = array[x]
      BY <1>1, <1>2 DEF Partitioned, NotLess
    <3>1. CallOK(r)
      BY DEF TypeInv
    <3>2. Within(x, r)
      BY <3>1 DEF Within, Places, TypeInv, CallOK
    <3> QED
      BY <1>5, <3>2
  <2> QED
    BY <2>1, <2>2
<1> QED
    BY <1>3, <1>4, <1>5

LEMMA FilledKept ==
    ASSUME TypeInv, Nesting, TypeInv', Nesting', Places' = Places, NEW range \in Unsorted,
           \A r \in Active \ {range} : r \in Active' /\ calls'[r] = calls[r],
           \A r \in Active' \ {range} : r \in Active \/ Inside(r, range),
           \A x \in Places : ~Within(x, range) => array'[x] = array[x],
           NEW x \in Places, ~Within(x, range)
    PROVE  Filled'[x] = Filled[x]
<1>1. FilledByCalls /\ FilledByCalls'
    BY FilledIn, PTL
<1>2. Active \subseteq Unsorted /\ Active' \subseteq Unsorted'
    BY DEF Unsorted
<1>3. ASSUME NEW r \in Active, Within(x, r)
      PROVE  Filled'[x] = Filled[x]
  <2>1. r \in Active' /\ calls'[r] = calls[r]
    BY <1>3
  <2>2. (r \in Partitioning)' <=> r \in Partitioning
    BY <1>3, <2>1 DEF Partitioning, Active
  <2>3. Hole(r)' = Hole(r)
    BY <2>1 DEF Hole
  <2>4. Filled'[x] = IF r \in Partitioning /\ x = Hole(r) THEN calls[r].key ELSE array'[x]
    BY <1>1, <1>2, <1>3, <2>1, <2>2, <2>3 DEF FilledByCalls, Within
  <2> QED
    BY <1>1, <1>2, <1>3, <2>4 DEF FilledByCalls
<1>4. ASSUME \A r \in Active : ~Within(x, r)
      PROVE  Filled'[x] = Filled[x]
  <2>1. ASSUME NEW r \in Active', Within(x, r) PROVE FALSE
    <3>1. r # range /\ r \notin Active
      BY <1>4, <2>1
    <3>2. Inside(r, range)
      BY <3>1
    <3>3. r[1] \in Int /\ r[2] \in Int
      BY DEF TypeInv, CallOK, Active
    <3>4. range[1] \in Int /\ range[2] \in Int /\ x \in Int
      BY UnsortedFor DEF TypeInv, CallOK, Active, Places
    <3> QED
      BY <2>1, <3>2, <3>3, <3>4 DEF Inside, Within
  <2>2. Filled'[x] = array'[x]
    BY <1>1, <2>1 DEF FilledByCalls, Within
  <2> QED
    BY <1>1, <1>4, <2>2 DEF FilledByCalls
<1> QED
    BY <1>3, <1>4

LEMMA SettledKept ==
    ASSUME TypeInv, Nesting, Settled, Rearranged, Places' = Places, UNCHANGED unsorted,
           NEW range \in Unsorted, Shuffled(Filled', Filled, Places, range),
           \A r \in Unsorted \ {range} : r \in Unsorted',
           \A x, y \in Places : x < y /\ Within(x, range) /\ Within(y, range) =>
              Together(x, y)' \/ NotLess(Filled'[y], Filled'[x])
    PROVE  Settled' /\ Rearranged'
<1>1. PICK g \in Bijection(Places, Places) :
          /\ \A x \in Places : Within(x, range) => Within(g[x], range)
          /\ \A x \in Places : ~Within(x, range) => g[x] = x
          /\ Filled' = [x \in Places |-> Filled[g[x]]]
    BY DEF Shuffled
<1>2. g \in [Places -> Places]
    BY <1>1 DEF Bijection, Injection
<1>3. Rearranged'
  <2>1. PICK f \in Bijection(Places, Places) : Filled = [x \in Places |-> unsorted[f[x]]]
    BY DEF Rearranged
  <2> DEFINE h == [x \in Places |-> f[g[x]]]
  <2>2. h \in Bijection(Places, Places)
    BY <1>1, Fun_BijTransitive
  <2>3. Filled' = [x \in Places |-> unsorted[h[x]]]
    BY <1>1, <1>2, <2>1
  <2> HIDE DEF h
  <2> QED
    BY <2>2, <2>3 DEF Rearranged
<1>4. Settled'
  <2> SUFFICES ASSUME NEW x \in Places, NEW y \in Places, x < y, ~Together(x, y)'
               PROVE  NotLess(Filled'[y], Filled'[x])
    BY DEF Settled, NotLess
  <2>0. /\ \A z \in Places : z \in Int
        /\ range[1] \in Int /\ range[2] \in Int
    BY UnsortedFor DEF Places, TypeInv
  <2>1. /\ Filled'[x] = Filled[g[x]] /\ Filled'[y] = Filled[g[y]]
        /\ g[x] \in Places /\ g[y] \in Places
    BY <1>1, <1>2
  <2>2. ASSUME ~Within(x, range) \/ ~Within(y, range)
        PROVE  g[x] < g[y] /\ ~Together(g[x], g[y])
    <3>1. g[x] < g[y] /\ (~Within(g[x], range) \/ ~Within(g[y], range))
      BY <1>1, <2>0, <2>1, <2>2 DEF Within
    <3>2. ASSUME NEW r \in Unsorted, Within(g[x], r), Within(g[y], r) PROVE FALSE
      <4>1. r # range /\ r \in Unsorted'
        BY <3>1, <3>2
      <4>2. ~Within(g[x], range) /\ ~Within(g[y], range)
        BY <2>0, <2>1, <3>2, <4>1, OneRange
      <4>3. g[x] = x /\ g[y] = y
        BY <1>1, <4>2
      <4> QED
        BY <3>2, <4>1, <4>3 DEF Together, Within
    <3> QED
      BY <3>1, <3>2 DEF Together
  <2> QED
    BY <2>1, <2>2 DEF Settled
<1> QED
    BY <1>3, <1>4

LEMMA ShuffledLikewise ==
    ASSUME NEW S, NEW V, NEW a \in [S -> V], NEW b, NEW range, Shuffled(b, a, S, range),
           NEW a2 \in [S -> V], NEW b2 \in [S -> V],
           \A x \in S : Within(x, range) => a2[x] = a[x] /\ b2[x] = b[x],
           \A x \in S : ~Within(x, range) => b2[x] = a2[x]
    PROVE  Shuffled(b2, a2, S, range)
<1>1. PICK g \in Bijection(S, S) :
          /\ \A x \in S : Within(x, range) => Within(g[x], range)
          /\ \A x \in S : ~Within(x, range) => g[x] = x
          /\ b = [x \in S |-> a[g[x]]]
    BY DEF Shuffled
<1>2. g \in [S -> S]
    BY <1>1 DEF Bijection, Injection
<1>3. \A x \in S : b2[x] = a2[g[x]]
    BY <1>1, <1>2
<1>4. b2 = [x \in S |-> a2[g[x]]]
    BY <1>3
<1> QED
    BY <1>1, <1>4 DEF Shuffled

\* What belongs at a place in the range of a call c.
Belongs(a, c, x) ==
    IF c.phase \in {"fromRight", "fromLeft"} /\ x = (IF c.phase = "fromRight" THEN c.i ELSE c.j)
    THEN c.key ELSE a[x]

LEMMA BelongsInRange ==
    ASSUME TypeInv, Nesting, NEW range \in Active, NEW x \in Places, Within(x, range)
    PROVE  Filled[x] = Belongs(array, calls[range], x)
<1>1. range \in Unsorted /\ (range \in Partitioning <=> calls[range].phase \in {"fromRight", "fromLeft"})
    BY UnsortedIs DEF Active, Partitioning
<1> QED
    BY <1>1, FilledIn DEF FilledByCalls, Belongs, Hole

\* A step of a call that stays at work on its range.
LEMMA WorkStep ==
    ASSUME Inv, NEW range \in Active, NEW c, calls' = [calls EXCEPT ![range] = c],
           UNCHANGED <<unsorted, mMTThreshold>>, MovesIn(range),
           CallOK(range)', c.phase \notin Waiting, Inserted(range)', Partitioned(range)',
           Shuffled([x \in Places |-> IF Within(x, range) THEN Belongs(array', c, x) ELSE Filled[x]],
                    Filled, Places, range)
    PROVE  Inv'
<1>0. TypeInv /\ Nesting /\ Progress /\ Settled /\ Rearranged /\ range \in DOMAIN calls
    BY DEF Inv, Active
<1>1. /\ DOMAIN calls' = DOMAIN calls /\ calls'[range] = c /\ OthersStay(range)
      /\ calls' = [r \in DOMAIN calls' |-> calls'[r]]
    BY <1>0, CallReplaced
<1>2. TypeInv' /\ Places' = Places
    BY <1>0, <1>1, TypesKept DEF MovesIn, TypeInv
<1>3. Nesting'
    BY <1>0, <1>1, <1>2, ActiveIsBottom, NestingKept
<1>4. Progress'
    BY <1>0, <1>1, <1>2, ProgressKept DEF Progress
<1>5. Active' = Active /\ Unsorted' = Unsorted
  <2>1. \A r \in DOMAIN calls : r # range => calls'[r] = calls[r]
    BY <1>1 DEF OthersStay
  <2>2. Active' = Active
    BY <1>1, <2>1 DEF Active
  <2>3. /\ \A r \in DOMAIN calls : calls'[r].phase = "first" <=> calls[r].phase = "first"
        /\ \A r \in DOMAIN calls : calls[r].phase = "first" => calls'[r] = calls[r]
    BY <1>1, <2>1 DEF Active, Waiting
  <2> QED
    BY <1>1, <2>2, <2>3 DEF Unsorted, HighPart
<1>6. range \in Unsorted /\ Active \subseteq Unsorted
    BY DEF Unsorted
<1>7. ASSUME NEW x \in Places, ~Within(x, range) PROVE Filled'[x] = Filled[x]
    BY <1>0, <1>1, <1>2, <1>3, <1>5, <1>6, <1>7, FilledKept DEF OthersStay, MovesIn, Active
<1>8. ASSUME NEW x \in Places, Within(x, range) PROVE Filled'[x] = Belongs(array', c, x)
  <2>1. FilledByCalls'
    BY <1>2, <1>3, FilledIn, PTL
  <2>2. (range \in Partitioning)' <=> c.phase \in {"fromRight", "fromLeft"}
    BY <1>0, <1>1 DEF Partitioning
  <2>3. Filled'[x] = IF (range \in Partitioning)' /\ x = Hole(range)' THEN c.key ELSE array'[x]
    BY <1>1, <1>2, <1>5, <1>6, <1>8, <2>1 DEF FilledByCalls, Within
  <2> QED
    BY <1>1, <2>2, <2>3 DEF Belongs, Hole
<1>9. Filled' \in [Places -> Elements]
  <2>1. FilledFacts'
    BY <1>2, <1>3, FilledIs, PTL
  <2> QED
    BY <1>2, <2>1 DEF FilledFacts
<1>10. Filled' = [x \in Places |-> IF Within(x, range) THEN Belongs(array', c, x) ELSE Filled[x]]
    BY <1>7, <1>8, <1>9
<1>11. Shuffled(Filled', Filled, Places, range)
    BY <1>10
<1>12. \A x, y \in Places : Within(x, range) /\ Within(y, range) => Together(x, y)'
    BY <1>5, <1>6 DEF Together, Within
<1>13. Settled' /\ Rearranged'
    BY <1>0, <1>2, <1>5, <1>6, <1>11, <1>12, SettledKept
<1> QED
    BY <1>2, <1>3, <1>4, <1>13 DEF Inv

-----------------------------------------------------------------------------
(* The steps of a call that stays at work.                                 *)

LEMMA FilledType ==
    ASSUME TypeInv, Nesting
    PROVE  Filled \in [Places -> Elements] /\ \A x \in Places : x \in Int
BY FilledIs DEF FilledFacts, Places, TypeInv

LEMMA BeginShortKeeps ==
    ASSUME Inv, NEW range \in DOMAIN calls, BeginShort(range)
    PROVE  Inv'
<1> DEFINE c == [phase |-> "inserting", j |-> range[1] + 1]
<1>1. /\ TypeInv /\ Nesting /\ calls[range].phase = "called" /\ range \in Active
      /\ calls' = [calls EXCEPT ![range] = c] /\ UNCHANGED <<array, unsorted, mMTThreshold>>
      /\ range[1] \in Int /\ range[2] \in Int
    BY RangeFacts DEF Inv, BeginShort, InPhase, Active, Waiting
<1>2. calls'[range] = c
    BY <1>1, CallReplaced DEF Active
<1>3. MovesIn(range)
    BY <1>1 DEF MovesIn, TypeInv
<1>4. CallOK(range)'
    BY <1>1, <1>2 DEF TypeInv, CallOK, Phases, Waiting, Size
<1>5. Inserted(range)' /\ Partitioned(range)'
    BY <1>1, <1>2, FilledType DEF Inserted, Partitioned, Places, TypeInv
<1>6. Filled = [x \in Places |-> IF Within(x, range) THEN Belongs(array', c, x) ELSE Filled[x]]
  <2>1. ASSUME NEW x \in Places, Within(x, range) PROVE Filled[x] = Belongs(array', c, x)
      BY <1>1, <2>1, BelongsInRange DEF Belongs
  <2> QED
      BY <1>1, <2>1, FilledType
<1>7. Shuffled(Filled, Filled, Places, range)
    BY <1>1, FilledType, NotShuffled
<1>8. c.phase \notin Waiting
    BY DEF Waiting
<1> HIDE DEF c
<1> QED
    BY <1>1, <1>3, <1>4, <1>5, <1>6, <1>7, <1>8, WorkStep

LEMMA InsertNextKeeps ==
    ASSUME Inv, NEW range \in DOMAIN calls, InsertNext(range)
    PROVE  Inv'
<1> DEFINE left == range[1]
           j == calls[range].j
           c == [phase |-> "inserting", j |-> j + 1]
           filled == [x \in Places |-> IF Within(x, range) THEN Belongs(array', c, x) ELSE Filled[x]]
<1>1. /\ TypeInv /\ Nesting /\ calls[range].phase = "inserting" /\ range \in Active
      /\ j <= range[2] /\ array' = Insert(array, j, left, 1, SortOrder)
      /\ calls' = [calls EXCEPT ![range] = c] /\ UNCHANGED <<unsorted, mMTThreshold>>
    BY DEF Inv, InsertNext, InPhase, Active, Waiting
<1>2. calls'[range] = c
    BY <1>1, CallReplaced DEF Active
<1>3. /\ left \in Nat /\ range[2] \in Int /\ range[2] < Size(unsorted) /\ j \in Int /\ left < j
      /\ left..j \subseteq Places /\ Places \subseteq Int /\ Size(unsorted) \in Nat
      /\ array \in [Places -> Elements]
      /\ left \in Int /\ left <= j /\ range[1] \in Int /\ range[1] <= left
  <2>1. CallOK(range)
    BY <1>1 DEF TypeInv
  <2> QED
    BY <1>1, <2>1 DEF CallOK, TypeInv, Places
<1> HIDE DEF left, j
<1>4. PICK slot : InsertedAt(array', array, slot, left, j, Places)
    BY ONLY <1>1, <1>3, InsertFindsSlot
<1>5. Shuffled(array', array, Places, range)
    BY ONLY <1>1, <1>3, <1>4, InsertShuffles
<1>6. array' \in [Places -> Elements] /\ MovesIn(range)
    BY <1>3, <1>5, ShuffledOutside DEF MovesIn
<1>7. CallOK(range)'
  <2>1. CallOK(range)
    BY <1>1 DEF TypeInv
  <2> QED
    BY <1>1, <1>2, <1>3, <2>1 DEF CallOK, Phases, Waiting, Size, left
<1>8. Inserted(range)' /\ Partitioned(range)'
  <2>1. Inserted(range)
    BY DEF Inv, Progress
  <2>2. \A x, y \in left..(j - 1) : x < y => NotLess(array[y], array[x])
    BY <1>1, <1>3, <2>1 DEF Inserted, left, j
  <2>3. \A x, y \in left..j : x < y => NotLess(array'[y], array'[x])
    BY ONLY <1>3, <1>4, <2>2, InsertKeepsOrder
  <2>4. Places' = Places
    BY <1>1 DEF Places, Size
  <2>5. Inserted(range)'
    BY <1>2, <1>3, <2>3, <2>4 DEF Inserted, left, NotLess
  <2> QED
    BY <1>2, <2>5 DEF Partitioned
<1>9. filled \in [Places -> Elements]
    BY <1>1, <1>6, FilledType DEF Belongs
<1>10. ASSUME NEW x \in Places, Within(x, range)
       PROVE  Filled[x] = array[x] /\ filled[x] = array'[x]
    BY <1>1, <1>10, BelongsInRange DEF Belongs
<1>11. \A x \in Places : ~Within(x, range) => filled[x] = Filled[x]
    OBVIOUS
<1>12. Filled \in [Places -> Elements]
    BY <1>1, FilledType
<1>13. c.phase \notin Waiting
    BY DEF Waiting
<1> HIDE DEF filled
<1>14. Shuffled(filled, Filled, Places, range)
    BY ONLY <1>3, <1>5, <1>9, <1>10, <1>11, <1>12, ShuffledLikewise
<1> HIDE DEF c
<1> QED
    BY <1>1, <1>6, <1>7, <1>8, <1>13, <1>14, WorkStep DEF filled

LEMMA BeginPartitionKeeps ==
    ASSUME Inv, NEW range \in DOMAIN calls, BeginPartition(range)
    PROVE  Inv'
<1> DEFINE left == range[1]
           right == range[2]
           c == PartitionFrom("fromRight", left + 1, right - 1, array'[left + 1])
           filled == [x \in Places |-> IF Within(x, range) THEN Belongs(array', c, x) ELSE Filled[x]]
<1>1. /\ TypeInv /\ Nesting /\ calls[range].phase = "called" /\ range \in Active
      /\ right - left >= sThreshold /\ array' = MedianOfThree(array, left, right, SortOrder)
      /\ calls' = [calls EXCEPT ![range] = c] /\ UNCHANGED <<unsorted, mMTThreshold>>
    BY DEF Inv, BeginPartition, InPhase, Active, Waiting
<1>2. calls'[range] = c
    BY <1>1, CallReplaced DEF Active
<1>3. /\ left \in Nat /\ right \in Int /\ right < Size(unsorted) /\ range = <<left, right>>
      /\ left + 2 <= right /\ left..right \subseteq Places /\ Places \subseteq Int
      /\ array \in [Places -> Elements]
    BY <1>1, RangeFacts, Threshold DEF TypeInv, Places
<1>4. /\ Shuffled(array', array, Places, range)
      /\ NotLess(array'[left + 1], array'[left]) /\ NotLess(array'[right], array'[left + 1])
    BY <1>1, <1>3, MedianShuffles
<1>5. array' \in [Places -> Elements] /\ MovesIn(range)
  <2>1. array' \in [Places -> Elements] /\ \A x \in Places : ~Within(x, range) => array'[x] = array[x]
    BY ONLY <1>3, <1>4, ShuffledOutside
  <2> QED
    BY ONLY <2>1 DEF MovesIn
<1>6. CallOK(range)'
  <2>1. array'[left + 1] \in Elements
    BY <1>3, <1>5
  <2>2. c = [phase |-> "fromRight", i |-> left + 1, j |-> right - 1, key |-> array'[left + 1]]
    BY DEF PartitionFrom
  <2> QED
    BY <1>1, <1>2, <1>3, <2>1, <2>2 DEF CallOK, Phases, Waiting, Size
<1>7. Inserted(range)' /\ Partitioned(range)'
  <2>1. Places' = Places
    BY <1>1 DEF Places, Size
  <2> QED
    BY <1>2, <1>3, <1>4, <2>1 DEF Inserted, Partitioned, PartitionFrom, NotLess
<1>8. ASSUME NEW x \in Places, Within(x, range)
      PROVE  Filled[x] = array[x] /\ filled[x] = array'[x]
    BY <1>1, <1>8, BelongsInRange DEF Belongs, PartitionFrom
<1>9. \A x \in Places : ~Within(x, range) => filled[x] = Filled[x]
    OBVIOUS
<1>10. Filled \in [Places -> Elements]
    BY <1>1, FilledType
<1>11. filled \in [Places -> Elements]
    BY <1>5, <1>8, <1>10
<1>12. c.phase \notin Waiting
    BY DEF Waiting, PartitionFrom
<1> HIDE DEF filled
<1>13. Shuffled(filled, Filled, Places, range)
    BY <1>3, <1>4, <1>8, <1>9, <1>10, <1>11, ShuffledLikewise
<1> HIDE DEF c
<1> QED
    BY <1>1, <1>5, <1>6, <1>7, <1>12, <1>13, WorkStep DEF filled

\* Where the two ends of a partition are.
LEMMA PartitionFacts ==
    ASSUME Inv, NEW range \in DOMAIN calls, calls[range].phase \in {"fromRight", "fromLeft"}
    PROVE  LET c == calls[range]
           IN /\ range \in Active
              /\ range[1] \in Nat /\ range[2] \in Int /\ range[2] < Size(unsorted)
              /\ c.i \in Int /\ c.j \in Int /\ range[1] < c.i /\ c.i <= c.j /\ c.j < range[2]
              /\ c.key \in Elements
              /\ range[1]..range[2] \subseteq Places
              /\ \A x \in range[1]..range[2] : Within(x, range)
<1>1. CallOK(range) /\ Size(unsorted) \in Nat
    BY DEF Inv, TypeInv
<1> QED
    BY <1>1 DEF CallOK, Active, Waiting, Places, Within

\* The key stays where it is, or changes places with the element that is
\* moved.
LEMMA HoleMoves ==
    ASSUME Inv, NEW range \in Active, NEW c, NEW hole, NEW stop,
           hole \in Places, stop \in Places, Within(hole, range), Within(stop, range),
           calls[range].phase \in {"fromRight", "fromLeft"}, hole = Hole(range),
           c.phase \in {"fromRight", "fromLeft"},
           stop = (IF c.phase = "fromRight" THEN c.i ELSE c.j), c.key = calls[range].key,
           array' = [array EXCEPT ![hole] = IF stop = hole THEN array[hole] ELSE array[stop]]
    PROVE  /\ MovesIn(range)
           /\ Shuffled([x \in Places |-> IF Within(x, range) THEN Belongs(array', c, x) ELSE Filled[x]],
                       Filled, Places, range)
<1> DEFINE filled == [x \in Places |-> IF Within(x, range) THEN Belongs(array', c, x) ELSE Filled[x]]
<1>1. /\ TypeInv /\ Nesting /\ array \in [Places -> Elements] /\ range \in Partitioning
      /\ Filled \in [Places -> Elements]
    BY FilledType DEF Inv, TypeInv, Partitioning, Active
<1>2. MovesIn(range)
    BY <1>1 DEF MovesIn
<1>3. \A x \in Places : Within(x, range) =>
          Filled[x] = IF x = hole THEN calls[range].key ELSE array[x]
    BY <1>1, BelongsInRange DEF Belongs, Hole
<1>4. \A x \in Places : Within(x, range) => filled[x] = IF x = stop THEN calls[range].key ELSE array'[x]
    BY DEF Belongs
<1>5. \A x \in Places : filled[x] = Swap(Filled, hole, stop)[x]
  <2> TAKE x \in Places
  <2>1. Swap(Filled, hole, stop)[x]
            = IF x = stop THEN Filled[hole] ELSE IF x = hole THEN Filled[stop] ELSE Filled[x]
    BY <1>1 DEF Swap
  <2>2. CASE Within(x, range)
    BY <1>1, <1>3, <1>4, <2>1, <2>2
  <2>3. CASE ~Within(x, range)
    BY <2>1, <2>3
  <2> QED
    BY <2>2, <2>3
<1>6. filled = Swap(Filled, hole, stop)
    BY <1>1, <1>5 DEF Swap
<1>7. Shuffled(Swap(Filled, hole, stop), Filled, Places, range)
    BY <1>1, SwapShuffles
<1> QED
    BY <1>2, <1>6, <1>7

LEMMA TakeFromRightKeeps ==
    ASSUME Inv, NEW range \in DOMAIN calls, TakeFromRight(range)
    PROVE  Inv'
<1> DEFINE left  == range[1]
           right == range[2]
           i     == calls[range].i
           j     == calls[range].j
           key   == calls[range].key
           stop  == FromRight(array, i, j, key, SortOrder)
           c     == IF i < stop THEN PartitionFrom("fromLeft", i + 1, stop, key)
                ELSE PartitionFrom("fromRight", i, i, key)
<1>1. /\ TypeInv /\ Nesting /\ calls[range].phase = "fromRight" /\ range \in Active
      /\ left \in Nat /\ right \in Int /\ right < Size(unsorted)
      /\ i \in Int /\ j \in Int /\ left < i /\ i <= j /\ i < j /\ j < right /\ key \in Elements
      /\ left..right \subseteq Places /\ \A x \in left..right : Within(x, range)
      /\ Places \subseteq Int /\ array \in [Places -> Elements]
      /\ UNCHANGED <<unsorted, mMTThreshold>> /\ Places' = Places
    BY PartitionFacts DEF Inv, TypeInv, TakeFromRight, InPhase, Places, Size
<1>2. /\ stop \in i..j
      /\ stop # i => NotLess(key, array[stop])
      /\ \A x \in i..j : x > stop => Less(SortOrder, key, array[x])
    BY ONLY <1>1, FoundFromRight
<1>3. /\ calls' = [calls EXCEPT ![range] = c]
      /\ array' = [array EXCEPT ![i] = IF stop = i THEN array[i] ELSE array[stop]]
    BY <1>1, <1>2 DEF TakeFromRight
<1>4. calls'[range] = c
    BY <1>1, <1>3, CallReplaced DEF Active
<1>5. /\ stop \in Places /\ i \in Places /\ Within(stop, range) /\ Within(i, range)
      /\ i = Hole(range)
    BY <1>1, <1>2 DEF Hole
<1> HIDE DEF stop
<1>6. /\ c.phase \in {"fromRight", "fromLeft"} /\ c.key = key
      /\ stop = (IF c.phase = "fromRight" THEN c.i ELSE c.j)
      /\ c.i \in Int /\ c.j \in Int /\ left < c.i /\ c.i <= c.j /\ c.j < right
    BY <1>1, <1>2 DEF PartitionFrom
<1>7. /\ MovesIn(range)
      /\ Shuffled([x \in Places |-> IF Within(x, range) THEN Belongs(array', c, x) ELSE Filled[x]],
                  Filled, Places, range)
    BY <1>1, <1>3, <1>5, <1>6, HoleMoves
<1>8. CallOK(range)'
  <2>1. Size(unsorted)' = Size(unsorted) /\ left <= right
    BY <1>1, <1>6 DEF Size
  <2> HIDE DEF c
  <2> QED
    BY ONLY <1>1, <1>4, <1>6, <2>1 DEF CallOK, Phases, Waiting
<1>9. Inserted(range)' /\ Partitioned(range)'
  <2>2. Partitioned(range)
      BY <1>1 DEF Inv, Progress
  <2>3. \A x \in Places : x \in Int
      BY <1>1
  <2>4. ASSUME NEW x \in Places, left <= x, x < c.i PROVE NotLess(key, array'[x])
      BY <1>1, <1>2, <1>3, <2>2, <2>4 DEF Partitioned, PartitionFrom
  <2>5. ASSUME NEW x \in Places, c.j < x, x <= right PROVE NotLess(array'[x], key)
    <3>1. array'[x] = array[x] /\ array[x] \in Elements
      BY <1>1, <1>2, <1>3, <2>5 DEF PartitionFrom
    <3>2. CASE x <= j
      BY <1>1, <1>2, <2>5, <3>1, <3>2, Order DEF PartitionFrom
    <3>3. CASE x > j
      BY <1>1, <2>2, <2>5, <3>1, <3>3 DEF Partitioned
    <3> QED
      BY <1>1, <2>3, <3>2, <3>3
  <2>6. Partitioned(range)'
      BY <1>1, <1>4, <1>6, <2>4, <2>5 DEF Partitioned, NotLess
  <2> QED
      BY <1>4, <1>6, <2>6 DEF Inserted
<1>10. c.phase \notin Waiting
    BY <1>6 DEF Waiting
<1> HIDE DEF c
<1> QED
    BY <1>1, <1>3, <1>7, <1>8, <1>9, <1>10, WorkStep

LEMMA TakeFromLeftKeeps ==
    ASSUME Inv, NEW range \in DOMAIN calls, TakeFromLeft(range)
    PROVE  Inv'
<1> DEFINE left  == range[1]
           right == range[2]
           i     == calls[range].i
           j     == calls[range].j
           key   == calls[range].key
           stop  == FromLeft(array, i, j, key, SortOrder)
           c     == IF stop < j THEN PartitionFrom("fromRight", stop, j - 1, key)
                ELSE PartitionFrom("fromLeft", j, j, key)
<1>1. /\ TypeInv /\ Nesting /\ calls[range].phase = "fromLeft" /\ range \in Active
      /\ left \in Nat /\ right \in Int /\ right < Size(unsorted)
      /\ i \in Int /\ j \in Int /\ left < i /\ i <= j /\ i < j /\ j < right /\ key \in Elements
      /\ left..right \subseteq Places /\ \A x \in left..right : Within(x, range)
      /\ Places \subseteq Int /\ array \in [Places -> Elements]
      /\ UNCHANGED <<unsorted, mMTThreshold>> /\ Places' = Places
    BY PartitionFacts DEF Inv, TypeInv, TakeFromLeft, InPhase, Places, Size
<1>2. /\ stop \in i..j
      /\ stop # j => NotLess(array[stop], key)
      /\ \A x \in i..j : x < stop => Less(SortOrder, array[x], key)
    BY ONLY <1>1, FoundFromLeft
<1>3. /\ calls' = [calls EXCEPT ![range] = c]
      /\ array' = [array EXCEPT ![j] = IF stop = j THEN array[j] ELSE array[stop]]
    BY <1>1, <1>2 DEF TakeFromLeft
<1>4. calls'[range] = c
    BY <1>1, <1>3, CallReplaced DEF Active
<1>5. /\ stop \in Places /\ j \in Places /\ Within(stop, range) /\ Within(j, range)
      /\ j = Hole(range)
    BY <1>1, <1>2 DEF Hole
<1> HIDE DEF stop
<1>6. /\ c.phase \in {"fromRight", "fromLeft"} /\ c.key = key
      /\ stop = (IF c.phase = "fromRight" THEN c.i ELSE c.j)
      /\ c.i \in Int /\ c.j \in Int /\ left < c.i /\ c.i <= c.j /\ c.j < right
    BY <1>1, <1>2 DEF PartitionFrom
<1>7. /\ MovesIn(range)
      /\ Shuffled([x \in Places |-> IF Within(x, range) THEN Belongs(array', c, x) ELSE Filled[x]],
                  Filled, Places, range)
    BY <1>1, <1>3, <1>5, <1>6, HoleMoves
<1>8. CallOK(range)'
  <2>1. Size(unsorted)' = Size(unsorted) /\ left <= right
    BY <1>1, <1>6 DEF Size
  <2> HIDE DEF c
  <2> QED
    BY ONLY <1>1, <1>4, <1>6, <2>1 DEF CallOK, Phases, Waiting
<1>9. Inserted(range)' /\ Partitioned(range)'
  <2>2. Partitioned(range)
      BY <1>1 DEF Inv, Progress
  <2>3. \A x \in Places : x \in Int
      BY <1>1
  <2>4. ASSUME NEW x \in Places, left <= x, x < c.i PROVE NotLess(key, array'[x])
    <3>1. array'[x] = array[x] /\ array[x] \in Elements
      BY <1>1, <1>2, <1>3, <2>4 DEF PartitionFrom
    <3>2. CASE x >= i
      BY <1>1, <1>2, <2>4, <3>1, <3>2, Order DEF PartitionFrom
    <3>3. CASE x < i
      BY <1>1, <2>2, <2>4, <3>1, <3>3 DEF Partitioned
    <3> QED
      BY <1>1, <2>3, <3>2, <3>3
  <2>5. ASSUME NEW x \in Places, c.j < x, x <= right PROVE NotLess(array'[x], key)
      BY <1>1, <1>2, <1>3, <2>2, <2>5 DEF Partitioned, PartitionFrom
  <2>6. Partitioned(range)'
      BY <1>1, <1>4, <1>6, <2>4, <2>5 DEF Partitioned, NotLess
  <2> QED
      BY <1>4, <1>6, <2>6 DEF Inserted
<1>10. c.phase \notin Waiting
    BY <1>6 DEF Waiting
<1> HIDE DEF c
<1> QED
    BY <1>1, <1>3, <1>7, <1>8, <1>9, <1>10, WorkStep

-----------------------------------------------------------------------------
(* The steps with which a call begins to wait, or returns.                 *)

LEMMA FilledSame ==
    ASSUME TypeInv, Nesting, TypeInv', Nesting', Places' = Places, NEW range \in Unsorted,
           \A r \in Active \ {range} : r \in Active' /\ calls'[r] = calls[r],
           \A r \in Active' \ {range} : r \in Active \/ Inside(r, range),
           \A x \in Places : array'[x] = IF Within(x, range) THEN Filled[x] ELSE array[x],
           \A r \in Active' : r \in Active \ {range} \/ calls'[r].phase = "called"
    PROVE  Filled' = Filled
<1>1. FilledByCalls'
    BY FilledIn, PTL
<1>2. ASSUME NEW x \in Places PROVE Filled'[x] = Filled[x]
  <2>1. CASE ~Within(x, range)
    BY <2>1, FilledKept
  <2>2. CASE Within(x, range)
    <3>1. ASSUME NEW r \in Active', Within(x, r) PROVE calls'[r].phase = "called"
      BY <2>2, <3>1, FilledType, UnsortedIs, OneRange
    <3>2. \A r \in Active' : r \in Unsorted' /\ (Within(x, r) => r \notin Partitioning')
      BY <3>1 DEF Unsorted, Partitioning
    <3>3. Filled'[x] = array'[x]
      BY <1>1, <3>2 DEF FilledByCalls, Within
    <3> QED
      BY <2>2, <3>3
  <2> QED
    BY <2>1, <2>2
<1>3. Filled' \in [Places -> Elements] /\ Filled \in [Places -> Elements]
  <2>1. FilledFacts'
    BY FilledIs, PTL
  <2> QED
    BY <2>1, FilledType DEF FilledFacts
<1> QED
    BY <1>2, <1>3

LEMMA EndInsertionKeeps ==
    ASSUME Inv, NEW range \in DOMAIN calls, EndInsertion(range)
    PROVE  Inv'
<1>1. /\ TypeInv /\ Nesting /\ Progress /\ Settled /\ Rearranged
      /\ calls[range].phase = "inserting" /\ calls[range].j > range[2]
      /\ range \in Active /\ range \in Unsorted
      /\ calls' = Without(range) /\ UNCHANGED <<array, unsorted, mMTThreshold>>
    BY DEF Inv, EndInsertion, InPhase, Active, Waiting, Unsorted
<1>2. /\ DOMAIN calls' = DOMAIN calls \ {range} /\ OthersStay(range)
      /\ calls' = [r \in DOMAIN calls' |-> calls'[r]]
    BY <1>1, CallRemoved
<1>3. TypeInv' /\ Places' = Places
    BY <1>1, <1>2, TypesKept DEF TypeInv
<1>4. Nesting'
    BY <1>1, <1>2, <1>3, ActiveIsBottom, NestingKept
<1>5. Progress'
    BY <1>1, <1>2, <1>3, ProgressKept DEF Progress
<1>6. \A r \in DOMAIN calls \ {range} : r \in DOMAIN calls' /\ calls'[r] = calls[r]
    BY <1>2 DEF OthersStay
<1>7. Active' = Active \ {range}
    BY <1>2, <1>6 DEF Active
<1>8. \A r \in Unsorted \ {range} : r \in Unsorted'
  <2> TAKE r \in Unsorted \ {range}
  <2>1. CASE r \in Active
    BY <1>7, <2>1 DEF Unsorted
  <2>2. ASSUME NEW o \in DOMAIN calls, calls[o].phase = "first", r = HighPart(o, calls[o].mid)
        PROVE  r \in Unsorted'
    BY <1>1, <1>6, <2>2 DEF Unsorted, HighPart
  <2> QED
    BY <2>1, <2>2, UnsortedIs
<1>9. \A x \in Places : Within(x, range) => Filled[x] = array[x]
    BY <1>1, BelongsInRange DEF Belongs
<1>10. Filled' = Filled
    BY <1>1, <1>3, <1>4, <1>6, <1>7, <1>9, FilledSame DEF Active
<1>11. Shuffled(Filled', Filled, Places, range)
    BY <1>1, <1>10, FilledType, NotShuffled
<1>12. ASSUME NEW x \in Places, NEW y \in Places, x < y, Within(x, range), Within(y, range)
       PROVE  NotLess(Filled'[y], Filled'[x])
  <2>1. CallOK(range) /\ Inserted(range)
    BY <1>1 DEF TypeInv, Progress
  <2>2. x \in Int /\ y \in Int
    BY <1>1, FilledType
  <2> QED
    BY <1>1, <1>9, <1>10, <1>12, <2>1, <2>2 DEF CallOK, Inserted, Within
<1>13. Settled' /\ Rearranged'
    BY <1>1, <1>3, <1>8, <1>11, <1>12, SettledKept
<1> QED
    BY <1>3, <1>4, <1>5, <1>13 DEF Inv

LEMMA MTReturnKeeps ==
    ASSUME Inv, NEW range \in DOMAIN calls, MTReturn(range)
    PROVE  Inv'
<1>1. /\ TypeInv /\ Nesting /\ Progress /\ Settled /\ Rearranged
      /\ calls[range].phase \in {"joining", "second"} /\ HaveReturned(PartsCalled(range))
      /\ calls' = Without(range) /\ UNCHANGED <<array, unsorted, mMTThreshold>>
    BY DEF Inv, MTReturn, InPhase
<1>2. /\ DOMAIN calls' = DOMAIN calls \ {range} /\ OthersStay(range)
      /\ calls' = [r \in DOMAIN calls' |-> calls'[r]]
    BY <1>1, CallRemoved
<1>3. TypeInv' /\ Places' = Places
    BY <1>1, <1>2, TypesKept DEF TypeInv
<1>4. Nesting'
    BY <1>1, <1>2, <1>3, ReturnedIsBottom, NestingKept
<1>5. Progress'
    BY <1>1, <1>2, <1>3, ProgressKept DEF Progress
<1>6. \A r \in DOMAIN calls \ {range} : r \in DOMAIN calls' /\ calls'[r] = calls[r]
    BY <1>2 DEF OthersStay
<1>7. Active' = Active /\ Partitioning' = Partitioning
    BY <1>1, <1>2, <1>6 DEF Active, Partitioning, Waiting
<1>8. {r \in DOMAIN calls' : calls'[r].phase = "first"} = {r \in DOMAIN calls : calls[r].phase = "first"}
    BY <1>1, <1>2, <1>6
<1>9. Unsorted' = Unsorted
  <2>1. \A r \in {r \in DOMAIN calls : calls[r].phase = "first"} : calls'[r].mid = calls[r].mid
    BY <1>1, <1>6
  <2> QED
    BY <1>7, <1>8, <2>1 DEF Unsorted, HighPart
<1>10. Filled' = Filled
  <2>1. \A r \in Partitioning : calls'[r] = calls[r] /\ Hole(r)' = Hole(r)
    BY <1>1, <1>6 DEF Partitioning, Hole
  <2>2. FilledFacts /\ FilledFacts'
    BY <1>1, <1>3, <1>4, FilledIs, PTL
  <2>3. ASSUME NEW r1 \in Partitioning, NEW r2 \in Partitioning, Hole(r1) = Hole(r2)
        PROVE  r1 = r2
    <3>1. /\ r1 \in Unsorted /\ r2 \in Unsorted /\ Hole(r1) \in Places
          /\ Within(Hole(r1), r1) /\ Within(Hole(r2), r2)
      BY <1>1, HoleWithin, UnsortedIs
    <3> QED
      BY <1>1, <2>3, <3>1, FilledType, OneRange
  <2>4. ASSUME NEW x \in Places PROVE Filled'[x] = Filled[x]
    <3>1. \/ \E r \in Partitioning : x = Hole(r) /\ Filled[x] = calls[r].key
          \/ (\A r \in Partitioning : x # Hole(r)) /\ Filled[x] = array[x]
      BY <2>2 DEF FilledFacts
    <3>2. \/ \E r \in Partitioning : x = Hole(r) /\ Filled'[x] = calls[r].key
          \/ (\A r \in Partitioning : x # Hole(r)) /\ Filled'[x] = array[x]
      BY <1>1, <1>3, <1>7, <2>1, <2>2 DEF FilledFacts
    <3> QED
      BY <2>3, <3>1, <3>2
  <2> QED
    BY <1>3, <2>2, <2>4 DEF FilledFacts
<1>11. Settled' /\ Rearranged'
    BY <1>1, <1>3, <1>9, <1>10 DEF Settled, Rearranged, Together, NotLess, Within
<1> QED
    BY <1>3, <1>4, <1>5, <1>11 DEF Inv

LEMMA PartsAdded ==
    ASSUME NEW range \in DOMAIN calls, NEW c, NEW parts, range \notin parts,
           parts \cap DOMAIN calls = {},
           calls' = WithCalls(parts, [calls EXCEPT ![range] = c])
    PROVE  /\ DOMAIN calls' = DOMAIN calls \cup parts /\ calls'[range] = c /\ OthersStay(range)
           /\ \A part \in parts : calls'[part] = [phase |-> "called"]
           /\ calls' = [r \in DOMAIN calls' |-> calls'[r]]
<1> DEFINE old == [calls EXCEPT ![range] = c]
<1>1. calls' = [r \in parts \cup DOMAIN old |-> IF r \in parts THEN [phase |-> "called"] ELSE old[r]]
    BY DEF WithCalls
<1>2. DOMAIN old = DOMAIN calls /\ old[range] = c /\ \A r \in DOMAIN calls \ {range} : old[r] = calls[r]
    OBVIOUS
<1> HIDE DEF old
<1> QED
    BY <1>1, <1>2 DEF OthersStay

LEMMA EndPartitionKeeps ==
    ASSUME Inv, NEW range \in DOMAIN calls, EndPartition(range)
    PROVE  Inv'
<1> DEFINE left   == range[1]
           right  == range[2]
           mid    == calls[range].i
           key    == calls[range].key
           low    == <<left, mid - 1>>
           high   == <<mid + 1, right>>
           spawns == right - left > mMTThreshold
           parts  == {low} \cup {part \in {high} : spawns}
           c      == [phase |-> IF spawns THEN "joining" ELSE "first", mid |-> mid]
<1>1. /\ TypeInv /\ Nesting /\ Progress /\ Settled /\ Rearranged
      /\ calls[range].phase \in {"fromRight", "fromLeft"} /\ mid = calls[range].j
      /\ range \in Active /\ range \in Unsorted /\ range \in Partitioning
      /\ left \in Nat /\ right \in Int /\ right < Size(unsorted)
      /\ mid \in Int /\ left < mid /\ mid < right /\ key \in Elements
      /\ mid \in Places /\ Within(mid, range) /\ range = <<left, right>>
      /\ Size(unsorted) \in Nat
  <2>1. calls[range].phase \in {"fromRight", "fromLeft"} /\ calls[range].i = calls[range].j
    BY DEF EndPartition, InPhase
  <2>2. range = <<left, right>>
    BY RangeFacts DEF Inv
  <2> QED
    BY <2>1, <2>2, PartitionFacts DEF Inv, TypeInv, Partitioning, Unsorted
<1>2. /\ array' = [array EXCEPT ![mid] = key]
      /\ calls' = WithCalls(parts, [calls EXCEPT ![range] = c])
      /\ UNCHANGED <<unsorted, mMTThreshold>>
    BY DEF EndPartition, LowPart, HighPart, Span
<1>3. /\ Inside(low, range) /\ Inside(high, range) /\ low # range /\ high # range /\ low # high
      /\ low \in Int \X Int /\ high \in Int \X Int
    BY <1>1 DEF Inside
<1>4. Bottom(range)
    BY <1>1, ActiveIsBottom
<1>5. low \notin DOMAIN calls /\ high \notin DOMAIN calls
    BY <1>1, <1>3, <1>4, NoneInside
<1> DEFINE waiting == {"joining", "first"}
<1>6. /\ c.phase \in waiting /\ c.mid = mid
      /\ parts \subseteq {low, high} /\ low \in parts
      /\ (spawns /\ high \in parts /\ c.phase = "joining") \/ (~spawns /\ high \notin parts /\ c.phase = "first")
    BY <1>3
<1> HIDE DEF low, high, parts, c, spawns
<1>7. /\ DOMAIN calls' = DOMAIN calls \cup parts /\ calls'[range] = c /\ OthersStay(range)
      /\ \A part \in parts : calls'[part] = [phase |-> "called"]
      /\ calls' = [r \in DOMAIN calls' |-> calls'[r]]
  <2>1. range \notin parts /\ parts \cap DOMAIN calls = {}
    BY <1>3, <1>5, <1>6
  <2> QED
    BY ONLY <1>2, <2>1, range \in DOMAIN calls, PartsAdded
<1>8. array' \in [Places -> Elements] /\ MovesIn(range)
    BY <1>1, <1>2 DEF MovesIn, TypeInv
<1>9. CallOK(range)'
    BY <1>1, <1>2, <1>6, <1>7 DEF CallOK, Phases, Waiting, Size
<1>10. \A part \in parts : CallOK(part)' /\ part \in Int \X Int
  <2>1. /\ low[1] = left /\ low[2] = mid - 1 /\ high[1] = mid + 1 /\ high[2] = right
        /\ Size(unsorted)' = Size(unsorted)
    BY <1>2 DEF low, high, Size
  <2>2. ASSUME NEW part \in parts PROVE CallOK(part)'
    <3>1. calls'[part].phase = "called"
      BY <1>7
    <3>2. /\ part[1] \in Nat /\ part[2] \in Int /\ part[2] < Size(unsorted)
          /\ part[1] <= part[2]
      BY <1>1, <1>6, <2>1
    <3> QED
      BY <2>1, <3>1, <3>2 DEF CallOK, Phases, Waiting
  <2> QED
    BY <1>3, <1>6, <2>2
<1>11. TypeInv' /\ Places' = Places
  <2>1. \A r \in DOMAIN calls' :
           \/ r # range /\ r \in DOMAIN calls
           \/ r \in Int \X Int /\ CallOK(r)'
    BY <1>1, <1>7, <1>9, <1>10 DEF TypeInv
  <2> QED
    BY <1>1, <1>2, <1>7, <1>8, <2>1, TypesKept
<1>12. Nesting'
  <2>1. \A part \in parts : part \in PartsCalled(range)'
    BY <1>6, <1>7 DEF PartsCalled, LowPart, HighPart, Span, low, high
  <2> QED
    BY <1>1, <1>4, <1>6, <1>7, <1>11, <2>1, NestingKept DEF Waiting
<1>13. Progress'
  <2>1. \A r \in DOMAIN calls \ {range} : Inserted(r)' /\ Partitioned(r)'
    BY <1>1, <1>7, <1>8, <1>11, ProgressKept
  <2>2. Inserted(range)' /\ Partitioned(range)'
    BY <1>6, <1>7 DEF Inserted, Partitioned
  <2>3. \A part \in parts : Inserted(part)' /\ Partitioned(part)'
    BY <1>7 DEF Inserted, Partitioned
  <2> QED
    BY <1>7, <2>1, <2>2, <2>3 DEF Progress
<1>14. \A r \in DOMAIN calls \ {range} : r \in DOMAIN calls' /\ calls'[r] = calls[r]
    BY <1>7 DEF OthersStay
<1>15. Active' = (Active \ {range}) \cup parts
    BY <1>1, <1>5, <1>6, <1>7, <1>14 DEF Active, Waiting
<1>16. (\A r \in Unsorted \ {range} : r \in Unsorted') /\ low \in Unsorted' /\ high \in Unsorted'
  <2>1. ASSUME NEW r \in Unsorted \ {range} PROVE r \in Unsorted'
    <3>1. CASE r \in Active
      BY <1>15, <3>1 DEF Unsorted
    <3>2. ASSUME NEW o \in DOMAIN calls, calls[o].phase = "first", r = HighPart(o, calls[o].mid)
          PROVE  r \in Unsorted'
      <4>1. o # range /\ o \in DOMAIN calls' /\ calls'[o] = calls[o]
        BY <1>1, <1>14, <3>2
      <4> QED
        BY <3>2, <4>1 DEF Unsorted, HighPart
    <3> QED
      BY <2>1, <3>1, <3>2, UnsortedIs
  <2>2. low \in Unsorted'
    BY <1>6, <1>15 DEF Unsorted
  <2>3. high \in Unsorted'
    <3>1. CASE high \in parts
      BY <1>15, <3>1 DEF Unsorted
    <3>2. CASE c.phase = "first"
      BY <1>6, <1>7, <3>2 DEF Unsorted, HighPart, Span, high
    <3> QED
      BY <1>6, <3>1, <3>2
  <2> QED
    BY <2>1, <2>2, <2>3
<1>17. \A x \in Places : Within(x, range) => Filled[x] = IF x = mid THEN key ELSE array[x]
    BY <1>1, BelongsInRange DEF Belongs
<1>18. Filled' = Filled
  <2>1. \A x \in Places : array'[x] = IF Within(x, range) THEN Filled[x] ELSE array[x]
    BY <1>1, <1>2, <1>8, <1>17 DEF TypeInv, MovesIn
  <2>2. \A r \in Active \ {range} : r \in Active' /\ calls'[r] = calls[r]
    BY <1>14, <1>15 DEF Active
  <2>3. \A r \in Active' : r \in Active \ {range} \/ (Inside(r, range) /\ calls'[r].phase = "called")
    BY <1>3, <1>6, <1>7, <1>15
  <2> QED
    BY <1>1, <1>11, <1>12, <2>1, <2>2, <2>3, FilledSame
<1>19. Shuffled(Filled', Filled, Places, range)
    BY <1>1, <1>18, FilledType, NotShuffled
<1>20. ASSUME NEW x \in Places, NEW y \in Places, x < y, Within(x, range), Within(y, range)
       PROVE  Together(x, y)' \/ NotLess(Filled'[y], Filled'[x])
  <2>1. x \in Int /\ y \in Int /\ Filled[x] \in Elements /\ Filled[y] \in Elements
    BY <1>1, FilledType
  <2>2. CASE y < mid
    BY <1>1, <1>16, <1>20, <2>1, <2>2 DEF Together, Within, low
  <2>3. CASE mid < x
    BY <1>1, <1>16, <1>20, <2>1, <2>3 DEF Together, Within, high
  <2>4. CASE x <= mid /\ mid <= y
    <3>1. Partitioned(range)
      BY <1>1 DEF Progress
    <3>2. x # mid => NotLess(key, Filled[x])
      BY <1>1, <1>17, <1>20, <2>1, <2>4, <3>1 DEF Partitioned, Within
    <3>3. y # mid => NotLess(Filled[y], key)
      BY <1>1, <1>17, <1>20, <2>1, <2>4, <3>1 DEF Partitioned, Within
    <3>4. (x = mid => Filled[x] = key) /\ (y = mid => Filled[y] = key)
      BY <1>1, <1>17
    <3>5. NotLess(Filled[y], Filled[x])
      BY <1>1, <1>20, <2>1, <3>2, <3>3, <3>4, Order
    <3> QED
      BY <1>18, <3>5
  <2> QED
    BY <1>1, <2>1, <2>2, <2>3, <2>4
<1>21. Settled' /\ Rearranged'
    BY <1>1, <1>2, <1>11, <1>16, <1>19, <1>20, SettledKept
<1> QED
    BY <1>11, <1>12, <1>13, <1>21 DEF Inv

LEMMA CallSecondKeeps ==
    ASSUME Inv, NEW range \in DOMAIN calls, CallSecond(range)
    PROVE  Inv'
<1> DEFINE left  == range[1]
           right == range[2]
<1>0. PICK mid, high : mid = calls[range].mid /\ high = HighPart(range, mid)
    OBVIOUS
<1> DEFINE c == [phase |-> "second", mid |-> mid]
<1>1. /\ TypeInv /\ Nesting /\ Progress /\ Settled /\ Rearranged
      /\ calls[range].phase = "first" /\ HaveReturned(PartsCalled(range))
      /\ calls' = WithCalls({high}, [calls EXCEPT ![range] = c])
      /\ UNCHANGED <<array, unsorted, mMTThreshold>>
    BY <1>0 DEF Inv, CallSecond, InPhase
<1>2. /\ left \in Nat /\ right \in Int /\ right < Size(unsorted)
      /\ mid \in Int /\ left < mid /\ mid < right
      /\ high = <<mid + 1, right>> /\ high \in Unsorted
  <2>1. CallOK(range) /\ high \in Unsorted
    BY <1>0, <1>1 DEF TypeInv, Unsorted
  <2> QED
    BY <1>0, <1>1, <2>1 DEF CallOK, HighPart, Span, Waiting
<1>3. Inside(high, range) /\ high # range /\ high \in Int \X Int
    BY <1>2 DEF Inside
<1>4. Bottom(range)
    BY <1>1, ReturnedIsBottom
<1>5. high \notin DOMAIN calls
    BY <1>1, <1>3, <1>4, NoneInside
<1>6. c.phase = "second" /\ c.mid = mid
    OBVIOUS
<1> HIDE DEF c
<1>7. /\ DOMAIN calls' = DOMAIN calls \cup {high} /\ calls'[range] = c /\ OthersStay(range)
      /\ calls'[high] = [phase |-> "called"]
      /\ calls' = [r \in DOMAIN calls' |-> calls'[r]]
  <2>1. range \notin {high} /\ {high} \cap DOMAIN calls = {}
    BY <1>3, <1>5
  <2>2. \A part \in {high} : calls'[part] = [phase |-> "called"]
    BY ONLY <1>1, <2>1, range \in DOMAIN calls, PartsAdded
  <2>3. /\ DOMAIN calls' = DOMAIN calls \cup {high} /\ calls'[range] = c /\ OthersStay(range)
        /\ calls' = [r \in DOMAIN calls' |-> calls'[r]]
    BY ONLY <1>1, <2>1, range \in DOMAIN calls, PartsAdded
  <2> QED
    BY <2>2, <2>3
<1>8. CallOK(range)' /\ CallOK(high)'
  <2>1. Size(unsorted)' = Size(unsorted) /\ high[1] = mid + 1 /\ high[2] = right
    BY <1>1, <1>2 DEF Size
  <2>2. CallOK(range)'
    BY <1>2, <1>6, <1>7, <2>1 DEF CallOK, Phases, Waiting
  <2>3. CallOK(high)'
    BY <1>2, <1>7, <2>1 DEF CallOK, Phases, Waiting
  <2> QED
    BY <2>2, <2>3
<1>9. TypeInv' /\ Places' = Places
  <2>1. range \in Int \X Int /\ array' \in [Places -> Elements]
    BY <1>1 DEF TypeInv
  <2>2. \A r \in DOMAIN calls' :
           \/ r # range /\ r \in DOMAIN calls
           \/ r \in Int \X Int /\ CallOK(r)'
    BY <1>3, <1>7, <1>8, <2>1
  <2> QED
    BY <1>1, <1>7, <2>1, <2>2, TypesKept
<1>10. Nesting'
  <2>1. high \in PartsCalled(range)' /\ range \in DOMAIN calls' /\ calls'[range].phase \in Waiting
    BY <1>0, <1>6, <1>7 DEF PartsCalled, HighPart, Span, Waiting
  <2> QED
    BY <1>1, <1>4, <1>7, <1>9, <2>1, NestingKept
<1>11. Progress'
  <2>1. \A r \in DOMAIN calls \ {range} : Inserted(r)' /\ Partitioned(r)'
    BY <1>1, <1>7, <1>9, ProgressKept
  <2>2. Inserted(range)' /\ Partitioned(range)' /\ Inserted(high)' /\ Partitioned(high)'
    BY <1>6, <1>7 DEF Inserted, Partitioned
  <2> QED
    BY <1>7, <2>1, <2>2 DEF Progress
<1>12. \A r \in DOMAIN calls \ {range} : r \in DOMAIN calls' /\ calls'[r] = calls[r]
    BY <1>7 DEF OthersStay
<1>13. Active' = Active \cup {high}
  <2>1. /\ calls[range].phase \in Waiting /\ calls'[range].phase \in Waiting
        /\ calls'[high].phase \notin Waiting
    BY <1>1, <1>6, <1>7 DEF Waiting
  <2> QED
    BY <1>7, <1>12, <2>1 DEF Active
<1>14. \A r \in Unsorted \ {high} : r \in Unsorted'
  <2> TAKE r \in Unsorted \ {high}
  <2>1. CASE r \in Active
    BY <1>13, <2>1 DEF Unsorted
  <2>2. ASSUME NEW o \in DOMAIN calls, calls[o].phase = "first", r = HighPart(o, calls[o].mid)
        PROVE  r \in Unsorted'
    <3>1. o # range
      BY <1>0, <2>2
    <3>2. o \in DOMAIN calls' /\ calls'[o] = calls[o]
      BY <1>12, <3>1
    <3> QED
      BY <2>2, <3>2 DEF Unsorted, HighPart
  <2> QED
    BY <2>1, <2>2, UnsortedIs
<1>15. \A x \in Places : Within(x, high) => Filled[x] = array[x]
  <2> SUFFICES ASSUME NEW x \in Places, Within(x, high) PROVE Filled[x] = array[x]
    OBVIOUS
  <2>1. \A r \in Active : ~Within(x, r)
    BY <1>1, <1>2, <1>5, FilledType, OneRange, UnsortedIs DEF Active
  <2> QED
    BY <1>1, <2>1, FilledIn DEF FilledByCalls
<1>16. Filled' = Filled
  <2>1. \A x \in Places : array'[x] = IF Within(x, high) THEN Filled[x] ELSE array[x]
    BY <1>1, <1>15
  <2>2. \A r \in Active \ {high} : r \in Active' /\ calls'[r] = calls[r]
    BY <1>1, <1>12, <1>13 DEF Active, Waiting
  <2>3. \A r \in Active' : r \in Active \ {high} \/ (r = high /\ calls'[r].phase = "called")
    BY <1>5, <1>7, <1>13 DEF Active
  <2> QED
    BY <1>1, <1>2, <1>9, <1>10, <2>1, <2>2, <2>3, FilledSame
<1>17. Shuffled(Filled', Filled, Places, high)
    BY <1>1, <1>16, FilledType, NotShuffled
<1>18. high \in Unsorted'
    BY <1>13 DEF Unsorted
<1>19. \A x, y \in Places : Within(x, high) /\ Within(y, high) => Together(x, y)'
    BY <1>18 DEF Together, Within
<1>20. Settled' /\ Rearranged'
    BY <1>1, <1>2, <1>9, <1>14, <1>17, <1>19, SettledKept
<1> QED
    BY <1>9, <1>10, <1>11, <1>20 DEF Inv

-----------------------------------------------------------------------------
(* The sort.                                                               *)

LEMMA InputFacts ==
    ASSUME NEW input \in MTInputs
    PROVE  /\ Size(input) \in Nat
           /\ input \in [0..Size(input) - 1 -> Elements]
           /\ \A threadNum \in ThreadNums : Size(input) \div threadNum \in Int
<1>1. IsFiniteSet(DOMAIN input) /\ input = [x \in 0..Size(input) - 1 |-> input[x]]
    BY QuickSortAssumption
<1>2. Size(input) \in Nat
    BY <1>1, FS_CardinalityType DEF Size
<1>3. \A x \in DOMAIN input : input[x] \in Elements
    BY DEF Elements
<1>4. \A threadNum \in ThreadNums : threadNum \in Nat /\ threadNum > 0
    BY QuickSortAssumption
<1> QED
    BY <1>1, <1>2, <1>3, <1>4

LEMMA MTInitInv ==
    ASSUME MTInit
    PROVE  Inv
<1>1. PICK input \in MTInputs, threadNum \in ThreadNums : MTCall(input, threadNum)
    BY DEF MTInit
<1> DEFINE n == Size(input)
           whole == <<0, n - 1>>
<1>2. /\ array = input /\ unsorted = input /\ mMTThreshold = n \div threadNum
      /\ n \in Nat /\ Size(unsorted) = n /\ Places = 0..n - 1 /\ mMTThreshold \in Int
      /\ input \in [Places -> Elements]
    BY <1>1, InputFacts DEF MTCall, Places
<1>3. DOMAIN calls = {whole} /\ calls[whole] = [phase |-> "called"] /\ calls = [r \in {whole} |-> calls[r]]
  <2>1. DOMAIN <<>> = {}
    OBVIOUS
  <2> QED
    BY <1>1, <2>1 DEF MTCall, WithCalls, Span
<1>4. whole[1] = 0 /\ whole[2] = n - 1 /\ whole \in Int \X Int
    BY <1>2
<1>5. CallOK(whole)
  <2>1. whole[1] <= whole[2] \/ (whole = <<0, -1>> /\ n = 0)
    BY <1>2, <1>4
  <2> HIDE DEF whole, n
  <2> QED
    BY <1>2, <1>3, <1>4, <2>1 DEF CallOK, Phases, Waiting
<1> HIDE DEF whole, n
<1>6. TypeInv
    BY <1>2, <1>3, <1>4, <1>5 DEF TypeInv
<1>7. Nesting /\ Progress
    BY <1>3 DEF Nesting, Progress, Inserted, Partitioned
<1>8. whole \in Unsorted
    BY <1>3 DEF Unsorted, Active, Waiting
<1>9. \A x \in Places : Within(x, whole)
    BY <1>2, <1>4 DEF Within
<1>10. Settled
    BY <1>8, <1>9 DEF Settled, Together
<1>11. Filled = unsorted
  <2>1. Partitioning = {}
    BY <1>3 DEF Partitioning
  <2>2. FilledFacts
    BY <1>6, <1>7, FilledIs
  <2>3. \A x \in Places : Filled[x] = unsorted[x]
    BY <1>2, <2>1, <2>2 DEF FilledFacts
  <2> QED
    BY <1>2, <2>2, <2>3 DEF FilledFacts
<1>12. Rearranged
  <2>1. Shuffled(unsorted, unsorted, Places, whole)
    BY <1>2, NotShuffled
  <2> QED
    BY <1>11, <2>1 DEF Shuffled, Rearranged
<1> QED
    BY <1>6, <1>7, <1>10, <1>12 DEF Inv

LEMMA MTNextInv == Inv /\ [MTNext]_mtvars => Inv'
<1> SUFFICES ASSUME Inv, [MTNext]_mtvars
             PROVE  Inv'
    OBVIOUS
<1>1. ASSUME NEW range \in DOMAIN calls, MTStep(range)
      PROVE  Inv'
  <2>1. CASE BeginShort(range)
    BY <2>1, BeginShortKeeps
  <2>2. CASE InsertNext(range)
    BY <2>2, InsertNextKeeps
  <2>3. CASE EndInsertion(range)
    BY <2>3, EndInsertionKeeps
  <2>4. CASE BeginPartition(range)
    BY <2>4, BeginPartitionKeeps
  <2>5. CASE TakeFromRight(range)
    BY <2>5, TakeFromRightKeeps
  <2>6. CASE TakeFromLeft(range)
    BY <2>6, TakeFromLeftKeeps
  <2>7. CASE EndPartition(range)
    BY <2>7, EndPartitionKeeps
  <2>8. CASE CallSecond(range)
    BY <2>8, CallSecondKeeps
  <2>9. CASE MTReturn(range)
    BY <2>9, MTReturnKeeps
  <2> QED
    BY <1>1, <2>1, <2>2, <2>3, <2>4, <2>5, <2>6, <2>7, <2>8, <2>9 DEF MTStep
<1>2. CASE UNCHANGED mtvars
  <2>1. UNCHANGED <<array, unsorted, mMTThreshold, calls>>
    BY <1>2 DEF mtvars
  <2>2. UNCHANGED <<Places, Active, Unsorted, Filled, TypeInv, Nesting, Progress>>
    BY <2>1 DEF Places, Size, Active, Unsorted, HighPart, Filled, Partitioning, Hole, TypeInv, CallOK,
                Nesting, Nested, Serves, PartsCalled, LowPart, Inside, Apart, Progress, Inserted,
                Partitioned, NotLess
  <2> QED
    BY <2>1, <2>2 DEF Inv, Settled, Rearranged, Together, Within, NotLess
<1> QED
    BY <1>1, <1>2 DEF MTNext

\* Where each call is in its range, how the ranges lie, what each call has
\* done so far, and what this makes of the whole array: for every array,
\* number of threads and order, under every interleaving.
THEOREM SortInvariant == MTSpec => []Inv
<1>1. MTInit => Inv
    BY MTInitInv
<1> QED
    BY <1>1, MTNextInv, PTL DEF MTSpec

\* Calls of MTQuickSort that work at the same time, each in its thread, have
\* no element in common (quick_sort_mt.h:61-69).
THEOREM CallsApart == MTSpec => []ThreadsApart
<1>1. Inv => ThreadsApart
  <2> SUFFICES ASSUME Inv, NEW r1 \in Active, NEW r2 \in Active, r1 # r2
               PROVE  r1[1]..r1[2] \cap r2[1]..r2[2] = {}
    BY DEF ThreadsApart
  <2>1. Apart(r1, r2) /\ r1 \in DOMAIN calls /\ r2 \in DOMAIN calls
    BY UnsortedApart DEF Inv, Active, Unsorted
  <2>2. r1[1] \in Int /\ r1[2] \in Int /\ r2[1] \in Int /\ r2[2] \in Int
    BY <2>1, RangeFacts DEF Inv
  <2> QED
    BY <2>1, <2>2 DEF Apart
<1> QED
    BY <1>1, SortInvariant, PTL

\* The threads only ever rearrange the elements within the ranges that are
\* still to be sorted, and what is outside them is in order: so the array
\* is sorted when the last call has returned (quick_sort_mt.h:46-98).
THEOREM SortSettles == MTSpec => []SettledIsFinal
<1>1. Inv => SettledIsFinal
  <2> SUFFICES ASSUME Inv PROVE SettledIsFinal
    OBVIOUS
  <2>1. TypeInv /\ Settled /\ Rearranged /\ DOMAIN array = Places /\ unsorted \in [Places -> Elements]
    BY DEF Inv, TypeInv
  <2>2. \A x, y \in DOMAIN array :
            x < y /\ (\A range \in Unsorted : ~(Within(x, range) /\ Within(y, range)))
              => ~Less(SortOrder, Filled[y], Filled[x])
    BY <2>1 DEF Settled, Together, NotLess
  <2>3. IsFiniteSet(Places)
    <3>1. Size(unsorted) - 1 \in Int /\ 0 \in Int
      BY <2>1 DEF TypeInv
    <3> QED
      BY <3>1, FS_Interval DEF Places
  <2>4. PICK f \in Bijection(Places, Places) : Filled = [x \in Places |-> unsorted[f[x]]]
    BY <2>1 DEF Rearranged
  <2>5. IsPermutation(unsorted, [x \in Places |-> unsorted[f[x]]])
    <3>1. unsorted \in [Places -> Elements] /\ f \in Bijection(Places, Places)
      BY <2>1
    <3> QED
      BY ONLY <2>3, <3>1, ReorderingPermutes
  <2> QED
    BY <2>2, <2>4, <2>5 DEF SettledIsFinal
<1> QED
    BY <1>1, SortInvariant, PTL
=============================================================================
