------------------------------ MODULE Counting ------------------------------
(***************************************************************************)
(* Counting threads and objects: what the proofs about the buffers, the    *)
(* scheduler and the computations on it have in common.                    *)
(***************************************************************************)
EXTENDS Integers, Sequences, SequenceTheorems, FunctionTheorems, FiniteSetTheorems, TLAPS

LEMMA SubsetCardinality ==
    ASSUME NEW T, IsFiniteSet(T), NEW S \in SUBSET T
    PROVE  IsFiniteSet(S) /\ Cardinality(S) \in Nat /\ Cardinality(S) <= Cardinality(T)
BY FS_Subset, FS_CardinalityType

\* Taking one thread out of a set costs at most one.
LEMMA AllButOne ==
    ASSUME NEW S, IsFiniteSet(S), NEW T, IsFiniteSet(T), NEW t, S \ {t} \subseteq T
    PROVE  Cardinality(T) >= Cardinality(S) - 1
<1>1. Cardinality(S) \in Nat /\ Cardinality(T) \in Nat
    BY FS_CardinalityType
<1>2. IsFiniteSet(S \ {t}) /\ Cardinality(S \ {t}) >= Cardinality(S) - 1
    BY <1>1, FS_RemoveElement
<1>3. Cardinality(S \ {t}) <= Cardinality(T) /\ Cardinality(S \ {t}) \in Nat
    BY <1>2, SubsetCardinality
<1> QED
    BY <1>1, <1>2, <1>3

\* A thread that joins a set adds one.
LEMMA OneMore ==
    ASSUME NEW S, IsFiniteSet(S), NEW T, IsFiniteSet(T), NEW t \in T,
           t \notin S, S \subseteq T
    PROVE  Cardinality(T) >= Cardinality(S) + 1
<1>1. Cardinality(S) \in Nat /\ Cardinality(T) \in Nat
    BY FS_CardinalityType
<1>2. IsFiniteSet(S \cup {t}) /\ Cardinality(S \cup {t}) = Cardinality(S) + 1
    BY FS_AddElement
<1>3. Cardinality(S \cup {t}) <= Cardinality(T)
    BY SubsetCardinality
<1> QED
    BY <1>1, <1>2, <1>3

-----------------------------------------------------------------------------
(* The two sides of a buffer follow one pattern: some threads are in the   *)
(* middle of a call, some of these asleep, and there are n things to wake  *)
(* up for (objects, or free places).  While a thread sleeps there are as   *)
(* many awake on their way as there are things.                            *)
Suffices(n, asleep, calling) == asleep # {} => n <= Cardinality(calling \ asleep)

\* There is nothing to wake up for, nobody to wake up, or no less on the way.
LEMMA SufficesKept ==
    ASSUME NEW T, IsFiniteSet(T), NEW n \in Int, NEW n2 \in Int,
           NEW asleep \in SUBSET T, NEW asleep2 \in SUBSET T,
           NEW calling \in SUBSET T, NEW calling2 \in SUBSET T,
           Suffices(n, asleep, calling),
           \/ asleep2 = {}
           \/ n2 <= 0
           \/ n2 <= n /\ asleep2 \subseteq asleep /\ calling \subseteq calling2
    PROVE  Suffices(n2, asleep2, calling2)
<1>1. /\ Cardinality(calling \ asleep) \in Nat
      /\ IsFiniteSet(calling2 \ asleep2) /\ Cardinality(calling2 \ asleep2) \in Nat
    BY SubsetCardinality, calling \ asleep \in SUBSET T, calling2 \ asleep2 \in SUBSET T
<1>2. CASE asleep2 = {} \/ n2 <= 0
    BY <1>1, <1>2 DEF Suffices
<1>3. CASE n2 <= n /\ asleep2 \subseteq asleep /\ calling \subseteq calling2 /\ asleep2 # {}
  <2>1. Cardinality(calling \ asleep) <= Cardinality(calling2 \ asleep2)
    BY <1>1, <1>3, SubsetCardinality, calling \ asleep \in SUBSET (calling2 \ asleep2)
  <2>2. n <= Cardinality(calling \ asleep)
    BY <1>3 DEF Suffices
  <2> QED
    BY <1>1, <1>3, <2>1, <2>2 DEF Suffices
<1> QED
    BY <1>2, <1>3

\* One more thing, and notify_one has woken up somebody if anybody slept.
LEMMA SufficesNotified ==
    ASSUME NEW T, IsFiniteSet(T), NEW n \in Int,
           NEW asleep \in SUBSET T, NEW asleep2, NEW calling \in SUBSET T,
           asleep \subseteq calling,
           \/ asleep = {} /\ asleep2 = {}
           \/ \E t \in asleep : asleep2 = asleep \ {t},
           Suffices(n, asleep, calling)
    PROVE  Suffices(n + 1, asleep2, calling)
<1>1. CASE asleep2 = {}
    BY <1>1 DEF Suffices
<1>2. CASE asleep2 # {}
  <2>1. PICK t \in asleep : asleep2 = asleep \ {t}
    BY <1>2
  <2>2. /\ IsFiniteSet(calling \ asleep) /\ Cardinality(calling \ asleep) \in Nat
        /\ IsFiniteSet(calling \ asleep2) /\ Cardinality(calling \ asleep2) \in Nat
    BY SubsetCardinality, calling \ asleep \in SUBSET T, calling \ asleep2 \in SUBSET T
  <2>3. Cardinality(calling \ asleep2) >= Cardinality(calling \ asleep) + 1
    BY <2>1, <2>2, OneMore, t \in calling \ asleep2, t \notin calling \ asleep,
       calling \ asleep \subseteq calling \ asleep2
  <2>4. n <= Cardinality(calling \ asleep)
    BY <1>2, <2>1 DEF Suffices
  <2> QED
    BY <2>2, <2>3, <2>4 DEF Suffices
<1> QED
    BY <1>1, <1>2

\* One thing less, and only the thread that has taken it is on its way no more.
LEMMA SufficesTaken ==
    ASSUME NEW T, IsFiniteSet(T), NEW n \in Int, NEW asleep \in SUBSET T,
           NEW calling \in SUBSET T, NEW calling2 \in SUBSET T, NEW t,
           calling \ {t} \subseteq calling2,
           Suffices(n, asleep, calling)
    PROVE  Suffices(n - 1, asleep, calling2)
<1>1. /\ IsFiniteSet(calling \ asleep) /\ Cardinality(calling \ asleep) \in Nat
      /\ IsFiniteSet(calling2 \ asleep) /\ Cardinality(calling2 \ asleep) \in Nat
    BY SubsetCardinality, calling \ asleep \in SUBSET T, calling2 \ asleep \in SUBSET T
<1>2. Cardinality(calling2 \ asleep) >= Cardinality(calling \ asleep) - 1
    BY <1>1, AllButOne, (calling \ asleep) \ {t} \subseteq calling2 \ asleep
<1> QED
    BY <1>1, <1>2 DEF Suffices

-----------------------------------------------------------------------------
\* Of the threads in a role, those that are at none of the places "gone".
Staying(role, place, gone) == {t \in role : place[t] \notin gone}

LEMMA StayingFinite ==
    ASSUME NEW role, IsFiniteSet(role), NEW place, NEW gone
    PROVE  /\ IsFiniteSet(Staying(role, place, gone))
           /\ Cardinality(Staying(role, place, gone)) \in Nat
           /\ Cardinality(Staying(role, place, gone)) = 0
                  <=> Staying(role, place, gone) = {}
<1>1. Staying(role, place, gone) \in SUBSET role
    BY DEF Staying
<1> QED
    BY <1>1, SubsetCardinality, FS_EmptySet

\* A thread leaves.
LEMMA OneLeaves ==
    ASSUME NEW role, IsFiniteSet(role), NEW place, NEW place2, NEW gone, NEW t \in role,
           place[t] \notin gone, place2[t] \in gone,
           \A s \in role \ {t} : place2[s] = place[s]
    PROVE  /\ Staying(role, place2, gone) = Staying(role, place, gone) \ {t}
           /\ Cardinality(Staying(role, place2, gone))
                  = Cardinality(Staying(role, place, gone)) - 1
<1>1. /\ Staying(role, place2, gone) = Staying(role, place, gone) \ {t}
      /\ t \in Staying(role, place, gone)
    BY DEF Staying
<1>2. IsFiniteSet(Staying(role, place, gone))
    BY StayingFinite
<1>3. Cardinality(Staying(role, place, gone) \ {t})
          = Cardinality(Staying(role, place, gone)) - 1
    BY <1>1, <1>2, FS_RemoveElement
<1> QED
    BY <1>1, <1>3

\* Nobody leaves or returns.
LEMMA NoneLeaves ==
    ASSUME NEW role, NEW place, NEW place2, NEW gone,
           \A s \in role : place2[s] \in gone <=> place[s] \in gone
    PROVE  Staying(role, place2, gone) = Staying(role, place, gone)
BY DEF Staying

-----------------------------------------------------------------------------
\* Where x is in a sequence, and how often.
Positions(x, seq) == {k \in DOMAIN seq : seq[k] = x}

LEMMA PositionsFinite ==
    ASSUME NEW S, NEW seq \in Seq(S), NEW x
    PROVE  /\ IsFiniteSet(Positions(x, seq)) /\ Cardinality(Positions(x, seq)) \in Nat
           /\ Positions(x, seq) \in SUBSET (1..Len(seq))
<1>1. Len(seq) \in Nat /\ DOMAIN seq = 1..Len(seq)
    BY LenProperties
<1>2. IsFiniteSet(1..Len(seq))
    BY <1>1, FS_Interval
<1>3. Positions(x, seq) \in SUBSET (1..Len(seq))
    BY <1>1 DEF Positions
<1> QED
    BY <1>2, <1>3, SubsetCardinality

LEMMA PositionsEmpty == ASSUME NEW x PROVE Cardinality(Positions(x, <<>>)) = 0
<1>1. Positions(x, <<>>) = {}
    BY DEF Positions
<1> QED
    BY <1>1, FS_EmptySet

LEMMA PositionsAppend ==
    ASSUME NEW S, NEW seq \in Seq(S), NEW e \in S, NEW x
    PROVE  Cardinality(Positions(x, Append(seq, e)))
               = Cardinality(Positions(x, seq)) + (IF e = x THEN 1 ELSE 0)
<1> DEFINE longer == Append(seq, e)
           last   == Len(seq) + 1
<1>1. /\ Len(seq) \in Nat /\ DOMAIN seq = 1..Len(seq)
      /\ longer \in Seq(S) /\ DOMAIN longer = 1..(Len(seq) + 1)
      /\ \A k \in 1..Len(seq) : longer[k] = seq[k]
      /\ longer[last] = e
  <2>1. Len(longer) = Len(seq) + 1 /\ longer \in Seq(S)
    BY AppendProperties
  <2> QED
    BY <2>1, AppendProperties, LenProperties
<1> HIDE DEF longer
<1>2. Positions(x, longer)
          = IF e = x THEN Positions(x, seq) \cup {last} ELSE Positions(x, seq)
    BY <1>1 DEF Positions
<1>3. last \notin Positions(x, seq)
    BY <1>1 DEF Positions
<1>4. Cardinality(Positions(x, seq) \cup {last}) = Cardinality(Positions(x, seq)) + 1
    BY <1>3, PositionsFinite, FS_AddElement
<1>5. Cardinality(Positions(x, longer))
          = Cardinality(Positions(x, seq)) + (IF e = x THEN 1 ELSE 0)
    BY <1>2, <1>4, PositionsFinite
<1> QED
    BY <1>5 DEF longer

LEMMA PositionsTail ==
    ASSUME NEW S, NEW seq \in Seq(S), seq # <<>>, NEW x
    PROVE  Cardinality(Positions(x, seq))
               = Cardinality(Positions(x, Tail(seq))) + (IF Head(seq) = x THEN 1 ELSE 0)
<1> DEFINE rest  == Tail(seq)
           later == Positions(x, seq) \ {1}
<1>1. /\ Len(seq) \in Nat \ {0} /\ DOMAIN seq = 1..Len(seq) /\ Head(seq) = seq[1]
      /\ rest \in Seq(S) /\ DOMAIN rest = 1..(Len(seq) - 1)
      /\ \A k \in 1..(Len(seq) - 1) : rest[k] = seq[k + 1]
  <2>1. Len(rest) = Len(seq) - 1 /\ rest \in Seq(S)
    BY HeadTailProperties
  <2> QED
    BY <2>1, HeadTailProperties, LenProperties, EmptySeq
<1> HIDE DEF rest
<1>2. ExistsBijection(Positions(x, rest), later)
  <2> DEFINE up == [k \in Positions(x, rest) |-> k + 1]
  <2>1. up \in [Positions(x, rest) -> later]
    BY <1>1 DEF Positions
  <2>2. \A j, k \in Positions(x, rest) : up[j] = up[k] => j = k
    BY <1>1 DEF Positions
  <2>3. \A k \in later : \E j \in Positions(x, rest) : up[j] = k
    <3> SUFFICES ASSUME NEW k \in later PROVE \E j \in Positions(x, rest) : up[j] = k
        OBVIOUS
    <3>1. k - 1 \in Positions(x, rest)
        BY <1>1 DEF Positions
    <3>2. up[k - 1] = (k - 1) + 1
        BY <3>1
    <3>3. k \in Int
        BY <1>1 DEF Positions
    <3> QED
        BY <3>1, <3>2, <3>3
  <2> HIDE DEF up
  <2>4. up \in Bijection(Positions(x, rest), later)
    BY <2>1, <2>2, <2>3, Fun_IsBij
  <2> QED
    BY <2>4 DEF ExistsBijection
<1>3. Cardinality(later) = Cardinality(Positions(x, rest))
    BY <1>1, <1>2, FS_Bijection, PositionsFinite
<1>4. Cardinality(later) = IF 1 \in Positions(x, seq) THEN Cardinality(Positions(x, seq)) - 1
                                                     ELSE Cardinality(Positions(x, seq))
  <2>1. IsFiniteSet(Positions(x, seq))
    BY PositionsFinite
  <2> QED
    BY <2>1, FS_RemoveElement
<1>5. Head(seq) = x <=> 1 \in Positions(x, seq)
    BY <1>1 DEF Positions
<1>6. Cardinality(Positions(x, seq))
          = Cardinality(Positions(x, rest)) + (IF Head(seq) = x THEN 1 ELSE 0)
  <2> HIDE DEF later
  <2> QED
    BY <1>1, <1>3, <1>4, <1>5, PositionsFinite
<1> QED
    BY <1>6 DEF rest

-----------------------------------------------------------------------------
\* The threads whose hands hold x.
Holders(x, hand, T) == {t \in T : hand[t] = x}

\* One thread takes something else into its hand.
LEMMA HandChanges ==
    ASSUME NEW T, IsFiniteSet(T), NEW hand, NEW hand2, NEW t \in T, NEW x,
           \A s \in T \ {t} : hand2[s] = hand[s]
    PROVE  Cardinality(Holders(x, hand2, T))
               = Cardinality(Holders(x, hand, T)) + (IF hand2[t] = x THEN 1 ELSE 0)
                     - (IF hand[t] = x THEN 1 ELSE 0)
<1> DEFINE rest == Holders(x, hand, T \ {t})
<1>1. /\ Holders(x, hand, T) = IF hand[t] = x THEN rest \cup {t} ELSE rest
      /\ Holders(x, hand2, T) = IF hand2[t] = x THEN rest \cup {t} ELSE rest
    BY DEF Holders
<1>2. t \notin rest /\ rest \in SUBSET T
    BY DEF Holders
<1> HIDE DEF rest
<1>3. IsFiniteSet(rest) /\ Cardinality(rest) \in Nat
    BY <1>2, SubsetCardinality
<1>4. Cardinality(rest \cup {t}) = Cardinality(rest) + 1
    BY <1>2, <1>3, FS_AddElement
<1> QED
    BY <1>1, <1>3, <1>4

-----------------------------------------------------------------------------
\* What each thread of T has, all of it, one token for each thing.
Tokens(T, has) == UNION {{t} \X has[t] : t \in T}

LEMMA OnePile ==
    ASSUME NEW t, NEW S, IsFiniteSet(S)
    PROVE  /\ IsFiniteSet({t} \X S) /\ Cardinality({t} \X S) = Cardinality(S)
           /\ Cardinality(S) \in Nat
<1>1. IsFiniteSet({t}) /\ Cardinality({t}) = 1
    BY FS_Singleton
<1>2. Cardinality(S) \in Nat
    BY FS_CardinalityType
<1>3. IsFiniteSet({t} \X S) /\ Cardinality({t} \X S) = Cardinality({t}) * Cardinality(S)
    BY <1>1, FS_Product
<1> QED
    BY <1>1, <1>2, <1>3

LEMMA Disjoint ==
    ASSUME NEW S, IsFiniteSet(S), NEW T, IsFiniteSet(T), S \cap T = {}
    PROVE  /\ Cardinality(S \cup T) = Cardinality(S) + Cardinality(T)
           /\ Cardinality(S) \in Nat /\ Cardinality(T) \in Nat
<1>1. Cardinality(S) \in Nat /\ Cardinality(T) \in Nat /\ Cardinality(S \cap T) = 0
    BY FS_CardinalityType, FS_EmptySet
<1>2. Cardinality(S \cup T) = Cardinality(S) + Cardinality(T) - Cardinality(S \cap T)
    BY FS_Union
<1> QED
    BY <1>1, <1>2

LEMMA TokensFinite ==
    ASSUME NEW T, IsFiniteSet(T), NEW has, \A t \in T : IsFiniteSet(has[t])
    PROVE  IsFiniteSet(Tokens(T, has)) /\ Cardinality(Tokens(T, has)) \in Nat
<1> DEFINE piles == [t \in T |-> {t} \X has[t]]
           Piles == {{t} \X has[t] : t \in T}
<1>1. piles \in Surjection(T, Piles)
    BY Fun_IsSurj
<1>2. IsFiniteSet(Piles)
    BY <1>1, FS_Surjection DEF ExistsSurjection
<1>3. \A pile \in Piles : IsFiniteSet(pile)
  <2>1. \A t \in T : IsFiniteSet({t} \X has[t])
    BY OnePile
  <2> QED
    BY <2>1
<1>4. IsFiniteSet(UNION Piles)
    BY <1>2, <1>3, FS_UNION
<1> QED
    BY <1>4, FS_CardinalityType DEF Tokens

\* Nobody has anything.
LEMMA TokensNone ==
    ASSUME NEW T, NEW has, \A t \in T : has[t] = {}
    PROVE  Cardinality(Tokens(T, has)) = 0
<1>1. Tokens(T, has) = {}
    BY DEF Tokens
<1> QED
    BY <1>1, FS_EmptySet

\* Only t's things change.
LEMMA TokensChange ==
    ASSUME NEW T, IsFiniteSet(T), NEW has, NEW has2, NEW t \in T,
           \A u \in T : IsFiniteSet(has[u]), IsFiniteSet(has2[t]),
           \A u \in T \ {t} : has2[u] = has[u]
    PROVE  Cardinality(Tokens(T, has2))
               = Cardinality(Tokens(T, has)) + Cardinality(has2[t]) - Cardinality(has[t])
<1> DEFINE rest == Tokens(T \ {t}, has)
<1>1. /\ Tokens(T, has) = rest \cup ({t} \X has[t])
      /\ Tokens(T, has2) = rest \cup ({t} \X has2[t])
    BY DEF Tokens
<1>2. /\ rest \cap ({t} \X has[t]) = {} /\ rest \cap ({t} \X has2[t]) = {}
    BY DEF Tokens
<1>3. IsFiniteSet(rest) /\ Cardinality(rest) \in Nat
    BY TokensFinite, FS_Subset
<1> HIDE DEF rest
<1> DEFINE old == {t} \X has[t]
           new == {t} \X has2[t]
<1>4. /\ IsFiniteSet(old) /\ Cardinality(old) = Cardinality(has[t])
      /\ IsFiniteSet(new) /\ Cardinality(new) = Cardinality(has2[t])
    BY OnePile
<1>5. rest \cap old = {} /\ rest \cap new = {}
    BY <1>2
<1>6. Tokens(T, has) = rest \cup old /\ Tokens(T, has2) = rest \cup new
    BY <1>1
<1> HIDE DEF old, new
<1>7. /\ Cardinality(rest \cup old) = Cardinality(rest) + Cardinality(old)
      /\ Cardinality(rest \cup new) = Cardinality(rest) + Cardinality(new)
      /\ Cardinality(old) \in Nat /\ Cardinality(new) \in Nat
    BY <1>3, <1>4, <1>5, Disjoint
<1> QED
    BY <1>3, <1>4, <1>6, <1>7
=============================================================================
