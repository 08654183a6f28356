---------------------------- MODULE EvaluationProofs ----------------------------
(***************************************************************************)
(* The evaluation's lists and its monitor, for every number of users,      *)
(* items and workers, every size of the bundles, all data and options, and *)
(* every interleaving: no two workers fill in the same entry of the cache, *)
(* a list that is kept is its user's, and the monitor is never ahead of    *)
(* the consumer's sums.                                                    *)
(***************************************************************************)
EXTENDS Evaluation, FiniteSetTheorems, TLAPS

Getter == Worker \cup {Consumer}

-----------------------------------------------------------------------------
(* The inductive invariant.                                                *)

IsSeq(s) == s \in Seq({s[k] : k \in DOMAIN s})

IsTask(r) == r = [task |-> r.task, out |-> r.out]
IsBundle(b) ==
    /\ Len(b) \in Nat /\ b = [k \in 1..Len(b) |-> b[k]]
    /\ \A k \in 1..Len(b) : IsTask(b[k])

Disjoint(b, c) == \A k \in 1..Len(b), l \in 1..Len(c) : b[k].task # c[l].task

AllBundles(s) == IsSeq(s) /\ \A k \in 1..Len(s) : IsBundle(s[k])
AllDisjoint(s) == \A k, l \in 1..Len(s) : k # l => Disjoint(s[k], s[l])

TypeInv ==
    /\ IsOption(option) /\ step \in 0..Len(Steps(option))
    /\ held = [t \in Getter |-> held[t]] /\ pos \in [Getter -> Nat]
    /\ filling = [w \in Worker |-> filling[w]] /\ cached = [u \in User |-> cached[u]]
    /\ counted \in Nat /\ processed \in Nat
    /\ AllBundles(unput) /\ AllBundles(toWork) /\ AllBundles(toConsume)

\* Where the threads are.
InHands ==
    \A t \in Getter :
        /\ held[t] # NoBundle => IsBundle(held[t]) /\ pos[t] \in 1..Len(held[t]) + 1
        /\ t \in left => held[t] = NoBundle

\* Without threads there are no bundles.
Idle ==
    ~option.accelerate =>
        unput = <<>> /\ toWork = <<>> /\ \A t \in Getter : held[t] = NoBundle

\* A list that is about to be kept is that of the task the worker is at.
Filling ==
    \A w \in Worker : filling[w] # <<>> =>
        /\ AtTask(w) /\ Current.measure # "rating"
        /\ Len(filling[w]) \in Nat /\ filling[w] = TopNItem(TaskOf(w), Len(filling[w]))

\* A task is in one bundle that has still to be worked on.
OnceToWork ==
    /\ AllDisjoint(unput) /\ AllDisjoint(toWork)
    /\ \A k \in 1..Len(toWork), l \in 1..Len(unput) : Disjoint(toWork[k], unput[l])
    /\ \A w \in Worker : held[w] # NoBundle =>
          /\ \A k \in 1..Len(toWork) : Disjoint(held[w], toWork[k])
          /\ \A l \in 1..Len(unput) : Disjoint(held[w], unput[l])
          /\ \A v \in Worker \ {w} : held[v] # NoBundle => Disjoint(held[w], held[v])

\* What is counted and not yet processed is in the consumer's hands.
Progress ==
    Threading =>
        /\ pos[Consumer] = 0 =>
              /\ held[Consumer] = NoBundle /\ processed = 0
              /\ Current.measure = "rating" => counted = 0
        /\ pos[Consumer] > 0 =>
              counted = processed + IF CountedByBundle /\ held[Consumer] # NoBundle
                                    THEN pos[Consumer] - 1 ELSE 0

IInv ==
    /\ TypeInv /\ InHands /\ Idle /\ Filling /\ OnceToWork /\ Progress
    /\ KeptLists /\ FileOfLastSize

-----------------------------------------------------------------------------
(* Sequences of bundles.                                                   *)

LEMMA SeqOfSet ==
    ASSUME NEW S, NEW s \in Seq(S)
    PROVE  IsSeq(s)
BY DEF IsSeq

LEMMA AppendBundle ==
    ASSUME NEW s, AllBundles(s), NEW b, IsBundle(b)
    PROVE  /\ AllBundles(Append(s, b)) /\ Len(s) \in Nat /\ Len(Append(s, b)) = Len(s) + 1
           /\ \A k \in 1..Len(s) : Append(s, b)[k] = s[k]
           /\ Append(s, b)[Len(s) + 1] = b
<1> DEFINE S == {s[k] : k \in DOMAIN s} \cup {b}
<1>1. s \in Seq(S) /\ b \in S
  BY DEF AllBundles, IsSeq
<1>2. /\ Append(s, b) \in Seq(S) /\ Len(s) \in Nat /\ Len(Append(s, b)) = Len(s) + 1
      /\ \A k \in 1..Len(s) : Append(s, b)[k] = s[k]
      /\ Append(s, b)[Len(s) + 1] = b
  BY <1>1
<1>3. \A k \in 1..Len(s) + 1 : IsBundle(Append(s, b)[k])
  BY <1>2 DEF AllBundles
<1> QED
  BY <1>2, <1>3, SeqOfSet DEF AllBundles

LEMMA TailBundles ==
    ASSUME NEW s, AllBundles(s), s # <<>>
    PROVE  /\ AllBundles(Tail(s)) /\ Len(s) \in Nat \ {0} /\ Len(Tail(s)) = Len(s) - 1
           /\ \A k \in 1..Len(s) - 1 : Tail(s)[k] = s[k + 1]
           /\ Head(s) = s[1] /\ IsBundle(Head(s))
<1> DEFINE S == {s[k] : k \in DOMAIN s}
<1>1. s \in Seq(S)
  BY DEF AllBundles, IsSeq
<1>2. /\ Tail(s) \in Seq(S) /\ Len(s) \in Nat \ {0} /\ Len(Tail(s)) = Len(s) - 1
      /\ \A k \in 1..Len(s) - 1 : Tail(s)[k] = s[k + 1]
      /\ Head(s) = s[1]
  BY <1>1
<1>3. IsBundle(s[1]) /\ \A k \in 1..Len(s) - 1 : IsBundle(s[k + 1])
  BY <1>2 DEF AllBundles
<1> QED
  BY <1>2, <1>3, SeqOfSet DEF AllBundles

LEMMA NoBundles == AllBundles(<<>>) /\ AllDisjoint(<<>>) /\ Len(<<>>) = 0
<1>1. <<>> \in Seq({}) /\ Len(<<>>) = 0
  OBVIOUS
<1>2. IsSeq(<<>>)
  BY <1>1, SeqOfSet
<1>3. 1..Len(<<>>) = {}
  BY <1>1
<1> QED
  BY <1>1, <1>2, <1>3 DEF AllBundles, AllDisjoint

\* A task that is answered is the same task.
LEMMA Answered ==
    ASSUME NEW b, IsBundle(b), NEW k \in 1..Len(b), NEW out, NEW c,
           c = [l \in 1..Len(b) |-> c[l]], c[k] = [task |-> b[k].task, out |-> out],
           \A l \in 1..Len(b) : l # k => c[l] = b[l]
    PROVE  IsBundle(c) /\ Len(c) = Len(b) /\ \A l \in 1..Len(b) : c[l].task = b[l].task
<1>1. Len(b) \in Nat
  BY DEF IsBundle
<1>2. Len(c) = Len(b)
  BY <1>1
<1>3. \A l \in 1..Len(b) : IsTask(b[l])
  BY DEF IsBundle
<1>4. ASSUME NEW l \in 1..Len(b) PROVE IsTask(c[l]) /\ c[l].task = b[l].task
  <2>1. CASE l = k
    <3>1. c[k].task = b[k].task /\ c[k].out = out
      BY ONLY c[k] = [task |-> b[k].task, out |-> out]
    <3>2. c[k] = [task |-> c[k].task, out |-> c[k].out]
      BY ONLY <3>1, c[k] = [task |-> b[k].task, out |-> out]
    <3> QED
      BY ONLY <2>1, <3>1, <3>2 DEF IsTask
  <2>2. CASE l # k
    BY <1>3, <2>2
  <2> QED
    BY <2>1, <2>2
<1>5. c = [l \in 1..Len(c) |-> c[l]]
  BY <1>2
<1> QED
  BY <1>1, <1>2, <1>4, <1>5 DEF IsBundle

-----------------------------------------------------------------------------
(* The steps of an evaluation and the bundles of a step.                   *)

StepType == [measure : Measures, size : Nat]

LEMMA ListStepsOf ==
    ASSUME NEW o, IsOption(o), NEW measure \in Measures \ {"rating"}
    PROVE  LET t == ListSteps(o, measure)
           IN /\ Len(t) \in Nat /\ t \in Seq(StepType)
              /\ \A k \in 1..Len(t) : t[k].measure # "rating"
<1> DEFINE n == Len(o.sizes)
           t == [k \in 1..n |-> [measure |-> measure, size |-> o.sizes[k]]]
<1>1. o.sizes \in Seq(Nat)
  BY DEF IsOption
<1>2. DOMAIN o.sizes = 1..n /\ n \in Nat /\ \A k \in 1..n : o.sizes[k] \in Nat
  BY <1>1
<1>3. \A k \in 1..n : [measure |-> measure, size |-> o.sizes[k]] \in StepType
  BY <1>2 DEF StepType
<1>4. t \in Seq(StepType) /\ Len(t) = n /\ \A k \in 1..n : t[k].measure = measure
  BY <1>2, <1>3
<1>5. CASE measure \in o.measures
  <2>1. ListSteps(o, measure) = t
    BY <1>2, <1>5 DEF ListSteps
  <2> QED
    BY <1>2, <1>4, <2>1
<1>6. CASE measure \notin o.measures
  <2>1. ListSteps(o, measure) = <<>>
    BY <1>6 DEF ListSteps
  <2> QED
    BY <2>1
<1> QED
  BY <1>5, <1>6

\* A sequence of steps of which only the first may be the rating.
RatingFirst(s) ==
    /\ s \in Seq(StepType)
    /\ \A n \in 1..Len(s) : s[n].measure = "rating" => n = 1

LEMMA ListStepsAfter ==
    ASSUME NEW s, RatingFirst(s), NEW o, IsOption(o), NEW measure \in Measures \ {"rating"}
    PROVE  RatingFirst(s \o ListSteps(o, measure))
<1> DEFINE t == ListSteps(o, measure)
<1>1. /\ Len(t) \in Nat /\ t \in Seq(StepType)
      /\ \A k \in 1..Len(t) : t[k].measure # "rating"
  BY ListStepsOf
<1> HIDE DEF t
<1>2. /\ s \o t \in Seq(StepType) /\ Len(s) \in Nat /\ Len(s \o t) = Len(s) + Len(t)
      /\ \A n \in 1..Len(s) : (s \o t)[n] = s[n]
      /\ \A n \in Len(s) + 1..Len(s) + Len(t) : (s \o t)[n] = t[n - Len(s)]
  BY <1>1 DEF RatingFirst
<1>3. ASSUME NEW n \in 1..Len(s \o t), (s \o t)[n].measure = "rating" PROVE n = 1
  <2>1. CASE n <= Len(s)
    BY <1>2, <1>3, <2>1 DEF RatingFirst
  <2>2. CASE n > Len(s)
    <3>1. n - Len(s) \in 1..Len(t) /\ (s \o t)[n] = t[n - Len(s)]
      BY <1>1, <1>2, <2>2
    <3> QED
      BY <1>1, <1>3, <3>1
  <2> QED
    BY <1>2, <2>1, <2>2
<1> QED
  BY <1>2, <1>3 DEF RatingFirst, t

\* The rating comes first, and once.
LEMMA StepsOf ==
    ASSUME NEW o, IsOption(o)
    PROVE  RatingFirst(Steps(o))
<1> DEFINE rating == IF "rating" \in o.measures THEN <<[measure |-> "rating", size |-> 0]>> ELSE <<>>
           a == ListSteps(o, "ranking")
           b == ListSteps(o, "coverage")
           c == ListSteps(o, "novelty")
           d == ListSteps(o, "diversity")
<1>1. RatingFirst(rating)
  <2>1. [measure |-> "rating", size |-> 0] \in StepType
    BY DEF StepType, Measures
  <2>2. RatingFirst(<<[measure |-> "rating", size |-> 0]>>)
    BY <2>1 DEF RatingFirst
  <2>3. RatingFirst(<<>>)
    BY DEF RatingFirst
  <2> QED
    BY <2>2, <2>3
<1> HIDE DEF rating
<1>2. {"ranking", "coverage", "novelty", "diversity"} \subseteq Measures \ {"rating"}
  BY DEF Measures
<1>3. RatingFirst(rating \o a)
  BY <1>1, <1>2, ListStepsAfter
<1>4. RatingFirst(rating \o a \o b)
  BY <1>2, <1>3, ListStepsAfter
<1>5. RatingFirst(rating \o a \o b \o c)
  BY <1>2, <1>4, ListStepsAfter
<1>6. RatingFirst(rating \o a \o b \o c \o d)
  BY <1>2, <1>5, ListStepsAfter
<1> QED
  BY <1>6 DEF Steps, rating

\* The tasks of a measure are different.
DifferentTasks(tasks) ==
    Len(tasks) \in Nat /\ \A k, l \in 1..Len(tasks) : tasks[k] = tasks[l] => k = l

LEMMA SetToSeqDiffers ==
    ASSUME NEW S, IsFiniteSet(S)
    PROVE  DifferentTasks(SetToSeq(S))
<1> DEFINE n == Cardinality(S)
           f == SetToSeq(S)
<1>1. n \in Nat /\ ExistsBijection(1..n, S)
  BY FS_CardinalityType
<1>2. \E g \in [1..n -> S] : IsInjective(g)
  BY <1>1 DEF ExistsBijection, Bijection, Injection
<1>3. f \in [1..n -> S] /\ IsInjective(f)
  BY <1>2 DEF SetToSeq
<1> HIDE DEF f, n
<1>4. DOMAIN f = 1..n /\ Len(f) = n
  BY <1>1, <1>3
<1>5. \A k, l \in 1..n : f[k] = f[l] => k = l
  BY <1>3, <1>4 DEF IsInjective
<1> QED
  BY <1>1, <1>4, <1>5 DEF DifferentTasks, f

LEMMA TasksDiffer == \A measure : DifferentTasks(Tasks(measure))
<1> SUFFICES ASSUME NEW measure PROVE DifferentTasks(Tasks(measure))
  OBVIOUS
<1>1. CASE measure = "rating"
  <2> DEFINE S == {p \in User \X Item : p[2] \in DOMAIN dataset.test[p[1]]}
  <2>1. IsFiniteSet(User) /\ IsFiniteSet(Item)
    BY FS_Interval, EvaluationAssumption DEF User, Item
  <2>2. IsFiniteSet(User \X Item)
    BY <2>1, FS_Product
  <2>3. IsFiniteSet(S)
    BY <2>2, FS_Subset
  <2> QED
    BY <1>1, <2>3, SetToSeqDiffers DEF Tasks
<1>2. CASE measure # "rating"
  <2>1. NumUser \in Nat
    BY EvaluationAssumption
  <2>2. Tasks(measure) = [k \in 1..NumUser |-> k - 1]
    BY <1>2, <2>1 DEF Tasks, Range0
  <2> QED
    BY <2>1, <2>2 DEF DifferentTasks
<1> QED
  BY <1>1, <1>2

LEMMA BundleOfTasks ==
    ASSUME NEW tasks, Len(tasks) \in Nat, NEW begin \in Nat, NEW end \in Nat
    PROVE  LET b == BundleOf(tasks, begin, end)
           IN /\ IsBundle(b)
              /\ \A k \in 1..Len(b) : /\ b[k].task = tasks[begin + k]
                                      /\ begin + k \in 1..Len(tasks) /\ begin + k <= end
<1> DEFINE until == IF end < Len(tasks) THEN end ELSE Len(tasks)
           n == IF begin < until THEN until - begin ELSE 0
           b == [k \in 1..n |-> [task |-> tasks[begin + k], out |-> <<>>]]
<1>1. BundleOf(tasks, begin, end) = b
  BY DEF BundleOf
<1>2. n \in Nat /\ Len(b) = n
  OBVIOUS
<1>3. \A k \in 1..n : b[k] = [task |-> tasks[begin + k], out |-> <<>>]
  OBVIOUS
<1>4. \A k \in 1..n : begin + k \in 1..Len(tasks) /\ begin + k <= end
  OBVIOUS
<1>5. b = [k \in 1..Len(b) |-> b[k]]
  BY <1>2
<1> HIDE DEF b, n, until
<1>6. ASSUME NEW k \in 1..n PROVE IsTask(b[k]) /\ b[k].task = tasks[begin + k]
  <2>1. b[k] = [task |-> tasks[begin + k], out |-> <<>>]
    BY <1>3
  <2>2. b[k].task = tasks[begin + k] /\ b[k].out = <<>>
    BY ONLY <2>1
  <2> QED
    BY ONLY <2>1, <2>2 DEF IsTask
<1> QED
  BY <1>1, <1>2, <1>4, <1>5, <1>6 DEF IsBundle

LEMMA Blockwise ==
    ASSUME NEW k \in Nat, NEW l \in Nat, k < l, NEW d \in Nat
    PROVE  (k + 1) * d <= l * d
<1>1. PICK e \in Nat : l = k + 1 + e
  BY l - k - 1 \in Nat, l = k + 1 + (l - k - 1)
<1>2. l * d = (k + 1) * d + e * d
  BY <1>1, SMT
<1>3. e * d >= 0
  BY SMT
<1> QED
  BY <1>2, <1>3, (k + 1) * d \in Int, e * d \in Int, l * d \in Int

LEMMA NthBundlesDisjoint ==
    ASSUME NEW tasks, DifferentTasks(tasks), NEW m \in Nat \ {0}, NEW n \in Nat \ {0}, m < n
    PROVE  Disjoint(NthBundle(tasks, m), NthBundle(tasks, n)) /\ Disjoint(NthBundle(tasks, n), NthBundle(tasks, m))
<1> DEFINE b == NthBundle(tasks, m)
           c == NthBundle(tasks, n)
           y == m * BundleSize
           z == (n - 1) * BundleSize
<1>0. Len(tasks) \in Nat /\ BundleSize \in Nat /\ m - 1 \in Nat /\ n - 1 \in Nat
  BY EvaluationAssumption DEF DifferentTasks
<1>1. /\ (m - 1) * BundleSize \in Nat /\ y \in Nat /\ z \in Nat /\ n * BundleSize \in Nat
  BY <1>0
<1>2. y <= z
  <2>1. m - 1 < n - 1 /\ m - 1 + 1 = m
    BY <1>0
  <2> QED
    BY <1>0, <2>1, Blockwise
<1> DEFINE x == (m - 1) * BundleSize
<1>3. x \in Nat /\ b = BundleOf(tasks, x, y) /\ c = BundleOf(tasks, z, n * BundleSize)
  BY <1>1 DEF NthBundle
<1> HIDE DEF b, c, x, y, z
<1>4. /\ IsBundle(b)
      /\ \A k \in 1..Len(b) : b[k].task = tasks[x + k] /\ x + k \in 1..Len(tasks) /\ x + k <= y
  BY <1>0, <1>1, <1>3, BundleOfTasks
<1>5. IsBundle(c) /\ \A l \in 1..Len(c) : c[l].task = tasks[z + l] /\ z + l \in 1..Len(tasks)
  BY <1>0, <1>1, <1>3, BundleOfTasks
<1>6. ASSUME NEW k \in 1..Len(b), NEW l \in 1..Len(c) PROVE b[k].task # c[l].task
  <2>1. Len(b) \in Nat /\ Len(c) \in Nat
    BY <1>4, <1>5 DEF IsBundle
  <2>2. x + k # z + l
    BY <1>1, <1>2, <1>3, <1>4, <2>1
  <2>3. tasks[x + k] # tasks[z + l]
    BY <1>4, <1>5, <2>2 DEF DifferentTasks
  <2> QED
    BY <1>4, <1>5, <2>3
<1> QED
  BY <1>6 DEF Disjoint, b, c

\* The bundles of a measure.
LEMMA BundlesOf == \A measure : AllBundles(Bundles(measure)) /\ AllDisjoint(Bundles(measure))
<1> SUFFICES ASSUME NEW measure PROVE AllBundles(Bundles(measure)) /\ AllDisjoint(Bundles(measure))
  OBVIOUS
<1> DEFINE tasks  == Tasks(measure)
           number == (Len(tasks) + BundleSize - 1) \div BundleSize
           many   == IF number = 0 /\ measure # "coverage" THEN 1 ELSE number
           b      == [n \in 1..many |-> NthBundle(tasks, n)]
<1>1. DifferentTasks(tasks)
  BY TasksDiffer
<1>2. many \in Nat /\ BundleSize \in Nat
  BY <1>1, EvaluationAssumption DEF DifferentTasks
<1>3. Bundles(measure) = b
  BY DEF Bundles
<1> HIDE DEF tasks, many
<1>4. Len(b) = many /\ (\A n \in 1..many : b[n] = NthBundle(tasks, n)) /\ IsSeq(b)
  <2>1. b \in Seq({b[k] : k \in DOMAIN b})
    BY <1>2
  <2> QED
    BY <1>2, <2>1 DEF IsSeq
<1> HIDE DEF b
<1>5. ASSUME NEW n \in 1..many PROVE IsBundle(NthBundle(tasks, n))
  <2>1. (n - 1) * BundleSize \in Nat /\ n * BundleSize \in Nat
    BY <1>2
  <2> QED
    BY <1>1, <2>1, BundleOfTasks DEF NthBundle, DifferentTasks
<1>6. ASSUME NEW m \in 1..many, NEW n \in 1..many, m # n
      PROVE  Disjoint(b[m], b[n])
  <2>1. m \in Nat \ {0} /\ n \in Nat \ {0} /\ (m < n \/ n < m)
    BY <1>2, <1>6
  <2> QED
    BY <1>1, <1>4, <2>1, NthBundlesDisjoint
<1> QED
  BY <1>3, <1>4, <1>5, <1>6 DEF AllBundles, AllDisjoint

-----------------------------------------------------------------------------
(* Lists.                                                                  *)

\* A shorter list is the beginning of a longer one.
LEMMA Beginning ==
    \A u : \A long \in Nat : \A n \in 0..long :
        Len(TopNItem(u, n)) = n /\ SubSeq(TopNItem(u, long), 1, n) = TopNItem(u, n)
<1> SUFFICES ASSUME NEW u, NEW long \in Nat, NEW n \in 0..long
             PROVE  Len(TopNItem(u, n)) = n /\ SubSeq(TopNItem(u, long), 1, n) = TopNItem(u, n)
  OBVIOUS
<1> DEFINE ranking == Ranking(dataset.train[u], dataset.score[u])
           item(k) == IF k <= Len(ranking) THEN ranking[k] ELSE 0
           s == [k \in 1..long |-> item(k)]
           S == {item(k) : k \in 1..long}
<1>1. TopNItem(u, n) = [k \in 1..n |-> item(k)] /\ TopNItem(u, long) = s
  BY DEF TopNItem
<1>2. s \in Seq(S) /\ Len(s) = long
  OBVIOUS
<1>3. \A k \in 1..n : s[k] = item(k)
  OBVIOUS
<1> HIDE DEF s, S, item
<1>4. SubSeq(s, 1, n) = [k \in 1..n |-> s[k]]
  BY <1>2
<1>5. Len([k \in 1..n |-> item(k)]) = n
  OBVIOUS
<1> QED
  BY <1>1, <1>3, <1>4, <1>5

LEMMA SameLists ==
    dataset' = dataset => \A u, n : TopNItem(u, n)' = TopNItem(u, n)
BY DEF TopNItem

-----------------------------------------------------------------------------
(* What all steps have in common.                                          *)

LEMMA RolesApart == Consumer \notin Worker /\ Producer \notin Getter /\ Consumer \in Getter /\ Worker \subseteq Getter
BY EvaluationAssumption DEF Consumer, Producer, Getter

LEMMA CurrentStep ==
    TypeInv /\ ~Finished =>
        /\ step + 1 \in 1..Len(Steps(option)) /\ step \in Nat
        /\ Current.size \in Nat /\ Current.measure \in Measures
        /\ Current.measure = "rating" => step = 0
<1> SUFFICES ASSUME TypeInv, ~Finished
             PROVE  /\ step + 1 \in 1..Len(Steps(option)) /\ step \in Nat
                    /\ Current.size \in Nat /\ Current.measure \in Measures
                    /\ Current.measure = "rating" => step = 0
  OBVIOUS
<1>1. RatingFirst(Steps(option))
  BY StepsOf DEF TypeInv
<1>2. step + 1 \in 1..Len(Steps(option)) /\ step \in Nat
  BY <1>1 DEF TypeInv, Finished, RatingFirst
<1>3. Current \in StepType
  BY <1>1, <1>2 DEF Current, RatingFirst
<1> QED
  BY <1>1, <1>2, <1>3 DEF Current, RatingFirst, StepType

\* A list is the beginning of its user's ranking wherever it comes from.
LEMMA ListOf ==
    TypeInv /\ KeptLists =>
        \A u \in User : \A size \in Nat :
            (IF InCache(u, size) THEN PredictTopNItemFromCache(u, size) ELSE TopNItem(u, size)) = TopNItem(u, size)
BY Beginning DEF KeptLists, InCache, PredictTopNItemFromCache

LEMMA CacheFilled ==
    ASSUME TypeInv, KeptLists, dataset' = dataset, NEW size \in Nat,
           cached' = [u \in User |-> IF InCache(u, size) THEN cached[u]
                                     ELSE IF InCache(u, size) THEN PredictTopNItemFromCache(u, size)
                                     ELSE TopNItem(u, size)]
    PROVE  KeptLists' /\ cached' = [u \in User |-> cached'[u]]
<1>1. ASSUME NEW u \in User
      PROVE  Len(cached'[u]) \in Nat /\ cached'[u] = TopNItem(u, Len(cached'[u]))
  <2>1. CASE InCache(u, size)
    BY <2>1 DEF KeptLists
  <2>2. CASE ~InCache(u, size)
    <3>1. cached'[u] = TopNItem(u, size)
      BY <2>2
    <3> QED
      BY <3>1, Beginning
  <2> QED
    BY <2>1, <2>2
<1> QED
  BY <1>1, SameLists DEF KeptLists

LEMMA SameFile == FileOfLastSize /\ UNCHANGED <<given, written>> => FileOfLastSize'
BY SameLists DEF FileOfLastSize, given

LEMMA SameCache == KeptLists /\ UNCHANGED <<given, cached>> => KeptLists'
BY SameLists DEF KeptLists, given

-----------------------------------------------------------------------------
(* The evaluation goes on to its next step.                                *)

LEMMA Advances ==
    ASSUME TypeInv, ~Finished, UNCHANGED given, NEW result, Advance(result)
    PROVE  /\ step' \in 1..Len(Steps(option))
           /\ AllBundles(unput') /\ (unput' = unput \/ AllDisjoint(unput'))
           /\ ~option.accelerate => unput' \in {<<>>, unput}
           /\ counted' \in Nat /\ processed' \in Nat
           /\ ~Finished' => processed' = 0 /\ Current'.measure # "rating"
<1> DEFINE next  == step + 1
           steps == Steps(option)
<1>1. next \in 1..Len(steps) /\ step' = next /\ Steps(option)' = steps
  BY CurrentStep DEF Advance, given
<1>2. CASE next = Len(steps)
  <2>1. UNCHANGED <<unput, counted, processed>> /\ Finished'
    BY <1>1, <1>2 DEF Advance, Finished
  <2> QED
    BY <1>1, <2>1 DEF TypeInv
<1>3. CASE next # Len(steps)
  <2>1. /\ unput' = IF option.accelerate THEN Bundles(steps[next + 1].measure) ELSE <<>>
        /\ counted' = IF steps[next + 1].measure = Current.measure THEN counted ELSE 0
        /\ processed' = 0
    BY <1>1, <1>3 DEF Advance
  <2>2. AllBundles(unput') /\ AllDisjoint(unput')
    BY <2>1, BundlesOf, NoBundles
  <2>3. counted' \in Nat
    BY <2>1 DEF TypeInv
  <2>4. Current'.measure # "rating"
    <3>1. RatingFirst(steps)
      BY StepsOf DEF TypeInv
    <3>2. next + 1 \in 1..Len(steps) /\ next + 1 # 1 /\ Current' = steps[next + 1]
      BY <1>1, <1>3, <3>1 DEF Current, RatingFirst
    <3> QED
      BY <3>1, <3>2 DEF RatingFirst
  <2> QED
    BY <1>1, <2>1, <2>2, <2>3, <2>4
<1> QED
  BY <1>2, <1>3

LEMMA EvaluateSTKeeps == IInv /\ EvaluateST => IInv'
<1> SUFFICES ASSUME IInv, EvaluateST PROVE IInv'
  OBVIOUS
<1> USE DEF IInv
<1>1. /\ UNCHANGED <<pipeline, given, pos, filling, written>> /\ ~Finished /\ ~option.accelerate
      /\ \E result : Advance(result)
  BY DEF EvaluateST
<1>2. UNCHANGED <<toWork, toConsume, held, left, dataset, option>>
  BY <1>1 DEF pipeline, given
<1>3. unput' = <<>> /\ step' \in 0..Len(Steps(option)) /\ counted' \in Nat /\ processed' \in Nat
  BY <1>1, Advances DEF Idle
<1>4. KeptLists' /\ cached' = [u \in User |-> cached'[u]]
  <2>1. CASE Current.measure = "rating"
    <3>1. cached' = cached
      BY <2>1 DEF EvaluateST
    <3> QED
      BY <1>1, <3>1, SameCache DEF TypeInv
  <2>2. CASE Current.measure # "rating"
    <3>1. Current.size \in Nat
      BY <1>1, CurrentStep
    <3> QED
      BY <1>2, <2>2, <3>1, CacheFilled DEF EvaluateST
  <2> QED
    BY <2>1, <2>2
<1>5. TypeInv'
  BY <1>1, <1>2, <1>3, <1>4, NoBundles DEF TypeInv
<1>6. InHands' /\ Idle'
  BY <1>1, <1>2, <1>3 DEF InHands, Idle
<1>7. \A t \in Getter : held[t] = NoBundle
  BY <1>1 DEF Idle
<1>8. Filling'
  BY <1>1, <1>2, <1>7, RolesApart DEF Filling, AtTask
<1>9. OnceToWork'
  <2>1. toWork' = <<>> /\ \A w \in Worker : held'[w] = NoBundle
    BY <1>1, <1>2, <1>7, RolesApart DEF Idle
  <2> QED
    BY <1>3, <2>1, NoBundles DEF OnceToWork
<1>10. Progress'
  BY <1>1, <1>2 DEF Progress, Threading
<1>11. FileOfLastSize'
  BY <1>1, SameFile
<1> QED
  BY <1>4, <1>5, <1>6, <1>8, <1>9, <1>10, <1>11

LEMMA EvaluateReturnsKeeps == IInv /\ EvaluateReturns => IInv'
<1> SUFFICES ASSUME IInv, EvaluateReturns PROVE IInv'
  OBVIOUS
<1> USE DEF IInv
<1>1. /\ ~Finished /\ option.accelerate /\ left = Getter \cup {Producer}
      /\ \E result : Advance(result)
      /\ toWork' = <<>> /\ toConsume' = <<>> /\ left' = {}
      /\ held' = [t \in Getter |-> NoBundle] /\ pos' = [t \in Getter |-> 0]
      /\ UNCHANGED <<given, filling, cached, written>>
  BY DEF EvaluateReturns, Getter
<1>2. UNCHANGED <<dataset, option>>
  BY <1>1 DEF given
<1>3. /\ step' \in 1..Len(Steps(option)) /\ AllBundles(unput') /\ (unput' = unput \/ AllDisjoint(unput'))
      /\ counted' \in Nat /\ processed' \in Nat
      /\ ~Finished' => processed' = 0 /\ Current'.measure # "rating"
  BY <1>1, Advances
<1>4. KeptLists' /\ FileOfLastSize'
  BY <1>1, SameCache, SameFile
<1>5. TypeInv'
  BY <1>1, <1>2, <1>3, NoBundles DEF TypeInv
<1>6. InHands' /\ Idle'
  BY <1>1, <1>2 DEF InHands, Idle
<1>7. \A w \in Worker : filling[w] = <<>>
  BY <1>1, RolesApart DEF InHands, Filling, AtTask
<1>8. Filling'
  BY <1>1, <1>7 DEF Filling
<1>9. OnceToWork'
  BY <1>1, <1>3, NoBundles, RolesApart DEF OnceToWork
<1>10. Progress'
  BY <1>1, <1>3, RolesApart DEF Progress, Threading
<1> QED
  BY <1>4, <1>5, <1>6, <1>8, <1>9, <1>10

LEMMA WriteRankingResultKeeps == IInv /\ WriteRankingResult => IInv'
<1> SUFFICES ASSUME IInv, WriteRankingResult PROVE IInv'
  OBVIOUS
<1> USE DEF IInv
<1> DEFINE size == Last(option.sizes)
<1>1. /\ Finished
      /\ UNCHANGED <<pipeline, given, step, unput, pos, filling, sums, watching, results>>
  BY DEF WriteRankingResult
<1>2. UNCHANGED <<toWork, toConsume, held, left, dataset, option, processed, counted>>
  BY <1>1 DEF pipeline, given, sums
<1>3. size \in Nat
  <2>1. option.sizes # <<>> /\ option.sizes \in Seq(Nat)
    BY DEF WriteRankingResult, TypeInv, IsOption
  <2> QED
    BY <2>1 DEF Last
<1>4. KeptLists' /\ cached' = [u \in User |-> cached'[u]]
  BY <1>2, <1>3, CacheFilled DEF WriteRankingResult
<1>5. \A u \in User : written'[u] = TopNItem(u, size)
  BY <1>3, ListOf DEF WriteRankingResult
<1>6. FileOfLastSize'
  BY <1>2, <1>5, SameLists DEF FileOfLastSize
<1>7. TypeInv'
  BY <1>1, <1>2, <1>4 DEF TypeInv
<1>8. InHands' /\ Idle' /\ OnceToWork'
  BY <1>1, <1>2 DEF InHands, Idle, OnceToWork
<1>9. Filling'
  BY <1>1, <1>2, SameLists DEF Filling, AtTask, TaskOf, Current
<1>10. Progress'
  BY <1>1, <1>2 DEF Progress, Threading, Finished
<1> QED
  BY <1>4, <1>6, <1>7, <1>8, <1>9, <1>10

-----------------------------------------------------------------------------
(* What the steps of the threads have in common.                           *)

LEMMA ThreadStep ==
    IInv /\ UNCHANGED <<given, step, outcome>> =>
        /\ UNCHANGED <<dataset, option, step>> /\ Steps(option)' = Steps(option)
        /\ Threading' = Threading /\ Current' = Current /\ CountedByBundle' = CountedByBundle
        /\ FileOfLastSize' /\ (option.accelerate => Idle')
<1> SUFFICES ASSUME IInv, UNCHANGED <<given, step, outcome>>
             PROVE  /\ UNCHANGED <<dataset, option, step>> /\ Steps(option)' = Steps(option)
                    /\ Threading' = Threading /\ Current' = Current /\ CountedByBundle' = CountedByBundle
                    /\ FileOfLastSize' /\ (option.accelerate => Idle')
  OBVIOUS
<1>1. UNCHANGED <<dataset, option, step, written>>
  BY DEF given, outcome
<1>2. FileOfLastSize'
  BY <1>1, SameFile DEF IInv, given
<1>3. Steps(option)' = Steps(option)
  BY <1>1
<1>4. Threading' = Threading /\ Current' = Current
  BY <1>1, <1>3 DEF Threading, Finished, Current
<1>5. CountedByBundle' = CountedByBundle
  BY <1>4 DEF CountedByBundle
<1> QED
  BY <1>1, <1>2, <1>3, <1>4, <1>5 DEF Idle

\* Workers that keep their hands still, or are done with their list.
LEMMA FillingStays ==
    ASSUME Filling, dataset' = dataset, Current' = Current,
           \A v \in Worker : \/ filling'[v] = <<>>
                             \/ filling'[v] = filling[v] /\ held'[v] = held[v] /\ pos'[v] = pos[v]
    PROVE  Filling'
<1>1. ASSUME NEW v \in Worker, filling'[v] # <<>>
      PROVE  /\ AtTask(v)' /\ Current'.measure # "rating"
             /\ Len(filling'[v]) \in Nat /\ filling'[v] = TopNItem(TaskOf(v), Len(filling[v]))'
  <2>1. filling'[v] = filling[v] /\ held'[v] = held[v] /\ pos'[v] = pos[v]
    BY <1>1
  <2>2. AtTask(v)' /\ TaskOf(v)' = TaskOf(v) /\ Current'.measure # "rating"
    BY <1>1, <2>1 DEF Filling, AtTask, TaskOf
  <2>3. Len(filling[v]) \in Nat /\ filling[v] = TopNItem(TaskOf(v), Len(filling[v]))
    BY <1>1, <2>1 DEF Filling
  <2>4. TopNItem(TaskOf(v), Len(filling[v]))' = TopNItem(TaskOf(v), Len(filling[v]))
    BY <2>1, <2>2 DEF TopNItem
  <2> QED
    BY <2>1, <2>2, <2>3, <2>4
<1> QED
  BY <1>1 DEF Filling

LEMMA SameTasks ==
    ASSUME NEW b, NEW b2, Len(b2) = Len(b), \A k \in 1..Len(b) : b2[k].task = b[k].task
    PROVE  \A c : /\ Disjoint(b, c) => Disjoint(b2, c)
                  /\ Disjoint(c, b) => Disjoint(c, b2)
BY DEF Disjoint

LEMMA AnswerKeeps ==
    ASSUME IInv, NEW w \in Worker, AtTask(w), NEW out, Answer(w, out),
           UNCHANGED <<given, step, unput, sums, outcome>>
    PROVE  /\ held' = [t \in Getter |-> held'[t]] /\ pos' \in [Getter -> Nat]
           /\ \A t \in Getter \ {w} : held'[t] = held[t] /\ pos'[t] = pos[t]
           /\ UNCHANGED <<toWork, toConsume, unput, counted, processed>>
           /\ InHands' /\ Idle' /\ OnceToWork' /\ Progress'
<1> DEFINE b == held[w]
<1>0. UNCHANGED <<toWork, toConsume, left, unput, counted, processed>>
  BY DEF Answer, sums
<1>1. /\ UNCHANGED <<dataset, option, step>> /\ Threading' = Threading
      /\ Current' = Current /\ CountedByBundle' = CountedByBundle
  BY ThreadStep
<1>2. w \in Getter /\ w # Consumer /\ Consumer \in Getter /\ Worker \subseteq Getter
  BY RolesApart
<1>3. IsBundle(b) /\ pos[w] \in 1..Len(b) /\ Len(b) \in Nat /\ b # NoBundle
  BY <1>2 DEF IInv, InHands, AtTask, IsBundle
<1>4. /\ held' = [t \in Getter |-> held'[t]] /\ pos' \in [Getter -> Nat]
      /\ pos'[w] = pos[w] + 1 /\ held'[w] = [b EXCEPT ![pos[w]].out = out]
      /\ \A t \in Getter \ {w} : held'[t] = held[t] /\ pos'[t] = pos[t]
  <2>1. /\ held' = [held EXCEPT ![w][pos[w]].out = out] /\ pos' = [pos EXCEPT ![w] = @ + 1]
    BY DEF Answer
  <2>2. held = [t \in Getter |-> held[t]] /\ pos \in [Getter -> Nat]
    BY DEF IInv, TypeInv
  <2>3. held' = [held EXCEPT ![w] = [b EXCEPT ![pos[w]].out = out]]
    BY ONLY <2>1, <1>2, <2>2
  <2>4. /\ held' = [t \in Getter |-> held'[t]] /\ held'[w] = [b EXCEPT ![pos[w]].out = out]
        /\ \A t \in Getter \ {w} : held'[t] = held[t]
    BY ONLY <1>2, <2>2, <2>3
  <2> QED
    BY ONLY <1>2, <2>1, <2>2, <2>4
<1>5. /\ IsBundle(held'[w]) /\ Len(held'[w]) = Len(b)
      /\ \A k \in 1..Len(b) : held'[w][k].task = b[k].task
  <2> SUFFICES ASSUME NEW c, c = held'[w], NEW k, k = pos[w]
               PROVE  IsBundle(c) /\ Len(c) = Len(b) /\ \A l \in 1..Len(b) : c[l].task = b[l].task
    OBVIOUS
  <2>1. c = [b EXCEPT ![k].out = out]
    BY ONLY <1>4, c = held'[w], k = pos[w]
  <2>2. k \in 1..Len(b)
    BY <1>3
  <2>3. Len(b) \in Nat /\ DOMAIN b = 1..Len(b) /\ IsTask(b[k])
    BY <1>3, <2>2 DEF IsBundle
  <2>4. [b[k] EXCEPT !.out = out] = [task |-> b[k].task, out |-> out]
    BY <2>3 DEF IsTask
  <2>5. /\ c = [l \in 1..Len(b) |-> c[l]] /\ c[k] = [task |-> b[k].task, out |-> out]
        /\ \A l \in 1..Len(b) : l # k => c[l] = b[l]
    <3>1. c = [b EXCEPT ![k] = [task |-> b[k].task, out |-> out]]
      BY ONLY <2>1, <2>4
    <3> HIDE DEF b
    <3> QED
      BY ONLY <2>2, <2>3, <3>1
  <2>6. IsBundle(b)
    BY <1>3
  <2> HIDE DEF b
  <2> QED
    BY ONLY <2>2, <2>5, <2>6, Answered
<1>6. InHands'
  <2> SUFFICES ASSUME NEW t \in Getter
               PROVE  /\ held'[t] # NoBundle => IsBundle(held'[t]) /\ pos'[t] \in 1..Len(held'[t]) + 1
                      /\ t \in left' => held'[t] = NoBundle
    BY DEF InHands
  <2>1. CASE t = w
    <3>1. pos'[w] \in 1..Len(b) + 1
      BY <1>3, <1>4
    <3>2. w \notin left
      BY <1>2, <1>3 DEF IInv, InHands
    <3> QED
      BY ONLY <1>0, <1>5, <2>1, <3>1, <3>2
  <2>2. CASE t # w
    BY <1>0, <1>4, <2>2 DEF IInv, InHands
  <2> QED
    BY <2>1, <2>2
<1>7. Idle'
  BY <1>1, <1>2, <1>3, ThreadStep DEF IInv, Idle
<1>8. OnceToWork'
  <2>1. \A c : /\ Disjoint(b, c) => Disjoint(held'[w], c)
               /\ Disjoint(c, b) => Disjoint(c, held'[w])
    BY <1>5, SameTasks
  <2>2. ASSUME NEW v \in Worker, held'[v] # NoBundle
        PROVE  /\ \A k \in 1..Len(toWork) : Disjoint(held'[v], toWork[k])
               /\ \A l \in 1..Len(unput) : Disjoint(held'[v], unput[l])
               /\ \A x \in Worker \ {v} : held'[x] # NoBundle => Disjoint(held'[v], held'[x])
    <3>1. CASE v = w
      BY <1>2, <1>3, <1>4, <2>1, <3>1 DEF IInv, OnceToWork
    <3>2. CASE v # w
      BY <1>2, <1>3, <1>4, <2>1, <2>2, <3>2 DEF IInv, OnceToWork
    <3> QED
      BY <3>1, <3>2
  <2> QED
    BY <1>0, <2>2 DEF IInv, OnceToWork
<1>9. Progress'
  <2>1. held'[Consumer] = held[Consumer] /\ pos'[Consumer] = pos[Consumer]
    BY <1>2, <1>4
  <2> QED
    BY <1>0, <1>1, <2>1 DEF IInv, Progress
<1> QED
  BY <1>0, <1>4, <1>6, <1>7, <1>8, <1>9

LEMMA PredictRatingKeeps == ASSUME NEW w \in Worker PROVE IInv /\ PredictRating(w) => IInv'
<1> SUFFICES ASSUME IInv, PredictRating(w) PROVE IInv'
  OBVIOUS
<1>1. /\ AtTask(w) /\ Answer(w, Errors(TaskOf(w)))
      /\ UNCHANGED <<given, step, unput, filling, cached, sums, watching, outcome>>
      /\ Current.measure = "rating"
  BY DEF PredictRating
<1>2. /\ held' = [t \in Getter |-> held'[t]] /\ pos' \in [Getter -> Nat]
      /\ \A t \in Getter \ {w} : held'[t] = held[t] /\ pos'[t] = pos[t]
      /\ UNCHANGED <<toWork, toConsume, unput, counted, processed>>
      /\ InHands' /\ Idle' /\ OnceToWork' /\ Progress'
  BY <1>1, AnswerKeeps
<1>3. /\ UNCHANGED <<dataset, option, step>> /\ Steps(option)' = Steps(option) /\ FileOfLastSize'
      /\ Current' = Current
  BY <1>1, ThreadStep
<1>4. TypeInv'
  BY <1>1, <1>2, <1>3 DEF IInv, TypeInv
<1>5. Filling'
  <2>1. filling'[w] = <<>>
    BY <1>1 DEF IInv, Filling
  <2>2. \A v \in Worker \ {w} : filling'[v] = filling[v] /\ held'[v] = held[v] /\ pos'[v] = pos[v]
    BY <1>1, <1>2, RolesApart
  <2> QED
    BY <1>3, <2>1, <2>2, FillingStays DEF IInv
<1>6. KeptLists'
  BY <1>1, SameCache DEF IInv
<1> QED
  BY <1>2, <1>3, <1>4, <1>5, <1>6 DEF IInv

LEMMA LookForListKeeps == ASSUME NEW w \in Worker PROVE IInv /\ LookForList(w) => IInv'
<1> SUFFICES ASSUME IInv, LookForList(w) PROVE IInv'
  OBVIOUS
<1> DEFINE u == TaskOf(w)
           size == Current.size
<1>1. /\ AtTask(w) /\ Threading /\ Current.measure # "rating" /\ filling[w] = <<>>
      /\ UNCHANGED <<given, step, unput, cached, sums, watching, outcome>>
  BY DEF LookForList
<1>2. /\ UNCHANGED <<dataset, option, step>> /\ Steps(option)' = Steps(option) /\ FileOfLastSize'
      /\ Threading' = Threading /\ Current' = Current /\ CountedByBundle' = CountedByBundle
      /\ Idle'
  BY <1>1, ThreadStep DEF Threading
<1>3. KeptLists'
  BY <1>1, SameCache DEF IInv
<1>4. CASE InCache(u, size)
  <2>1. UNCHANGED filling /\ Answer(w, Contribution(Current.measure, u, PredictTopNItemFromCache(u, size)))
    BY <1>4 DEF LookForList
  <2>2. /\ held' = [t \in Getter |-> held'[t]] /\ pos' \in [Getter -> Nat]
        /\ \A t \in Getter \ {w} : held'[t] = held[t] /\ pos'[t] = pos[t]
        /\ UNCHANGED <<toWork, toConsume, unput, counted, processed>>
        /\ InHands' /\ Idle' /\ OnceToWork' /\ Progress'
    BY <1>1, <2>1, AnswerKeeps
  <2>3. TypeInv'
    BY <1>1, <1>2, <2>1, <2>2 DEF IInv, TypeInv
  <2>4. Filling'
    <3>1. \A v \in Worker \ {w} : filling'[v] = filling[v] /\ held'[v] = held[v] /\ pos'[v] = pos[v]
      BY <2>1, <2>2, RolesApart
    <3> QED
      BY <1>1, <1>2, <2>1, <3>1, FillingStays DEF IInv
  <2> QED
    BY <1>2, <1>3, <2>2, <2>3, <2>4 DEF IInv
<1>5. CASE ~InCache(u, size)
  <2>1. filling' = [filling EXCEPT ![w] = TopNItem(u, size)] /\ UNCHANGED <<pipeline, pos>>
    BY <1>5 DEF LookForList
  <2>2. UNCHANGED <<toWork, toConsume, held, left, pos, unput, counted, processed, cached>>
    BY <1>1, <2>1 DEF pipeline, sums
  <2>3. filling = [v \in Worker |-> filling[v]]
    BY DEF IInv, TypeInv
  <2>4. /\ filling' = [v \in Worker |-> filling'[v]] /\ filling'[w] = TopNItem(u, size)
        /\ \A v \in Worker \ {w} : filling'[v] = filling[v]
    BY <2>1, <2>3
  <2>5. TypeInv'
    BY <1>2, <2>2, <2>4 DEF IInv, TypeInv
  <2>6. InHands' /\ OnceToWork'
    BY <2>2 DEF IInv, InHands, OnceToWork
  <2>7. Progress'
    BY <1>2, <2>2 DEF IInv, Progress
  <2>8. Filling'
    <3>1. size \in Nat
      BY <1>1, CurrentStep DEF IInv, Threading
    <3>2. AtTask(w)' /\ TaskOf(w)' = u
      BY <1>1, <2>2 DEF AtTask, TaskOf
    <3>3. Len(filling'[w]) = size /\ TopNItem(TaskOf(w), Len(filling[w]))' = filling'[w]
      <4>1. Len(filling'[w]) = size
        BY <2>4, <3>1, Beginning
      <4>2. TopNItem(TaskOf(w), Len(filling[w]))' = TopNItem(u, size)
        BY <1>2, <3>2, <4>1 DEF TopNItem
      <4> QED
        BY <2>4, <4>1, <4>2
    <3>4. \A v \in Worker : AtTask(v)' = AtTask(v) /\ TaskOf(v)' = TaskOf(v)
      BY <2>2 DEF AtTask, TaskOf
    <3>5. ASSUME NEW v \in Worker, filling'[v] # <<>>
          PROVE  /\ AtTask(v)' /\ Current'.measure # "rating"
                 /\ Len(filling'[v]) \in Nat /\ filling'[v] = TopNItem(TaskOf(v), Len(filling[v]))'
      <4>1. CASE v = w
        BY <1>1, <1>2, <2>4, <3>1, <3>2, <3>3, <4>1
      <4>2. CASE v # w
        <5>1. /\ AtTask(v) /\ Current.measure # "rating"
              /\ Len(filling[v]) \in Nat /\ filling[v] = TopNItem(TaskOf(v), Len(filling[v]))
          BY <2>4, <3>5, <4>2 DEF IInv, Filling
        <5>2. TopNItem(TaskOf(v), Len(filling[v]))' = TopNItem(TaskOf(v), Len(filling[v]))
          BY <1>2, <2>4, <3>4, <4>2 DEF TopNItem
        <5> QED
          BY <1>2, <2>4, <3>4, <4>2, <5>1, <5>2
      <4> QED
        BY <4>1, <4>2
    <3> QED
      BY <3>5 DEF Filling
  <2> QED
    BY <1>2, <1>3, <2>5, <2>6, <2>7, <2>8 DEF IInv
<1> QED
  BY <1>4, <1>5

LEMMA KeepListKeeps == ASSUME NEW w \in Worker PROVE IInv /\ KeepList(w) => IInv'
<1> SUFFICES ASSUME IInv, KeepList(w) PROVE IInv'
  OBVIOUS
<1> DEFINE u == TaskOf(w)
<1>1. /\ filling[w] # <<>> /\ cached' = [cached EXCEPT ![u] = filling[w]]
      /\ Answer(w, Contribution(Current.measure, u, filling[w]))
      /\ filling' = [filling EXCEPT ![w] = <<>>]
      /\ UNCHANGED <<given, step, unput, sums, watching, outcome>>
  BY DEF KeepList
<1>2. AtTask(w) /\ Len(filling[w]) \in Nat /\ filling[w] = TopNItem(u, Len(filling[w]))
  BY <1>1 DEF IInv, Filling
<1>3. /\ UNCHANGED <<dataset, option, step>> /\ Steps(option)' = Steps(option) /\ FileOfLastSize'
      /\ Current' = Current
  BY <1>1, ThreadStep
<1>4. /\ held' = [t \in Getter |-> held'[t]] /\ pos' \in [Getter -> Nat]
      /\ \A t \in Getter \ {w} : held'[t] = held[t] /\ pos'[t] = pos[t]
      /\ UNCHANGED <<toWork, toConsume, unput, counted, processed>>
      /\ InHands' /\ Idle' /\ OnceToWork' /\ Progress'
  BY <1>1, <1>2, AnswerKeeps
<1>5. cached = [v \in User |-> cached[v]] /\ filling = [v \in Worker |-> filling[v]]
  BY DEF IInv, TypeInv
<1>6. KeptLists' /\ cached' = [v \in User |-> cached'[v]]
  <2>1. ASSUME NEW v \in User
        PROVE  Len(cached'[v]) \in Nat /\ cached'[v] = TopNItem(v, Len(cached'[v]))
    <3>1. CASE v = u
      <4>1. cached'[v] = filling[w]
        BY <1>1, <1>5, <3>1
      <4> QED
        BY <1>2, <3>1, <4>1
    <3>2. CASE v # u
      <4>1. cached'[v] = cached[v]
        BY <1>1, <1>5, <3>2
      <4> QED
        BY <4>1 DEF IInv, KeptLists
    <3> QED
      BY <3>1, <3>2
  <2>2. KeptLists'
    BY <1>3, <2>1, SameLists DEF KeptLists
  <2> QED
    BY <1>1, <1>5, <2>2
<1>7. /\ filling' = [v \in Worker |-> filling'[v]] /\ filling'[w] = <<>>
      /\ \A v \in Worker \ {w} : filling'[v] = filling[v]
  BY <1>1, <1>5
<1>8. TypeInv'
  BY <1>3, <1>4, <1>6, <1>7 DEF IInv, TypeInv
<1>9. Filling'
  BY <1>3, <1>4, <1>7, RolesApart, FillingStays DEF IInv
<1> QED
  BY <1>3, <1>4, <1>6, <1>8, <1>9 DEF IInv

LEMMA DisjointBoth == \A b, c : Disjoint(b, c) => Disjoint(c, b)
BY DEF Disjoint

LEMMA ProducerRunKeeps == IInv /\ ProducerRun => IInv'
<1> SUFFICES ASSUME IInv, ProducerRun PROVE IInv'
  OBVIOUS
<1>1. /\ Threading /\ UNCHANGED <<given, step, pos, filling, cached, sums, watching, outcome>>
      /\ UNCHANGED <<toConsume, held, counted, processed>>
  BY DEF ProducerRun, Pipeline!ProducerPutTask, Pipeline!ProducerDone, sums
<1>2. /\ UNCHANGED <<dataset, option, step>> /\ Steps(option)' = Steps(option) /\ FileOfLastSize'
      /\ Threading' = Threading /\ Current' = Current /\ CountedByBundle' = CountedByBundle
      /\ Idle'
  BY <1>1, ThreadStep DEF Threading
<1>3. KeptLists' /\ Filling'
  BY <1>1, <1>2, SameCache, FillingStays DEF IInv
<1>4. Progress'
  BY <1>1, <1>2 DEF IInv, Progress
<1>5. CASE unput # <<>>
  <2> DEFINE b == Head(unput)
  <2>1. left' = left /\ toWork' = Append(toWork, b) /\ unput' = Tail(unput)
    BY <1>5 DEF ProducerRun, Pipeline!ProducerPutTask
  <2>2. AllBundles(toWork) /\ AllBundles(unput)
    BY DEF IInv, TypeInv
  <2>3. /\ AllBundles(unput') /\ Len(unput) \in Nat \ {0} /\ Len(unput') = Len(unput) - 1
        /\ \A k \in 1..Len(unput) - 1 : unput'[k] = unput[k + 1]
        /\ b = unput[1] /\ IsBundle(b)
    BY <1>5, <2>1, <2>2, TailBundles
  <2> HIDE DEF b
  <2>4. /\ AllBundles(toWork') /\ Len(toWork) \in Nat /\ Len(toWork') = Len(toWork) + 1
        /\ \A k \in 1..Len(toWork) : toWork'[k] = toWork[k]
        /\ toWork'[Len(toWork) + 1] = b
    BY <2>1, <2>2, <2>3, AppendBundle
  <2>5. TypeInv'
    BY <1>1, <1>2, <2>3, <2>4 DEF IInv, TypeInv
  <2>6. InHands'
    BY <1>1, <2>1 DEF IInv, InHands
  <2>7. OnceToWork'
    <3>1. AllDisjoint(unput')
      <4>1. \A k \in 1..Len(unput') : k + 1 \in 1..Len(unput) /\ unput'[k] = unput[k + 1]
        BY <2>3
      <4> QED
        BY <2>3, <4>1 DEF IInv, OnceToWork, AllDisjoint
    <3>2. \A l \in 1..Len(unput') : Disjoint(b, unput'[l]) /\ l + 1 \in 1..Len(unput) /\ unput'[l] = unput[l + 1]
      <4>1. \A l \in 1..Len(unput') : l + 1 \in 1..Len(unput) /\ 1 # l + 1 /\ unput'[l] = unput[l + 1]
        BY <2>3
      <4>2. 1 \in 1..Len(unput)
        BY <2>3
      <4> QED
        BY <2>3, <4>1, <4>2 DEF IInv, OnceToWork, AllDisjoint
    <3>3. \A k \in 1..Len(toWork) : Disjoint(toWork[k], b) /\ Disjoint(b, toWork[k])
      BY <2>3, DisjointBoth DEF IInv, OnceToWork
    <3>4. \A k \in 1..Len(toWork') : (k \in 1..Len(toWork) /\ toWork'[k] = toWork[k]) \/ (k = Len(toWork) + 1 /\ toWork'[k] = b)
      BY <2>4
    <3>5. AllDisjoint(toWork')
      BY <3>3, <3>4 DEF IInv, OnceToWork, AllDisjoint
    <3>6. \A k \in 1..Len(toWork'), l \in 1..Len(unput') : Disjoint(toWork'[k], unput'[l])
      BY <3>2, <3>4 DEF IInv, OnceToWork
    <3>7. ASSUME NEW w \in Worker, held'[w] # NoBundle
          PROVE  /\ \A k \in 1..Len(toWork') : Disjoint(held'[w], toWork'[k])
                 /\ \A l \in 1..Len(unput') : Disjoint(held'[w], unput'[l])
                 /\ \A v \in Worker \ {w} : held'[v] # NoBundle => Disjoint(held'[w], held'[v])
      <4>1. Disjoint(held[w], b)
        BY <1>1, <2>3, <3>7 DEF IInv, OnceToWork
      <4> QED
        BY <1>1, <3>2, <3>4, <3>7, <4>1 DEF IInv, OnceToWork
    <3> QED
      BY <3>1, <3>5, <3>6, <3>7 DEF OnceToWork
  <2> QED
    BY <1>2, <1>3, <1>4, <2>5, <2>6, <2>7 DEF IInv
<1>6. CASE unput = <<>>
  <2>1. left' = left \cup {Producer} /\ UNCHANGED <<toWork, unput>>
    BY <1>6 DEF ProducerRun, Pipeline!ProducerDone
  <2>2. TypeInv' /\ OnceToWork'
    BY <1>1, <1>2, <2>1 DEF IInv, TypeInv, OnceToWork
  <2>3. InHands'
    BY <1>1, <2>1, RolesApart DEF IInv, InHands
  <2> QED
    BY <1>2, <1>3, <1>4, <2>2, <2>3 DEF IInv
<1> QED
  BY <1>5, <1>6

LEMMA WorkerGetTaskKeeps == ASSUME NEW w \in Worker PROVE IInv /\ WorkerGetTask(w) => IInv'
<1> SUFFICES ASSUME IInv, WorkerGetTask(w) PROVE IInv'
  OBVIOUS
<1> DEFINE b == Head(toWork)
<1>1. /\ Threading /\ UNCHANGED <<given, step, unput, filling, cached, sums, watching, outcome>>
      /\ UNCHANGED <<toConsume, left, counted, processed>>
      /\ held[w] = NoBundle /\ w \notin left /\ toWork # <<>>
      /\ held' = [held EXCEPT ![w] = b] /\ toWork' = Tail(toWork) /\ pos' = [pos EXCEPT ![w] = 1]
  BY DEF WorkerGetTask, Pipeline!WorkerGetTask, Pipeline!Ready, sums
<1>2. /\ UNCHANGED <<dataset, option, step>> /\ Steps(option)' = Steps(option) /\ FileOfLastSize'
      /\ Threading' = Threading /\ Current' = Current /\ CountedByBundle' = CountedByBundle
      /\ Idle'
  BY <1>1, ThreadStep DEF Threading
<1>3. w \in Getter /\ w # Consumer /\ Worker \subseteq Getter /\ Consumer \in Getter
  BY RolesApart
<1>4. held = [t \in Getter |-> held[t]] /\ pos \in [Getter -> Nat] /\ AllBundles(toWork)
  BY DEF IInv, TypeInv
<1>5. /\ AllBundles(toWork') /\ Len(toWork) \in Nat \ {0} /\ Len(toWork') = Len(toWork) - 1
      /\ \A k \in 1..Len(toWork) - 1 : toWork'[k] = toWork[k + 1]
      /\ b = toWork[1] /\ IsBundle(b)
  BY <1>1, <1>4, TailBundles
<1> HIDE DEF b
<1>6. /\ held' = [t \in Getter |-> held'[t]] /\ pos' \in [Getter -> Nat] /\ held'[w] = b /\ pos'[w] = 1
      /\ \A t \in Getter \ {w} : held'[t] = held[t] /\ pos'[t] = pos[t]
  BY <1>1, <1>3, <1>4
<1>7. TypeInv'
  BY <1>1, <1>2, <1>5, <1>6 DEF IInv, TypeInv
<1>8. InHands'
  <2>1. Len(b) \in Nat /\ 1 \in 1..Len(b) + 1
    BY <1>5 DEF IsBundle
  <2> QED
    BY <1>1, <1>3, <1>5, <1>6, <2>1 DEF IInv, InHands
<1>9. Filling' /\ KeptLists'
  <2>1. filling'[w] = <<>>
    BY <1>1 DEF IInv, Filling, AtTask
  <2>2. \A v \in Worker \ {w} : filling'[v] = filling[v] /\ held'[v] = held[v] /\ pos'[v] = pos[v]
    BY <1>1, <1>3, <1>6
  <2> QED
    BY <1>1, <1>2, <2>1, <2>2, FillingStays, SameCache DEF IInv
<1>10. OnceToWork'
  <2>1. \A k \in 1..Len(toWork') : k + 1 \in 1..Len(toWork) /\ 1 # k + 1 /\ toWork'[k] = toWork[k + 1]
    BY <1>5
  <2>2. 1 \in 1..Len(toWork)
    BY <1>5
  <2>3. AllDisjoint(toWork')
    <3>1. ASSUME NEW k \in 1..Len(toWork'), NEW l \in 1..Len(toWork'), k # l
          PROVE  Disjoint(toWork'[k], toWork'[l])
      <4>1. k + 1 # l + 1
        BY <3>1
      <4> QED
        BY <2>1, <4>1 DEF IInv, OnceToWork, AllDisjoint
    <3> QED
      BY <3>1 DEF AllDisjoint
  <2>4. \A k \in 1..Len(toWork') : Disjoint(b, toWork'[k])
    BY <1>5, <2>1, <2>2 DEF IInv, OnceToWork, AllDisjoint
  <2>5. \A l \in 1..Len(unput) : Disjoint(b, unput[l])
    BY <1>5, <2>2 DEF IInv, OnceToWork
  <2>6. \A v \in Worker \ {w} : held[v] # NoBundle => Disjoint(held[v], b) /\ Disjoint(b, held[v])
    BY <1>5, <2>2, DisjointBoth DEF IInv, OnceToWork
  <2>7. ASSUME NEW v \in Worker, held'[v] # NoBundle
        PROVE  /\ \A k \in 1..Len(toWork') : Disjoint(held'[v], toWork'[k])
               /\ \A l \in 1..Len(unput') : Disjoint(held'[v], unput'[l])
               /\ \A x \in Worker \ {v} : held'[x] # NoBundle => Disjoint(held'[v], held'[x])
    <3>1. CASE v = w
      BY <1>1, <1>3, <1>6, <2>4, <2>5, <2>6, <3>1
    <3>2. CASE v # w
      BY <1>1, <1>3, <1>6, <2>1, <2>6, <2>7, <3>2 DEF IInv, OnceToWork
    <3> QED
      BY <3>1, <3>2
  <2> QED
    BY <1>1, <2>1, <2>3, <2>7 DEF IInv, OnceToWork
<1>11. Progress'
  BY <1>1, <1>2, <1>3, <1>6 DEF IInv, Progress
<1> QED
  BY <1>2, <1>7, <1>8, <1>9, <1>10, <1>11 DEF IInv

LEMMA WorkerLeavesKeeps == ASSUME NEW w \in Worker PROVE IInv /\ WorkerLeaves(w) => IInv'
<1> SUFFICES ASSUME IInv, WorkerLeaves(w) PROVE IInv'
  OBVIOUS
<1>1. /\ Threading /\ UNCHANGED <<given, step, unput, pos, filling, cached, sums, watching, outcome>>
      /\ UNCHANGED <<toWork, counted, processed>>
  BY DEF WorkerLeaves, Pipeline!WorkerPutTask, Pipeline!WorkerDone, sums
<1>2. /\ UNCHANGED <<dataset, option, step>> /\ Steps(option)' = Steps(option) /\ FileOfLastSize'
      /\ Threading' = Threading /\ Current' = Current /\ CountedByBundle' = CountedByBundle
      /\ Idle'
  BY <1>1, ThreadStep DEF Threading
<1>3. w \in Getter /\ w # Consumer /\ Worker \subseteq Getter /\ Consumer \in Getter
  BY RolesApart
<1>4. KeptLists'
  BY <1>1, SameCache DEF IInv
<1>5. CASE AtEnd(w) /\ Pipeline!WorkerPutTask(w)
  <2> DEFINE b == held[w]
  <2>1. /\ b # NoBundle /\ left' = left /\ toConsume' = Append(toConsume, b)
        /\ held' = [held EXCEPT ![w] = NoBundle]
    BY <1>5 DEF Pipeline!WorkerPutTask
  <2>2. held = [t \in Getter |-> held[t]] /\ AllBundles(toConsume)
    BY DEF IInv, TypeInv
  <2>3. /\ held' = [t \in Getter |-> held'[t]] /\ held'[w] = NoBundle
        /\ \A t \in Getter \ {w} : held'[t] = held[t]
    BY <1>3, <2>1, <2>2
  <2>4. IsBundle(b)
    BY <1>3, <2>1 DEF IInv, InHands
  <2> HIDE DEF b
  <2>5. AllBundles(toConsume')
    BY <2>1, <2>2, <2>4, AppendBundle
  <2>6. TypeInv'
    BY <1>1, <1>2, <2>3, <2>5 DEF IInv, TypeInv
  <2>7. InHands'
    BY <1>1, <2>1, <2>3 DEF IInv, InHands
  <2>8. Filling'
    <3>1. ~AtTask(w)
      <4>1. Len(held[w]) \in Nat /\ pos[w] \in Nat
        BY <1>3, <2>1, <2>4 DEF b, IInv, TypeInv, IsBundle
      <4> QED
        BY <1>5, <4>1 DEF AtTask, AtEnd
    <3>2. filling'[w] = <<>>
      BY <1>1, <3>1 DEF IInv, Filling
    <3> QED
      BY <1>1, <1>2, <1>3, <2>3, <3>2, FillingStays DEF IInv
  <2>9. OnceToWork'
    BY <1>1, <1>3, <2>3 DEF IInv, OnceToWork
  <2>10. Progress'
    BY <1>1, <1>2, <1>3, <2>3 DEF IInv, Progress
  <2> QED
    BY <1>2, <1>4, <2>6, <2>7, <2>8, <2>9, <2>10 DEF IInv
<1>6. CASE Pipeline!WorkerDone(w)
  <2>1. left' = left \cup {w} /\ UNCHANGED <<held, toConsume>> /\ held[w] = NoBundle
    BY <1>6 DEF Pipeline!WorkerDone, Pipeline!Ready
  <2>2. TypeInv' /\ OnceToWork' /\ Progress'
    BY <1>1, <1>2, <2>1 DEF IInv, TypeInv, OnceToWork, Progress
  <2>3. InHands'
    BY <1>1, <2>1 DEF IInv, InHands
  <2>4. Filling'
    BY <1>1, <1>2, <2>1, FillingStays DEF IInv
  <2> QED
    BY <1>2, <1>4, <2>2, <2>3, <2>4 DEF IInv
<1> QED
  BY <1>5, <1>6 DEF WorkerLeaves

\* A step of the consumer leaves what the workers have alone.
LEMMA ConsumerStep ==
    ASSUME IInv, Threading, UNCHANGED <<given, step, unput, filling, cached, outcome, toWork>>,
           \A w \in Worker : held'[w] = held[w] /\ pos'[w] = pos[w]
    PROVE  /\ UNCHANGED <<dataset, option, step>> /\ Steps(option)' = Steps(option)
           /\ Threading' = Threading /\ Current' = Current /\ CountedByBundle' = CountedByBundle
           /\ Idle' /\ Filling' /\ OnceToWork' /\ KeptLists' /\ FileOfLastSize'
<1>1. /\ UNCHANGED <<dataset, option, step>> /\ Steps(option)' = Steps(option) /\ FileOfLastSize'
      /\ Threading' = Threading /\ Current' = Current /\ CountedByBundle' = CountedByBundle
      /\ Idle'
  BY ThreadStep DEF Threading
<1>2. Filling' /\ KeptLists'
  BY <1>1, FillingStays, SameCache DEF IInv
<1>3. OnceToWork'
  BY DEF IInv, OnceToWork
<1> QED
  BY <1>1, <1>2, <1>3

LEMMA ConsumerStartsKeeps == IInv /\ ConsumerStarts => IInv'
<1> SUFFICES ASSUME IInv, ConsumerStarts PROVE IInv'
  OBVIOUS
<1>1. /\ Threading /\ pos[Consumer] = 0 /\ pos' = [pos EXCEPT ![Consumer] = 1]
      /\ UNCHANGED <<toWork, toConsume, held, left, given, step, unput, filling, cached, processed, outcome>>
      /\ IF Current.measure = "rating" THEN counted' = counted ELSE counted' = 0
  BY DEF ConsumerStarts, pipeline
<1>2. /\ pos' \in [Getter -> Nat] /\ pos'[Consumer] = 1
      /\ \A t \in Getter \ {Consumer} : pos'[t] = pos[t]
  BY <1>1, RolesApart DEF IInv, TypeInv
<1>3. /\ UNCHANGED <<dataset, option, step>> /\ Steps(option)' = Steps(option)
      /\ Threading' = Threading /\ Current' = Current /\ CountedByBundle' = CountedByBundle
      /\ Idle' /\ Filling' /\ OnceToWork' /\ KeptLists' /\ FileOfLastSize'
  BY <1>1, <1>2, ConsumerStep, RolesApart
<1>4. /\ held[Consumer] = NoBundle /\ processed = 0
      /\ Current.measure = "rating" => counted = 0
  BY <1>1 DEF IInv, Progress
<1>5. TypeInv' /\ counted' = 0
  BY <1>1, <1>2, <1>3, <1>4 DEF IInv, TypeInv
<1>6. InHands'
  BY <1>1, <1>2, <1>4 DEF IInv, InHands
<1>7. Progress'
  BY <1>1, <1>2, <1>3, <1>4, <1>5 DEF Progress
<1> QED
  BY <1>3, <1>5, <1>6, <1>7 DEF IInv

LEMMA ConsumerGetTaskKeeps == IInv /\ ConsumerGetTask => IInv'
<1> SUFFICES ASSUME IInv, ConsumerGetTask PROVE IInv'
  OBVIOUS
<1> DEFINE b == Head(toConsume)
<1>1. /\ Threading /\ pos[Consumer] > 0 /\ pos' = [pos EXCEPT ![Consumer] = 1]
      /\ held' = [held EXCEPT ![Consumer] = b] /\ toConsume' = Tail(toConsume) /\ toConsume # <<>>
      /\ held[Consumer] = NoBundle /\ Consumer \notin left
      /\ UNCHANGED <<toWork, left, given, step, unput, filling, cached, counted, processed, outcome>>
  BY DEF ConsumerGetTask, Pipeline!ConsumerGetTask, Pipeline!Ready, sums
<1>2. IsBundle(b) /\ AllBundles(toConsume')
  BY <1>1, TailBundles DEF IInv, TypeInv
<1> HIDE DEF b
<1>3. /\ held' = [t \in Getter |-> held'[t]] /\ pos' \in [Getter -> Nat]
      /\ held'[Consumer] = b /\ pos'[Consumer] = 1
      /\ \A t \in Getter \ {Consumer} : held'[t] = held[t] /\ pos'[t] = pos[t]
  BY <1>1, RolesApart DEF IInv, TypeInv
<1>4. /\ UNCHANGED <<dataset, option, step>> /\ Steps(option)' = Steps(option)
      /\ Threading' = Threading /\ Current' = Current /\ CountedByBundle' = CountedByBundle
      /\ Idle' /\ Filling' /\ OnceToWork' /\ KeptLists' /\ FileOfLastSize'
  BY <1>1, <1>3, ConsumerStep, RolesApart
<1>5. TypeInv'
  BY <1>1, <1>2, <1>3, <1>4 DEF IInv, TypeInv
<1>6. InHands'
  <2>1. Len(b) \in Nat /\ 1 \in 1..Len(b) + 1
    BY <1>2 DEF IsBundle
  <2> QED
    BY <1>1, <1>2, <1>3, <2>1 DEF IInv, InHands
<1>7. Progress'
  BY <1>1, <1>3, <1>4 DEF IInv, TypeInv, Progress
<1> QED
  BY <1>4, <1>5, <1>6, <1>7 DEF IInv

LEMMA ConsumerAddsKeeps == IInv /\ ConsumerAdds => IInv'
<1> SUFFICES ASSUME IInv, ConsumerAdds PROVE IInv'
  OBVIOUS
<1>1. /\ Threading /\ AtTask(Consumer) /\ pos' = [pos EXCEPT ![Consumer] = @ + 1]
      /\ counted' = counted + 1 /\ processed' = IF CountedByBundle THEN processed ELSE processed + 1
      /\ UNCHANGED <<toWork, toConsume, held, left, given, step, unput, filling, cached, outcome>>
  BY DEF ConsumerAdds, pipeline
<1>2. /\ pos' \in [Getter -> Nat] /\ pos'[Consumer] = pos[Consumer] + 1
      /\ \A t \in Getter \ {Consumer} : pos'[t] = pos[t]
  BY <1>1, RolesApart DEF IInv, TypeInv
<1>3. /\ UNCHANGED <<dataset, option, step>> /\ Steps(option)' = Steps(option)
      /\ Threading' = Threading /\ Current' = Current /\ CountedByBundle' = CountedByBundle
      /\ Idle' /\ Filling' /\ OnceToWork' /\ KeptLists' /\ FileOfLastSize'
  BY <1>1, <1>2, ConsumerStep, RolesApart
<1>4. /\ counted \in Nat /\ processed \in Nat
      /\ held[Consumer] # NoBundle /\ pos[Consumer] \in 1..Len(held[Consumer]) /\ Len(held[Consumer]) \in Nat
  BY <1>1, RolesApart DEF IInv, TypeInv, InHands, AtTask, IsBundle
<1>5. TypeInv'
  BY <1>1, <1>2, <1>3, <1>4 DEF IInv, TypeInv
<1>6. InHands'
  <2>1. pos'[Consumer] \in 1..Len(held[Consumer]) + 1
    BY <1>2, <1>4
  <2> QED
    BY <1>1, <1>2, <2>1 DEF IInv, InHands
<1>7. Progress'
  BY <1>1, <1>2, <1>3, <1>4 DEF IInv, Progress
<1> QED
  BY <1>3, <1>5, <1>6, <1>7 DEF IInv

LEMMA ConsumerDropTaskKeeps == IInv /\ ConsumerDropTask => IInv'
<1> SUFFICES ASSUME IInv, ConsumerDropTask PROVE IInv'
  OBVIOUS
<1> DEFINE n == Len(held[Consumer])
<1>1. /\ Threading /\ AtEnd(Consumer) /\ held' = [held EXCEPT ![Consumer] = NoBundle]
      /\ processed' = IF CountedByBundle THEN processed + n ELSE processed
      /\ UNCHANGED <<toWork, toConsume, left, pos, given, step, unput, filling, cached, counted, outcome>>
  BY DEF ConsumerDropTask, Pipeline!ConsumerDropTask
<1>2. /\ held' = [t \in Getter |-> held'[t]] /\ held'[Consumer] = NoBundle
      /\ \A t \in Getter \ {Consumer} : held'[t] = held[t]
  BY <1>1, RolesApart DEF IInv, TypeInv
<1>3. /\ UNCHANGED <<dataset, option, step>> /\ Steps(option)' = Steps(option)
      /\ Threading' = Threading /\ Current' = Current /\ CountedByBundle' = CountedByBundle
      /\ Idle' /\ Filling' /\ OnceToWork' /\ KeptLists' /\ FileOfLastSize'
  BY <1>1, <1>2, ConsumerStep, RolesApart
<1>4. /\ counted \in Nat /\ processed \in Nat
      /\ held[Consumer] # NoBundle /\ n \in Nat /\ pos[Consumer] = n + 1
  BY <1>1, RolesApart DEF IInv, TypeInv, InHands, AtEnd, IsBundle
<1>5. TypeInv'
  BY <1>1, <1>2, <1>3, <1>4 DEF IInv, TypeInv
<1>6. InHands'
  BY <1>1, <1>2 DEF IInv, InHands
<1>7. Progress'
  BY <1>1, <1>2, <1>3, <1>4 DEF IInv, Progress
<1> QED
  BY <1>3, <1>5, <1>6, <1>7 DEF IInv

LEMMA ConsumerDoneKeeps == IInv /\ ConsumerDone => IInv'
<1> SUFFICES ASSUME IInv, ConsumerDone PROVE IInv'
  OBVIOUS
<1>1. /\ Threading /\ left' = left \cup {Consumer} /\ held[Consumer] = NoBundle
      /\ UNCHANGED <<toWork, toConsume, held, pos, given, step, unput, filling, cached, counted, processed, outcome>>
  BY DEF ConsumerDone, Pipeline!ConsumerDone, Pipeline!Ready, sums
<1>2. /\ UNCHANGED <<dataset, option, step>> /\ Steps(option)' = Steps(option)
      /\ Threading' = Threading /\ Current' = Current /\ CountedByBundle' = CountedByBundle
      /\ Idle' /\ Filling' /\ OnceToWork' /\ KeptLists' /\ FileOfLastSize'
  BY <1>1, ConsumerStep
<1>3. TypeInv' /\ Progress'
  BY <1>1, <1>2 DEF IInv, TypeInv, Progress
<1>4. InHands'
  BY <1>1 DEF IInv, InHands
<1> QED
  BY <1>2, <1>3, <1>4 DEF IInv

\* The monitor's last look, and no step at all.
LEMMA WatchingKeeps ==
    IInv /\ UNCHANGED <<pipeline, given, step, unput, pos, filling, cached, sums, outcome>> => IInv'
<1> SUFFICES ASSUME IInv, UNCHANGED <<pipeline, given, step, unput, pos, filling, cached, sums, outcome>>
             PROVE  IInv'
  OBVIOUS
<1>1. UNCHANGED <<toWork, toConsume, held, left, counted, processed>>
  BY DEF pipeline, sums
<1>2. /\ UNCHANGED <<dataset, option, step>> /\ Steps(option)' = Steps(option) /\ FileOfLastSize'
      /\ Threading' = Threading /\ Current' = Current /\ CountedByBundle' = CountedByBundle
  BY ThreadStep
<1>3. Filling' /\ KeptLists'
  BY <1>1, <1>2, FillingStays, SameCache DEF IInv
<1>4. TypeInv'
  BY <1>1, <1>2 DEF IInv, TypeInv
<1>5. InHands' /\ Idle' /\ OnceToWork'
  BY <1>1, <1>2 DEF IInv, InHands, Idle, OnceToWork
<1>6. Progress'
  BY <1>1, <1>2 DEF IInv, Progress
<1> QED
  BY <1>2, <1>3, <1>4, <1>5, <1>6 DEF IInv

-----------------------------------------------------------------------------
(* The invariant.                                                          *)

LEMMA BeginInv == Begin => IInv
<1> SUFFICES ASSUME Begin PROVE IInv
  OBVIOUS
<1>1. PICK e \in Evaluations : dataset = e.dataset /\ option = e.option
  BY DEF Begin
<1>2. IsOption(option)
  BY <1>1, EvaluationAssumption
<1>3. /\ toWork = <<>> /\ toConsume = <<>> /\ held = [t \in Getter |-> NoBundle] /\ left = {}
      /\ step = 0 /\ pos = [t \in Getter |-> 0] /\ filling = [w \in Worker |-> <<>>]
      /\ cached = [u \in User |-> <<>>] /\ counted = 0 /\ processed = 0 /\ written = <<>>
      /\ unput = IF option.accelerate /\ ~Finished THEN Bundles(Current.measure) ELSE <<>>
  BY DEF Begin, Pipeline!Init, Getter
<1>4. AllBundles(unput) /\ AllDisjoint(unput)
  BY <1>3, BundlesOf, NoBundles
<1>5. TypeInv
  <2>1. Len(Steps(option)) \in Nat
    BY <1>2, StepsOf DEF RatingFirst
  <2> QED
    BY <1>2, <1>3, <1>4, <2>1, NoBundles DEF TypeInv
<1>6. InHands /\ Idle
  BY <1>3 DEF InHands, Idle
<1>7. Filling
  BY <1>3 DEF Filling
<1>8. OnceToWork
  BY <1>3, <1>4, NoBundles, RolesApart DEF OnceToWork
<1>9. Progress
  BY <1>3, RolesApart DEF Progress
<1>10. KeptLists
  <2>1. ASSUME NEW u \in User PROVE Len(cached[u]) \in Nat /\ cached[u] = TopNItem(u, Len(cached[u]))
    <3>1. cached[u] = <<>> /\ Len(<<>>) = 0
      BY <1>3
    <3>2. TopNItem(u, 0) = <<>>
      BY DEF TopNItem
    <3> QED
      BY <3>1, <3>2
  <2> QED
    BY <2>1 DEF KeptLists
<1>11. FileOfLastSize
  BY <1>3 DEF FileOfLastSize
<1> QED
  BY <1>5, <1>6, <1>7, <1>8, <1>9, <1>10, <1>11 DEF IInv

LEMMA EvaluateKeeps == IInv /\ [Evaluate]_evaluation => IInv'
<1> SUFFICES ASSUME IInv, [Evaluate]_evaluation PROVE IInv'
  OBVIOUS
<1>1. CASE EvaluateST \/ EvaluateReturns \/ WriteRankingResult
  BY <1>1, EvaluateSTKeeps, EvaluateReturnsKeeps, WriteRankingResultKeeps
<1>2. CASE ProducerRun
  BY <1>2, ProducerRunKeeps
<1>3. ASSUME NEW w \in Worker,
             WorkerGetTask(w) \/ PredictRating(w) \/ LookForList(w) \/ KeepList(w) \/ WorkerLeaves(w)
      PROVE  IInv'
  BY <1>3, WorkerGetTaskKeeps, PredictRatingKeeps, LookForListKeeps, KeepListKeeps, WorkerLeavesKeeps
<1>4. CASE ConsumerStarts \/ ConsumerGetTask \/ ConsumerAdds \/ ConsumerDropTask \/ ConsumerDone
  BY <1>4, ConsumerStartsKeeps, ConsumerGetTaskKeeps, ConsumerAddsKeeps, ConsumerDropTaskKeeps,
     ConsumerDoneKeeps
<1>5. CASE MonitorEnds
  BY <1>5, WatchingKeeps DEF MonitorEnds
<1>6. CASE UNCHANGED evaluation
  BY <1>6, WatchingKeeps DEF evaluation
<1> QED
  BY <1>1, <1>2, <1>3, <1>4, <1>5, <1>6 DEF Evaluate

LEMMA FillersApart == IInv => FillingApart
<1> SUFFICES ASSUME IInv, NEW v \in Worker, NEW w \in Worker, v # w,
                    filling[v] # <<>>, filling[w] # <<>>
             PROVE  TaskOf(v) # TaskOf(w)
  BY DEF FillingApart
<1>1. AtTask(v) /\ AtTask(w)
  BY DEF IInv, Filling
<1>2. Disjoint(held[v], held[w])
  BY <1>1 DEF IInv, OnceToWork, AtTask
<1> QED
  BY <1>1, <1>2 DEF AtTask, TaskOf, Disjoint

LEMMA CountedFirst == IInv => MonitorBehind
<1> SUFFICES ASSUME IInv, Threading, pos[Consumer] > 0 PROVE processed <= counted
  BY DEF MonitorBehind
<1>1. counted \in Nat /\ processed \in Nat /\ pos[Consumer] \in Nat
  BY RolesApart DEF IInv, TypeInv
<1> QED
  BY <1>1 DEF IInv, Progress

-----------------------------------------------------------------------------
(* The theorems.                                                           *)

\* The invariant that the others follow from: of what BasicEvaluate and its
\* delegates' threads have in their hands, a task is in one bundle that has
\* still to be worked on (evaluate_rating_delegate.cpp:45), a list in the
\* making is that of the task its worker is at, and what is counted and not
\* yet processed is in the consumer's hands.
THEOREM EvaluationInvariant == EvaluationSpec => []IInv
<1>1. Begin => IInv
  BY BeginInv
<1>2. IInv /\ [Evaluate]_evaluation => IInv'
  BY EvaluateKeeps
<1> QED
  BY <1>1, <1>2, PTL DEF EvaluationSpec

\* mCachedTopNItems is filled in by several workers without a mutex
\* (basic_predict.cpp:73), never two of them the same entry, and every list in
\* it is the beginning of its user's ranking, whatever sizes the measures have
\* asked for in whatever order; the file has the lists of the last size.
THEOREM ListsStayTogether == EvaluationSpec => []ListsAgree
<1>1. IInv => ListsAgree
  BY FillersApart DEF IInv, ListsAgree
<1> QED
  BY <1>1, EvaluationInvariant, PTL

\* The monitor, which reads what the consumer writes without a mutex, is never
\* told of tasks that are not in the sums.
THEOREM MonitorStaysBehind == EvaluationSpec => []MonitorBehind
<1>1. IInv => MonitorBehind
  BY CountedFirst
<1> QED
  BY <1>1, EvaluationInvariant, PTL
=============================================================================
