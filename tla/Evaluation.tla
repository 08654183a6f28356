------------------------------ MODULE Evaluation ------------------------------
(***************************************************************************)
(* BasicEvaluate (src/recsys/base/basic_evaluate.cpp) with its delegates   *)
(* (src/recsys/evaluate): one measure after the other, for one list size   *)
(* after the other, by one thread or through a PipelinedScheduler.  All    *)
(* measures but the rating's ask BasicPredict::PredictTopNItem for lists,  *)
(* a const function that keeps the lists it has made in                    *)
(* mCachedTopNItems, without a mutex.                                      *)
(*                                                                         *)
(* What the predictor says of a user and an item is any function.  Sums    *)
(* are kept, and not the quotients computed from them; a logarithm's       *)
(* argument stands for it.                                                 *)
(***************************************************************************)
EXTENDS Integers, Sequences, FiniteSets, SequencesExt, TLC

CONSTANTS
    Worker,             \* the NumThread() worker threads
    NoBundle,           \* nullptr
    NumUser, NumItem,
    BundleSize,         \* TASK_BUNDLE_SIZE, or NUM_USER_PER_TASK
    BufferSize1, BufferSize2,   \* DEFAULT_BUFFER_SIZE: no delegate passes a size
    Evaluations         \* [dataset, option]: see IsDataset and IsOption

User == 0..NumUser - 1
Item == 0..NumItem - 1

(* A user vector is the ratings of the items the user has rated.           *)
IsUserVector(uv) == DOMAIN uv \subseteq Item /\ \A i \in DOMAIN uv : uv[i] \in Nat

IsDataset(d) ==
    /\ DOMAIN d.train = User /\ DOMAIN d.test = User
    /\ \A u \in User : IsUserVector(d.train[u]) /\ IsUserVector(d.test[u])
    /\ d.score \in [User -> [Item -> Int]] /\ d.similarity \in [Item -> [Item -> Int]]

Measures == {"rating", "ranking", "coverage", "novelty", "diversity"}

\* Where lists are asked for there is a size: CurrentRankingListSize is
\* uninitialised without one.
IsOption(o) ==
    /\ o.accelerate \in BOOLEAN /\ o.measures \subseteq Measures /\ o.sizes \in Seq(Nat \ {0})
    /\ o.measures \ {"rating"} # {} => o.sizes # <<>>

ASSUME EvaluationAssumption ==
    /\ IsFiniteSet(Worker) /\ Worker # {} /\ Worker \cap {"producer", "consumer"} = {}
    /\ NumUser \in Nat /\ NumItem \in Nat
    /\ BundleSize \in Nat \ {0} /\ BufferSize1 \in Nat \ {0} /\ BufferSize2 \in Nat \ {0}
    /\ \A e \in Evaluations : IsDataset(e.dataset) /\ IsOption(e.option)

VARIABLES
    toWork, toConsume, held, left,  \* the scheduler
    dataset, option,
    step,       \* how many of the Steps have been done
    unput,      \* the bundles the producer has still to put
    pos,        \* how far the threads are in their bundles; 0: not in the loop
    filling,    \* the lists the workers are about to keep
    cached,     \* mCachedTopNItems
    running,    \* the consumer's sums
    counted,    \* how many tasks are in them
    processed,  \* mProcessedTask
    watching,   \* whether the monitor thread is running
    results,    \* mResult, a result for each step
    written     \* the lists of WriteRankingResult

pipeline == <<toWork, toConsume, held, left>>
given    == <<dataset, option>>
sums     == <<running, counted, processed>>
outcome  == <<results, written>>
evaluation == <<pipeline, given, step, unput, pos, filling, cached, sums, watching, outcome>>

Producer == "producer"
Consumer == "consumer"

Pipeline == INSTANCE TaskPipeline WITH
    Producer <- {Producer}, Consumer <- {Consumer}, Task <- {}, NoTask <- NoBundle

-----------------------------------------------------------------------------
(* BasicPredict::PredictTopNItem.                                          *)

\* The items of a user vector, by number.
ItemsOf(uv) == SetToSortSeq(DOMAIN uv, LAMBDA i, j : i < j)

\* From begin to end - 1.
Range0(begin, end) == [k \in 1..(IF end > begin THEN end - begin ELSE 0) |-> begin + k - 1]

\* The items between those the user has rated; a rating of 0 is none.
Candidates(uv) ==
    LET gap(s, i) == IF uv[i] = 0 THEN s
                     ELSE [list |-> s.list \o Range0(s.begin, i), begin |-> i + 1]
        all == FoldLeft(gap, [list |-> <<>>, begin |-> 0], ItemsOf(uv))
    IN all.list \o Range0(all.begin, NumItem)

\* std::sort by descending score, items of one score in some fixed order.
Ranking(uv, score) ==
    SortSeq(Candidates(uv),
            LAMBDA i, j : score[i] > score[j] \/ (score[i] = score[j] /\ i > j))

\* ItemIdList topNItem(listSize): what is not filled in stays 0.
TopNItem(u, listSize) ==
    LET ranking == Ranking(dataset.train[u], dataset.score[u])
    IN [k \in 1..listSize |-> IF k <= Len(ranking) THEN ranking[k] ELSE 0]

InCache(u, listSize) == listSize <= Len(cached[u])

PredictTopNItemFromCache(u, listSize) == SubSeq(cached[u], 1, listSize)

-----------------------------------------------------------------------------
(* What a task adds to the sums of a measure.                              *)

AbsoluteValue(n) == IF n < 0 THEN -n ELSE n
Total(S, f(_)) == FoldSet(LAMBDA x, n : f(x) + n, 0, S)
Plus(f, g) == [k \in DOMAIN f |-> f[k] + g[k]]

Errors(task) ==
    LET error == dataset.score[task[1]][task[2]] - dataset.test[task[1]][task[2]]
    IN [abs |-> AbsoluteValue(error), sqr |-> error * error]

\* BSearch finds an item of the list in the user's vector.
EvaluateOneUser(u, list) ==
    [hit |-> Cardinality({k \in DOMAIN list : list[k] \in DOMAIN dataset.test[u]}),
     nPrecision |-> Len(list), nRecall |-> Cardinality(DOMAIN dataset.test[u])]

ItemFreqs(list) == [i \in Item |-> Cardinality({k \in DOMAIN list : list[k] = i})]

ItemPopularity(i) == Cardinality({u \in User : i \in DOMAIN dataset.train[u]})

\* Math::Log(1.0 + popularity) for each item of the list.
UserNovelty(list) ==
    [p \in 1..NumUser + 1 |-> Cardinality({k \in DOMAIN list : 1 + ItemPopularity(list[k]) = p})]

ListSimilarity(list) ==
    [similarity |-> Total({p \in (DOMAIN list) \X (DOMAIN list) : p[1] < p[2]},
                          LAMBDA p : dataset.similarity[list[p[1]]][list[p[2]]])]

Contribution(measure, u, list) ==
    CASE measure = "ranking" -> EvaluateOneUser(u, list)
      [] measure = "coverage" -> ItemFreqs(list)
      [] measure = "novelty" -> UserNovelty(list)
      [] measure = "diversity" -> ListSimilarity(list)

Zero(measure) ==
    CASE measure = "rating" -> [abs |-> 0, sqr |-> 0]
      [] measure = "ranking" -> [hit |-> 0, nPrecision |-> 0, nRecall |-> 0]
      [] measure = "coverage" -> [i \in Item |-> 0]
      [] measure = "novelty" -> [p \in 1..NumUser + 1 |-> 0]
      [] measure = "diversity" -> [similarity |-> 0]

\* mCoverage, mEntropy's arguments and mGiniIndex, before the divisions.
CoverageOf(freqs) ==
    LET sorted == SortSeq([k \in 1..NumItem |-> freqs[k - 1]], <)
    IN [freqs |-> freqs, count |-> Cardinality({i \in Item : freqs[i] > 0}),
        gini |-> Total(Item, LAMBDA i : (2 * i + 1 - NumItem) * sorted[i + 1])]

Result(measure, sum, count) ==
    [sum |-> IF measure = "coverage" THEN CoverageOf(sum) ELSE sum, count |-> count]

-----------------------------------------------------------------------------
(* BasicEvaluate::Evaluate.                                                *)

\* One step for each measure and size, whatever the size for the rating.
ListSteps(o, measure) ==
    IF measure \notin o.measures THEN <<>>
    ELSE [k \in DOMAIN o.sizes |-> [measure |-> measure, size |-> o.sizes[k]]]

Steps(o) ==
    (IF "rating" \in o.measures THEN <<[measure |-> "rating", size |-> 0]>> ELSE <<>>)
    \o ListSteps(o, "ranking") \o ListSteps(o, "coverage")
    \o ListSteps(o, "novelty") \o ListSteps(o, "diversity")

Current == Steps(option)[step + 1]
Finished == step = Len(Steps(option))

\* The delegate's tasks: the test's ratings, in the order they are listed
\* in, or the users.
Tasks(measure) ==
    IF measure = "rating"
    THEN SetToSeq({p \in User \X Item : p[2] \in DOMAIN dataset.test[p[1]]})
    ELSE Range0(0, NumUser)

\* The tasks from begin to end - 1.
BundleOf(tasks, begin, end) ==
    LET until == IF end < Len(tasks) THEN end ELSE Len(tasks)
    IN [k \in 1..(IF begin < until THEN until - begin ELSE 0) |-> [task |-> tasks[begin + k], out |-> <<>>]]

\* Mutant of NthBundle: the task that completes a bundle is also the next
\* one's first.
NthBundleOverlapping(tasks, n) == BundleOf(tasks, (n - 1) * BundleSize, n * BundleSize + 1)

NthBundle(tasks, n) == BundleOf(tasks, (n - 1) * BundleSize, n * BundleSize)

\* All bundles but the last are full.  Without tasks there is an empty one,
\* but for the coverage.
Bundles(measure) ==
    LET tasks == Tasks(measure)
        number == (Len(tasks) + BundleSize - 1) \div BundleSize
    IN [n \in 1..(IF number = 0 /\ measure # "coverage" THEN 1 ELSE number) |-> NthBundle(tasks, n)]

TotalTask == Len(Tasks(Current.measure))

\* CreatePredict and InitCachedTopNItems, LoadTestData; then the first step.
Begin ==
    /\ Pipeline!Init
    /\ \E e \in Evaluations : dataset = e.dataset /\ option = e.option
    /\ step = 0
    /\ unput = IF option.accelerate /\ ~Finished THEN Bundles(Current.measure) ELSE <<>>
    /\ pos = [t \in Worker \cup {Consumer} |-> 0]
    /\ filling = [w \in Worker |-> <<>>]
    /\ cached = [u \in User |-> <<>>]
    /\ running = IF Finished THEN <<>> ELSE Zero(Current.measure)
    /\ counted = 0 /\ processed = 0
    /\ watching \in {FALSE, option.accelerate /\ ~Finished}
    /\ results = <<>> /\ written = <<>>

\* The measure's result is in; the next Evaluate sets up the scheduler anew.
\* A delegate serves all the sizes of its measure, with its sums.
Advance(result) ==
    LET next == step + 1
        steps == Steps(option)
    IN /\ results' = Append(results, result)
       /\ step' = next
       /\ IF next = Len(steps)
          THEN UNCHANGED <<unput, running, counted, processed, watching>>
          ELSE /\ unput' = IF option.accelerate THEN Bundles(steps[next + 1].measure) ELSE <<>>
               /\ running' = IF steps[next + 1].measure = Current.measure THEN running
                             ELSE Zero(steps[next + 1].measure)
               /\ counted' = IF steps[next + 1].measure = Current.measure THEN counted ELSE 0
               /\ processed' = 0
               /\ watching' \in {FALSE, option.accelerate}

\* The delegates with one thread.
EvaluateST ==
    /\ ~Finished /\ ~option.accelerate
    /\ LET measure == Current.measure
           size == Current.size
           tasks == Tasks(measure)
           list(u) == IF InCache(u, size) THEN PredictTopNItemFromCache(u, size) ELSE TopNItem(u, size)
           add(sum, task) == Plus(sum, IF measure = "rating" THEN Errors(task)
                                       ELSE Contribution(measure, task, list(task)))
       IN /\ Advance(Result(measure, FoldLeft(add, Zero(measure), tasks), Len(tasks)))
          /\ cached' = IF measure = "rating" THEN cached
                       ELSE [u \in User |-> IF InCache(u, size) THEN cached[u] ELSE list(u)]
    /\ UNCHANGED <<pipeline, given, pos, filling, written>>

\* WaitFinish has joined the threads of the scheduler and the monitor.
EvaluateReturns ==
    /\ ~Finished /\ option.accelerate
    /\ left = Worker \cup {Producer, Consumer} /\ ~watching
    /\ Advance(Result(Current.measure, running, counted))
    /\ toWork' = <<>> /\ toConsume' = <<>> /\ left' = {}
    /\ held' = [t \in Worker \cup {Consumer} |-> NoBundle]
    /\ pos' = [t \in Worker \cup {Consumer} |-> 0]
    /\ UNCHANGED <<given, filling, cached, written>>

\* The lists of the last size, when a measure of lists was asked for.
WriteRankingResult ==
    /\ Finished /\ written = <<>>
    /\ option.measures \ {"rating"} # {}
    /\ LET size == Last(option.sizes)
           list(u) == IF InCache(u, size) THEN PredictTopNItemFromCache(u, size) ELSE TopNItem(u, size)
       IN /\ written' = [u \in User |-> list(u)]
          /\ cached' = [u \in User |-> IF InCache(u, size) THEN cached[u] ELSE list(u)]
    /\ UNCHANGED <<pipeline, given, step, unput, pos, filling, sums, watching, results>>

-----------------------------------------------------------------------------
(* The delegates' threads.                                                 *)

Threading == ~Finished /\ option.accelerate

ProducerRun ==
    /\ Threading
    /\ IF unput # <<>>
       THEN Pipeline!ProducerPutTask(Producer, Head(unput)) /\ unput' = Tail(unput)
       ELSE Pipeline!ProducerDone(Producer) /\ UNCHANGED unput
    /\ UNCHANGED <<given, step, pos, filling, cached, sums, watching, outcome>>

WorkerGetTask(w) ==
    /\ Threading
    /\ Pipeline!WorkerGetTask(w)
    /\ pos' = [pos EXCEPT ![w] = 1]
    /\ UNCHANGED <<given, step, unput, filling, cached, sums, watching, outcome>>

AtTask(t) == held[t] # NoBundle /\ pos[t] \in 1..Len(held[t])
AtEnd(t)  == held[t] # NoBundle /\ pos[t] > Len(held[t])
TaskOf(t) == held[t][pos[t]].task

\* task.out = out, ++i
Answer(w, out) ==
    /\ held' = [held EXCEPT ![w][pos[w]].out = out]
    /\ pos' = [pos EXCEPT ![w] = @ + 1]
    /\ UNCHANGED <<toWork, toConsume, left>>

PredictRating(w) ==
    /\ Threading /\ Current.measure = "rating" /\ AtTask(w)
    /\ Answer(w, Errors(TaskOf(w)))
    /\ UNCHANGED <<given, step, unput, filling, cached, sums, watching, outcome>>

\* The size of the cached list is looked at, and a new list is computed.
LookForList(w) ==
    /\ Threading /\ Current.measure # "rating" /\ AtTask(w) /\ filling[w] = <<>>
    /\ LET u == TaskOf(w)
           size == Current.size
       IN IF InCache(u, size)
          THEN Answer(w, Contribution(Current.measure, u, PredictTopNItemFromCache(u, size))) /\ UNCHANGED filling
          ELSE filling' = [filling EXCEPT ![w] = TopNItem(u, size)] /\ UNCHANGED <<pipeline, pos>>
    /\ UNCHANGED <<given, step, unput, cached, sums, watching, outcome>>

\* mCachedTopNItems[userId] = topNItem
KeepList(w) ==
    /\ filling[w] # <<>>
    /\ cached' = [cached EXCEPT ![TaskOf(w)] = filling[w]]
    /\ Answer(w, Contribution(Current.measure, TaskOf(w), filling[w]))
    /\ filling' = [filling EXCEPT ![w] = <<>>]
    /\ UNCHANGED <<given, step, unput, sums, watching, outcome>>

WorkerLeaves(w) ==
    /\ Threading
    /\ \/ AtEnd(w) /\ Pipeline!WorkerPutTask(w)
       \/ Pipeline!WorkerDone(w)
    /\ UNCHANGED <<given, step, unput, pos, filling, cached, sums, watching, outcome>>

\* Mutant of ConsumerStarts: the sums are not reset.
ConsumerStartsWithSums ==
    /\ Threading /\ pos[Consumer] = 0
    /\ pos' = [pos EXCEPT ![Consumer] = 1]
    /\ UNCHANGED <<pipeline, given, step, unput, filling, cached, sums, watching, outcome>>

\* mRunningHitCount = 0 and so on; the rating's delegate is new.
ConsumerStarts ==
    /\ Threading /\ pos[Consumer] = 0
    /\ pos' = [pos EXCEPT ![Consumer] = 1]
    /\ IF Current.measure = "rating" THEN UNCHANGED <<running, counted>>
       ELSE running' = Zero(Current.measure) /\ counted' = 0
    /\ UNCHANGED <<pipeline, given, step, unput, filling, cached, processed, watching, outcome>>

ConsumerGetTask ==
    /\ Threading /\ pos[Consumer] > 0
    /\ Pipeline!ConsumerGetTask(Consumer)
    /\ pos' = [pos EXCEPT ![Consumer] = 1]
    /\ UNCHANGED <<given, step, unput, filling, cached, sums, watching, outcome>>

\* The rating's and the coverage's tasks are counted when the bundle is done.
CountedByBundle == Current.measure \in {"rating", "coverage"}

ConsumerAdds ==
    /\ Threading /\ AtTask(Consumer)
    /\ running' = Plus(running, held[Consumer][pos[Consumer]].out)
    /\ counted' = counted + 1
    /\ processed' = IF CountedByBundle THEN processed ELSE processed + 1
    /\ pos' = [pos EXCEPT ![Consumer] = @ + 1]
    /\ UNCHANGED <<pipeline, given, step, unput, filling, cached, watching, outcome>>

ConsumerDropTask ==
    /\ Threading /\ AtEnd(Consumer)
    /\ processed' = IF CountedByBundle THEN processed + Len(held[Consumer]) ELSE processed
    /\ Pipeline!ConsumerDropTask(Consumer)
    /\ UNCHANGED <<given, step, unput, pos, filling, cached, running, counted, watching, outcome>>

ConsumerDone ==
    /\ Threading /\ pos[Consumer] > 0
    /\ Pipeline!ConsumerDone(Consumer)
    /\ UNCHANGED <<given, step, unput, pos, filling, cached, sums, watching, outcome>>

\* if (mProcessedTask >= mTotoalTask) break
MonitorEnds ==
    /\ watching /\ processed >= TotalTask
    /\ watching' = FALSE
    /\ UNCHANGED <<pipeline, given, step, unput, pos, filling, cached, sums, outcome>>

Evaluate ==
    \/ EvaluateST \/ EvaluateReturns \/ WriteRankingResult
    \/ ProducerRun
    \/ \E w \in Worker : WorkerGetTask(w) \/ PredictRating(w) \/ LookForList(w) \/ KeepList(w) \/ WorkerLeaves(w)
    \/ ConsumerStarts \/ ConsumerGetTask \/ ConsumerAdds \/ ConsumerDropTask \/ ConsumerDone
    \/ MonitorEnds

EvaluationSpec == Begin /\ [][Evaluate]_evaluation

-----------------------------------------------------------------------------
(* What the evaluation is to say, from the data alone.                     *)

NotRated(u) == {i \in Item : i \in DOMAIN dataset.train[u] => dataset.train[u][i] = 0}

\* A list for the user: items not rated before, the best first, none left
\* out that is better than one in the list; where there are no more
\* candidates, item 0.
IsListFor(list, u) ==
    LET n == IF Len(list) < Cardinality(NotRated(u)) THEN Len(list) ELSE Cardinality(NotRated(u))
        listed == {list[k] : k \in 1..n}
    IN /\ listed \subseteq NotRated(u) /\ Cardinality(listed) = n
       /\ \A j, k \in 1..n : j < k => dataset.score[u][list[j]] >= dataset.score[u][list[k]]
       /\ \A i \in NotRated(u) \ listed : \A k \in 1..n : dataset.score[u][i] <= dataset.score[u][list[k]]
       /\ \A k \in n + 1..Len(list) : list[k] = 0

\* The lists that are kept are their user's: the beginning of one ranking,
\* whatever the measures before have asked for, in whatever order of sizes.
KeptLists ==
    \A u \in User : Len(cached[u]) \in Nat /\ cached[u] = TopNItem(u, Len(cached[u]))

\* No two workers fill in the same entry of mCachedTopNItems
\* (basic_predict.cpp:73 has no mutex).
FillingApart ==
    \A v, w \in Worker :
        v # w /\ filling[v] # <<>> /\ filling[w] # <<>> => TaskOf(v) # TaskOf(w)

FileOfLastSize ==
    written # <<>> => \A u \in User : written[u] = TopNItem(u, Last(option.sizes))

\* A user's lists are all the beginning of the same ranking, also those that
\* several workers keep at once; the file holds the lists of the last size.
ListsAgree == KeptLists /\ FillingApart /\ FileOfLastSize

Expected(measure, size) ==
    LET hits(list, S) == Cardinality({k \in DOMAIN list : list[k] \in S})
        lists == [u \in User |-> TopNItem(u, size)]
        rated == {p \in User \X Item : p[2] \in DOMAIN dataset.test[p[1]]}
        error(p) == dataset.score[p[1]][p[2]] - dataset.test[p[1]][p[2]]
        freq(i) == Total(User, LAMBDA u : hits(lists[u], {i}))
        popular(p) == {i \in Item : ItemPopularity(i) = p - 1}
        pairs == {t \in User \X (1..size) \X (1..size) : t[2] < t[3]}
    IN CASE measure = "rating" ->
              [sum |-> [abs |-> Total(rated, LAMBDA p : AbsoluteValue(error(p))),
                        sqr |-> Total(rated, LAMBDA p : error(p) * error(p))],
               count |-> Cardinality(rated)]
         [] measure = "ranking" ->
              [sum |-> [hit |-> Total(User, LAMBDA u : hits(lists[u], DOMAIN dataset.test[u])),
                        nPrecision |-> NumUser * size, nRecall |-> Cardinality(rated)],
               count |-> NumUser]
         [] measure = "coverage" ->
              \* the mean absolute difference of the frequencies
              [sum |-> [freqs |-> [i \in Item |-> freq(i)], count |-> Cardinality({i \in Item : freq(i) > 0}),
                        gini |-> Total({p \in Item \X Item : p[1] < p[2]},
                                       LAMBDA p : AbsoluteValue(freq(p[1]) - freq(p[2])))],
               count |-> NumUser]
         [] measure = "novelty" ->
              [sum |-> [p \in 1..NumUser + 1 |-> Total(User, LAMBDA u : hits(lists[u], popular(p)))],
               count |-> NumUser]
         [] measure = "diversity" ->
              [sum |-> [similarity |-> Total(pairs, LAMBDA t : dataset.similarity[lists[t[1]][t[2]]][lists[t[1]][t[3]]])],
               count |-> NumUser]

ListsAreBest ==
    /\ \A u \in User : IsListFor(cached[u], u)
    /\ written # <<>> => \A u \in User : IsListFor(written[u], u)

ResultsAgree ==
    \A n \in DOMAIN results :
        results[n] = Expected(Steps(option)[n].measure, Steps(option)[n].size)

\* The monitor reports what it finds in the consumer's sums without a mutex
\* (evaluate_rating_delegate.cpp:97): it is never told of tasks that are not
\* in them.
MonitorBehind == Threading /\ pos[Consumer] > 0 => processed <= counted

\* Every list is of the best items, and every measure's result is that of
\* the data, of one thread as of many, whichever worker gets which bundle in
\* whichever order, for every list size (one delegate serves all sizes).
EvaluationsAgree == ListsAreBest /\ ResultsAgree /\ MonitorBehind
=============================================================================
