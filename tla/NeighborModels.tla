----------------------------- MODULE NeighborModels -----------------------------
(***************************************************************************)
(* recsys/neighbor: the recommenders that compare items by the users who   *)
(* rated both, or users by the items both rated.  The two are each other's *)
(* mirror image; what is the same line by line is defined once, for        *)
(* vectors, and used by both.  The threads of ModelComputationMT are those *)
(* of BundledComputationMT.                                                *)
(*                                                                         *)
(* A similarity is kept to hundredths, rounded down.  A prediction is a    *)
(* quotient and what is added to it.                                       *)
(***************************************************************************)
EXTENDS Ratings

NumericalTypes == {"cosine", "adjustedCosine", "correlation"}
BinaryTypes == {"binaryCosine", "binaryJaccard"}

\* Parameter: a pair that is none throws LonganConfigError or asserts.
ItemBasedParameters == ({"numerical"} \X NumericalTypes) \cup ({"binary"} \X BinaryTypes)
UserBasedParameters == ItemBasedParameters
-----------------------------------------------------------------------------
(* Similarities of vectors that are sorted by id.                          *)

\* The positions of the same id in both.  The loop ends with one of them.
Common(v1, v2) ==
    LET next(s, k) ==
            CASE s.i > Len(v1) \/ s.j > Len(v2) -> s
              [] v1[s.i].id = v2[s.j].id -> [i |-> s.i + 1, j |-> s.j + 1, at |-> Append(s.at, <<s.i, s.j>>)]
              [] v1[s.i].id < v2[s.j].id -> [s EXCEPT !.i = @ + 1]
              [] OTHER -> [s EXCEPT !.j = @ + 1]
    IN FoldLeft(next, [i |-> 1, j |-> 1, at |-> <<>>], Ints(Len(v1) + Len(v2))).at

\* The norms are those of the common part.
CosineSimilarity(v1, v2) ==
    LET at == Common(v1, v2)
        sum(a, b) == Sum(DOMAIN at, LAMBDA k : a[k] * b[k])
        ratings1 == [k \in DOMAIN at |-> v1[at[k][1]].rating]
        ratings2 == [k \in DOMAIN at |-> v2[at[k][2]].rating]
    IN Hundredths(sum(ratings1, ratings2), SqrtFloor(sum(ratings1, ratings1) * sum(ratings2, ratings2)))

BinaryCosineSimilarity(v1, v2) ==
    IF v1 = <<>> \/ v2 = <<>> THEN 0 ELSE Hundredths(Len(Common(v1, v2)), SqrtFloor(Len(v1) * Len(v2)))

BinaryJaccardSimilarity(v1, v2) ==
    LET count == Len(Common(v1, v2))
    IN IF v1 = <<>> \/ v2 = <<>> THEN 0 ELSE Hundredths(count, Len(v1) + Len(v2) - count)

ItemSimilarity(simType, v1, v2) ==
    CASE simType \in NumericalTypes -> CosineSimilarity(v1, v2)
      [] simType = "binaryCosine" -> BinaryCosineSimilarity(v1, v2)
      [] simType = "binaryJaccard" -> BinaryJaccardSimilarity(v1, v2)

UserSimilarity(simType, v1, v2) == ItemSimilarity(simType, v1, v2)
-----------------------------------------------------------------------------
(* SimilarityMatrix: row i has the columns to i, and the diagonal is never *)
(* put.                                                                    *)

SimilarityMatrix(n) == [p \in {q \in Ids(n) \X Ids(n) : q[2] <= q[1]} |-> 0]

DirectPut(m, i, j, sim) == [m EXCEPT ![<<i, j>>] = sim]
Put(m, i, j, sim) == IF i < j THEN [m EXCEPT ![<<j, i>>] = sim] ELSE [m EXCEPT ![<<i, j>>] = sim]
Get(m, i, j) == IF i < j THEN m[<<j, i>>] ELSE m[<<i, j>>]

Rows(m, n) == FlattenSeq([i \in 1..n |-> [j \in 1..i |-> m[<<i - 1, j - 1>>]]])

ItemModelSave(m, n) == WriteBinaries(<<n>> \o Rows(m, n), Narrow)

ItemModelLoad(file) ==
    LET head == ReadBinary(Open(file), Narrow)
        n == head.read[1]
        body == ReadBinaries(head, (n * (n + 1)) \div 2, Narrow)
    IN [p \in DOMAIN SimilarityMatrix(n) |-> body.read[2 + (p[1] * (p[1] + 1)) \div 2 + p[2]]]

UserModelSave(m, n) == ItemModelSave(m, n)
UserModelLoad(file) == ItemModelLoad(file)
-----------------------------------------------------------------------------
(* Computing the model.                                                    *)

ItemAdjustRating(simType, items, numUser) ==
    CASE simType = "adjustedCosine" -> ItemsMinusUserAverage(items, numUser)
      [] simType = "correlation" -> ItemsMinusItemAverage(items)
      [] OTHER -> items

UserAdjustRating(simType, users, numItem) ==
    CASE simType = "adjustedCosine" -> UsersMinusItemAverage(users, numItem)
      [] simType = "correlation" -> UsersMinusUserAverage(users)
      [] OTHER -> users

\* The loops of ModelComputationST.
ComputeAll(n, sim(_, _)) ==
    LET pairs == SetToSeq({p \in Ids(n) \X Ids(n) : p[1] < p[2]})
    IN FoldLeft(LAMBDA m, p : DirectPut(m, p[2], p[1], sim(p[1], p[2])), SimilarityMatrix(n), pairs)

ItemModelST(simType, list) ==
    LET items == ItemAdjustRating(simType, AsItems(list).vectors, list.numUser)
    IN ComputeAll(list.numItem, LAMBDA i, j : ItemSimilarity(simType, items[i], items[j]))

UserModelST(simType, list) ==
    LET users == UserAdjustRating(simType, AsUsers(list).vectors, list.numItem)
    IN ComputeAll(list.numUser, LAMBDA u, v : UserSimilarity(simType, users[u], users[v]))

\* The pair that the static schedule's task is.
PairOf(task) ==
    LET i == (SqrtFloor(8 * task + 1) + 1) \div 2
    IN <<i, task - (i * (i - 1)) \div 2>>

\* Mutant of TasksOf: the last thread has no more than the others.
TasksOfEvenly(n, numThread, thread) ==
    LET each == ((n * (n - 1)) \div 2) \div numThread
    IN (thread - 1) * each..thread * each - 1

\* The last thread's share is what the others leave.
TasksOf(n, numThread, thread) ==
    LET total == (n * (n - 1)) \div 2
        each == total \div numThread
    IN (thread - 1) * each..IF thread = numThread THEN total - 1 ELSE thread * each - 1

\* ThreadRun's cells, for all threads.
ComputeStatic(n, numThread, sim(_, _)) ==
    LET tasks == SetToSeq(UNION {TasksOf(n, numThread, t) : t \in 1..numThread})
    IN FoldLeft(LAMBDA m, t : Put(m, PairOf(t)[1], PairOf(t)[2], sim(PairOf(t)[1], PairOf(t)[2])),
                SimilarityMatrix(n), tasks)

ItemModelStatic(simType, list, numThread) ==
    LET items == ItemAdjustRating(simType, AsItems(list).vectors, list.numUser)
    IN ComputeStatic(list.numItem, numThread, LAMBDA i, j : ItemSimilarity(simType, items[i], items[j]))

UserModelStatic(simType, list, numThread) ==
    LET users == UserAdjustRating(simType, AsUsers(list).vectors, list.numItem)
    IN ComputeStatic(list.numUser, numThread, LAMBDA u, v : UserSimilarity(simType, users[u], users[v]))

\* Load, compute and save: ItemBasedTrain and UserBasedTrain.
ItemBasedTrain(file, simType) ==
    LET list == LoadFromBinaryFile(file) IN ItemModelSave(ItemModelST(simType, list), list.numItem)
UserBasedTrain(file, simType) ==
    LET list == LoadFromBinaryFile(file) IN UserModelSave(UserModelST(simType, list), list.numUser)
-----------------------------------------------------------------------------
(* Predicting.                                                             *)

\* The users' vectors, adjusted by the averages of the list.
ItemBasedLoadTrainData(simType, list) ==
    LET users == AsUsers(list).vectors
    IN CASE simType = "adjustedCosine" -> UsersMinusUserTrait(RatingTrait(list), users)
         [] simType = "correlation" -> UsersMinusItemTrait(RatingTrait(list), users)
         [] OTHER -> users

UserBasedLoadTrainData(simType, list) ==
    LET items == AsItems(AsUsers(list).list).vectors
    IN CASE simType = "adjustedCosine" -> ItemsMinusItemTrait(RatingTrait(list), items)
         [] simType = "correlation" -> ItemsMinusUserTrait(RatingTrait(list), items)
         [] OTHER -> items

\* The positions of a vector's neighbours: all, or "size" of the most
\* similar; which of equals, RunningMaxK's heap decides.
Neighbors(vector, m, x, size) ==
    LET k == Min({size, Len(vector)})
        sim(i) == Get(m, vector[i].id, x)
    IN IF size <= 0 THEN {DOMAIN vector}
       ELSE {S \in kSubset(k, DOMAIN vector) : \A i \in S, j \in DOMAIN vector \ S : sim(i) >= sim(j)}

WeightedRating(vector, m, x, S) ==
    [num |-> Sum(S, LAMBDA i : Get(m, vector[i].id, x) * vector[i].rating),
     den |-> Sum(S, LAMBDA i : Absolute(Get(m, vector[i].id, x)))]

\* numerator / (denominator + EPS) + base
Predicted(vector, m, x, size, base) ==
    {[quotient |-> WeightedRating(vector, m, x, S), base |-> base] : S \in Neighbors(vector, m, x, size)}

Scores(vector, m, x, size) ==
    {Sum(S, LAMBDA i : Get(m, vector[i].id, x)) : S \in Neighbors(vector, m, x, size)}

ItemBasedPredictRating(simType, list, m, u, i, size) ==
    LET trait == RatingTrait(list)
        base == CASE simType = "adjustedCosine" -> Mean(trait.users[u])
                  [] simType = "correlation" -> Mean(trait.items[i])
                  [] OTHER -> 0
    IN Predicted(ItemBasedLoadTrainData(simType, list)[u], m, i, size, base)

UserBasedPredictRating(simType, list, m, u, i, size) ==
    LET trait == RatingTrait(list)
        base == CASE simType = "adjustedCosine" -> Mean(trait.items[i])
                  [] simType = "correlation" -> Mean(trait.users[u])
                  [] OTHER -> 0
    IN Predicted(UserBasedLoadTrainData(simType, list)[i], m, u, size, base)

\* Ranking by the neighbours' similarities.
ItemBasedTopNItemScore(simType, list, m, u, i, size) ==
    Scores(ItemBasedLoadTrainData(simType, list)[u], m, i, size)
UserBasedTopNItemScore(simType, list, m, u, i, size) ==
    Scores(UserBasedLoadTrainData(simType, list)[i], m, u, size)
=============================================================================
