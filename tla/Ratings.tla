-------------------------------- MODULE Ratings --------------------------------
(***************************************************************************)
(* The ratings (recsys/base) on their way from a text file into the        *)
(* recommenders: lists, files, the matrices by users and by items, their   *)
(* traits, the adjustments; the utilities (recsys/util) that make and      *)
(* describe data sets; and the two recommenders that use nothing but the   *)
(* traits (recsys/pop).                                                    *)
(*                                                                         *)
(* Ratings are whole numbers, so chosen that their averages are whole as   *)
(* well: 6 digits after the point, as %f writes, are enough.               *)
(***************************************************************************)
EXTENDS Streams, LinearAlgebra, FiniteSets, TLC

CONSTANT
    Infinity        \* numeric_limits<float>::max()

\* RatingList: the ratings in the order of Add.
RatingList(numUser, numItem, ratings) == [numUser |-> numUser, numItem |-> numItem, ratings |-> ratings]
RatingRecord(user, item, rating) == [user |-> user, item |-> item, rating |-> rating]

Ids(n) == 0..n - 1
Ints(n) == [k \in 1..n |-> k - 1]
-----------------------------------------------------------------------------
(* Files.  A rating's timestamp is read and written as 0.                  *)

RatingAt(read, begin) == RatingRecord(read[begin + 1], read[begin + 2], read[begin + 3])

\* The list of the numbers read: its head of three, and the ratings, the
\* i-th of which begins after width * i + shift numbers.
ListRead(numbers, width, shift) ==
    IF numbers.failed THEN [failed |-> TRUE]
    ELSE RatingList(numbers.read[2], numbers.read[3],
                    [i \in 1..numbers.read[1] |-> RatingAt(numbers.read, width * i + shift)])

\* What stands after the head, which says how many ratings there are.
ReadTextRatings(head) == IF head.failed THEN head ELSE ReadLine(head, 4 * head.read[1])
ReadBinaryRatings(head) == IF head.failed THEN head ELSE ReadBinaries(head, 3 * head.read[1], Narrow)

LoadFromTextFile(file) == ListRead(ReadTextRatings(ReadLine(Open(file), 3)), 4, -1)

WriteToTextFile(list) ==
    WriteLine(<<Len(list.ratings), list.numUser, list.numItem>>)
    \o FlattenSeq([i \in DOMAIN list.ratings |->
           WriteLine(<<list.ratings[i].user, list.ratings[i].item, list.ratings[i].rating, 0>>)])

\* "extra" numbers stand between the head and the ratings.
LoadBinary(file, extra) == ListRead(ReadBinaryRatings(ReadBinaries(Open(file), 3 + extra, Narrow)), 3, extra)

RatingNumbers(list) ==
    FlattenSeq([i \in DOMAIN list.ratings |->
        <<list.ratings[i].user, list.ratings[i].item, list.ratings[i].rating>>])

LoadFromBinaryFile(file) == LoadBinary(file, 0)

WriteToBinaryFile(list) ==
    WriteBinaries(<<Len(list.ratings), list.numUser, list.numItem>> \o RatingNumbers(list), Narrow)

Average(list) ==
    IF list.ratings = <<>> THEN 0
    ELSE Sum(DOMAIN list.ratings, LAMBDA i : list.ratings[i].rating) \div Len(list.ratings)

BasicConvert(textFile) == WriteToBinaryFile(LoadFromTextFile(textFile))

\* SVDConvert's files say the average too; SVDEvaluate reads past it.
WriteWithAverage(list) ==
    WriteBinaries(<<Len(list.ratings), list.numUser, list.numItem, Average(list)>> \o RatingNumbers(list), Narrow)

SVDConvert(textFile) == WriteWithAverage(LoadFromTextFile(textFile))

LoadRatingData(file) == LoadBinary(file, 1)
-----------------------------------------------------------------------------
(* RatingMatrixAsUsers and RatingMatrixAsItems, with their vectors.        *)

SortedBy(list, own, other) ==
    SortSeq(list.ratings, LAMBDA r, s : r[own] < s[own] \/ (r[own] = s[own] /\ r[other] < s[other]))

\* Each run of ratings of one user becomes the user's vector, or of one
\* item the item's.
Vectors(sorted, n, own, other) ==
    LET begins == {i \in DOMAIN sorted : i = 1 \/ sorted[i - 1][own] # sorted[i][own]}
        endOf(i) == Max({j \in i..Len(sorted) : \A k \in i..j : sorted[k][own] = sorted[i][own]})
        run(i) == [k \in 1..endOf(i) - i + 1 |->
                      [id |-> sorted[i + k - 1][other], rating |-> sorted[i + k - 1].rating]]
        of(v) == {i \in begins : sorted[i][own] = v}
    IN [v \in Ids(n) |-> IF of(v) = {} THEN <<>> ELSE run(Max(of(v)))]

\* Mutant of AsUsers: the list is taken to be sorted.
AsUsersUnsorted(list) == [list |-> list, vectors |-> Vectors(list.ratings, list.numUser, "user", "item")]

\* Init sorts the list it is given.
AsUsers(list) ==
    LET sorted == SortedBy(list, "user", "item")
    IN [list |-> [list EXCEPT !.ratings = sorted], vectors |-> Vectors(sorted, list.numUser, "user", "item")]

AsItems(list) ==
    LET sorted == SortedBy(list, "item", "user")
    IN [list |-> [list EXCEPT !.ratings = sorted], vectors |-> Vectors(sorted, list.numItem, "item", "user")]
-----------------------------------------------------------------------------
(* RatingTrait: what RunningMin, RunningMax and RunningStd have seen.      *)

NoTrait == [min |-> Infinity, max |-> -Infinity, count |-> 0, sum |-> 0, sqrSum |-> 0]

AddRating(t, rating) ==
    [min |-> IF rating < t.min THEN rating ELSE t.min, max |-> IF t.max < rating THEN rating ELSE t.max,
     count |-> t.count + 1, sum |-> t.sum + rating, sqrSum |-> t.sqrSum + rating * rating]

RatingTrait(list) ==
    LET add(t, r) == [all |-> AddRating(t.all, r.rating),
                      users |-> [t.users EXCEPT ![r.user] = AddRating(@, r.rating)],
                      items |-> [t.items EXCEPT ![r.item] = AddRating(@, r.rating)]]
    IN FoldLeft(add, [all |-> NoTrait, users |-> [u \in Ids(list.numUser) |-> NoTrait],
                      items |-> [i \in Ids(list.numItem) |-> NoTrait]], list.ratings)

Mean(t) == IF t.count = 0 THEN 0 ELSE t.sum \div t.count
-----------------------------------------------------------------------------
(* rating_adjust.cpp: by the averages of a trait, or by those of the       *)
(* matrix itself.                                                          *)

\* rating - average of the user or item the vector is of, or is about.
MinusOwn(vectors, means) ==
    [v \in DOMAIN vectors |-> [k \in DOMAIN vectors[v] |-> [vectors[v][k] EXCEPT !.rating = @ - means[v]]]]
MinusOther(vectors, means) ==
    [v \in DOMAIN vectors |-> [k \in DOMAIN vectors[v] |-> [vectors[v][k] EXCEPT !.rating = @ - means[vectors[v][k].id]]]]

VectorMeans(vectors) ==
    [v \in DOMAIN vectors |-> IF vectors[v] = <<>> THEN 0
                              ELSE Sum(DOMAIN vectors[v], LAMBDA k : vectors[v][k].rating) \div Len(vectors[v])]

OtherMeans(vectors, n) ==
    [o \in Ids(n) |->
        LET entries == {p \in UNION {{v} \X DOMAIN vectors[v] : v \in DOMAIN vectors} : vectors[p[1]][p[2]].id = o}
        IN IF entries = {} THEN 0
           ELSE Sum(entries, LAMBDA p : vectors[p[1]][p[2]].rating) \div Cardinality(entries)]

Means(traits) == [v \in DOMAIN traits |-> Mean(traits[v])]

UsersMinusUserTrait(trait, users) == MinusOwn(users, Means(trait.users))
ItemsMinusUserTrait(trait, items) == MinusOther(items, Means(trait.users))
ItemsMinusUserAverage(items, numUser) == MinusOther(items, OtherMeans(items, numUser))
UsersMinusUserAverage(users) == MinusOwn(users, VectorMeans(users))
UsersMinusItemTrait(trait, users) == MinusOther(users, Means(trait.items))
ItemsMinusItemTrait(trait, items) == MinusOwn(items, Means(trait.items))
ItemsMinusItemAverage(items) == MinusOwn(items, VectorMeans(items))
UsersMinusItemAverage(users, numItem) == MinusOther(users, OtherMeans(users, numItem))

\* What all ratings are divided by.
NormalizeRatingByDivideMax(list) ==
    LET max == FoldLeft(LAMBDA m, r : IF m < r.rating THEN r.rating ELSE m, 0, list.ratings)
    IN IF max > 0 THEN max ELSE 1
-----------------------------------------------------------------------------
(* recsys/util.                                                            *)

\* The items a user's negative ratings may be of.  3 * numNeg - 1 draws are
\* made; a draw of an item that is not available is lost.
NegativeSamples(vector, numItem, ratio) ==
    LET rated == {vector[k].id : k \in DOMAIN vector}
        wanted == (ratio[1] * Len(vector)) \div ratio[2]
        numNeg == Min({wanted, numItem - Len(vector)})
    IN {s \in SetToAllKPermutations(Ids(numItem) \ rated) \cup {<<>>} : Len(s) <= numNeg}

\* The ratings of the list are 1, those sampled 0.
WriteWithSamples(list, sampled) ==
    LET row(u, i, rating) == WriteLine(<<u, i, rating, 0>>)
        negatives(u) == FlattenSeq([k \in DOMAIN sampled[u] |-> row(u, sampled[u][k], 0)])
    IN WriteLine(<<Len(list.ratings) + Sum(DOMAIN sampled, LAMBDA u : Len(sampled[u])), list.numUser, list.numItem>>)
       \o FlattenSeq([i \in DOMAIN list.ratings |-> row(list.ratings[i].user, list.ratings[i].item, 1)])
       \o FlattenSeq([u \in 1..list.numUser |-> negatives(u - 1)])

\* ImplictConvert::Convert, with the samples drawn.
ImplictConvert(textFile, sampled) == WriteWithSamples(AsUsers(LoadFromTextFile(textFile)).list, sampled)

\* The K least and the K greatest, in order, and the sum.
Extremes(values, k) ==
    LET increasing == SortSeq(values, <)
        n == Min({k, Len(values)})
    IN [least |-> SubSeq(increasing, 1, n), greatest |-> SubSeq(Reverse(increasing), 1, n),
        sum |-> FoldLeft(LAMBDA x, y : x + y, 0, values)]

\* How many ratings each user, or item, has, in the order of the ids.
CountsOf(traits) == [n \in 1..Cardinality(DOMAIN traits) |-> traits[n - 1].count]
MeansOf(traits) == [n \in 1..Cardinality(DOMAIN traits) |-> Mean(traits[n - 1])]

Character(trait, k) ==
    [meta |-> trait.all, userActivity |-> Extremes(CountsOf(trait.users), k),
     itemPopularity |-> Extremes(CountsOf(trait.items), k)]

CharacterDataset(textFile, k) == Character(RatingTrait(LoadFromTextFile(textFile)), k)

\* RecsysUtil::RandomRatingList: the positions are a std::set, in order.
RandomRatingLists(numUser, numItem, numRating, values) ==
    LET order(S) == SetToSortSeq(S, LAMBDA p, q : p[1] < q[1] \/ (p[1] = q[1] /\ p[2] < q[2]))
    IN UNION {{RatingList(numUser, numItem, [k \in 1..numRating |-> RatingRecord(order(S)[k][1], order(S)[k][2], f[k])]) :
                  f \in [1..numRating -> values]} : S \in kSubset(numRating, Ids(numUser) \X Ids(numItem))}
-----------------------------------------------------------------------------
(* recsys/pop.                                                             *)

PopSaveModel(trait) ==
    WriteBinaries(<<Cardinality(DOMAIN trait.items)>> \o MeansOf(trait.items) \o CountsOf(trait.items)
                  \o <<Cardinality(DOMAIN trait.users)>> \o MeansOf(trait.users) \o CountsOf(trait.users), Narrow)

PopTrain(file) == PopSaveModel(RatingTrait(LoadFromBinaryFile(file)))

\* The numbers of items, with averages and popularities, then of users.
ReadPopItems(head) == ReadBinary(ReadBinaries(head, 2 * Last(head.read), Narrow), Narrow)
ReadPopUsers(head) == ReadBinaries(head, Last(head.read), Narrow)

\* mItemAverages, mItemPopularities and mUserAverages.
PopModel(read) ==
    LET n == Head(read)
    IN [itemAverage |-> [i \in Ids(n) |-> read[i + 2]],
        itemPopularity |-> [i \in Ids(n) |-> read[n + i + 2]],
        userAverage |-> [u \in Ids(read[2 * n + 2]) |-> read[2 * n + u + 3]]]

PopLoadModel(file) == PopModel(ReadPopUsers(ReadPopItems(ReadBinary(Open(file), Narrow))).read)

PopPredictRating(model, method, u, i) ==
    IF method = "itemAverage" THEN model.itemAverage[i] ELSE model.userAverage[u]

PopTopNItemScore(model, method, i) ==
    IF method = "itemAverage" THEN model.itemAverage[i] ELSE model.itemPopularity[i]

\* RandomPredict::PredictTopNItem: the limit of draws may cut a list short.
RandomTopNItems(vector, numItem, listSize) ==
    LET rated == {vector[k].id : k \in DOMAIN vector}
        drawn == {s \in SetToAllKPermutations(Ids(numItem) \ rated) \cup {<<>>} : Len(s) <= listSize}
    IN {[k \in 1..listSize |-> IF k <= Len(s) THEN s[k] ELSE 0] : s \in drawn}
=============================================================================
