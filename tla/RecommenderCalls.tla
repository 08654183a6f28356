---------------------------- MODULE RecommenderCalls ----------------------------
(***************************************************************************)
(* The programs of recsys/: an evaluation, which takes many steps, or one  *)
(* call that prepares a data set, converts it, trains or predicts.  "call" *)
(* is the call that has just returned: what it was given and what it gave. *)
(* What it should have given is defined here without reference to how it   *)
(* is done.                                                                *)
(***************************************************************************)
EXTENDS Evaluation, Preparation, NeighborModels, LearningCalls

CONSTANTS
    RatingLists,        \* RatingLists; a user rates an item once
    RawData,            \* [kind, movies, ratings, ...]: inputs of Prepare
    Ratios,             \* the shares of the ratings to train with, <<n, of>>
    Probes,             \* probe.txt
    NeighborSizes,      \* numbers of neighbours; 0: all
    ThreadNumbers       \* numbers of threads of the static schedule

-----------------------------------------------------------------------------
\* How a list may be shuffled and split for training and testing.
Splits(data) ==
    LET ratings == IF data.kind = "ocn" THEN OcnRatings(RawRatings(data)) ELSE RawRatings(data)
        by(method, limit) == [method : {method}, ratio : Ratios, picks : Picks(limit), probe : {<<>>}]
        byProbe == IF data.kind # "netflix" THEN {}
                   ELSE [method : {"byProbe"}, ratio : {<<1, 1>>}, picks : {<<>>}, probe : Probes]
    IN by("byAll", AllLimit(ratings)) \cup by("byUser", UserLimit(ratings)) \cup byProbe

PrepareData ==
    \E data \in RawData : \E split \in Splits(data) :
        call' = [kind |-> "prepare", data |-> data, split |-> split, out |-> Prepare(data, split)]

Shuffle ==
    \E s \in {<<1, 2, 3>>, <<1, 2, 3, 4>>} :
        call' = [kind |-> "shuffle", s |-> s, results |-> [p \in Picks([i \in DOMAIN s |-> Len(s)]) |-> RandomShuffle(s, p)]]

\* A list goes to a file and comes back.
KeepRatings ==
    \E list \in RatingLists :
        LET text == WriteToTextFile(list)
            binary == WriteToBinaryFile(list)
        IN call' = [kind |-> "ratings", list |-> list, text |-> text, binary |-> binary,
                    read |-> {LoadFromTextFile(text), LoadFromBinaryFile(binary),
                              LoadFromBinaryFile(BasicConvert(text)), LoadRatingData(SVDConvert(text))},
                    users |-> AsUsers(list).vectors, items |-> AsItems(list).vectors, trait |-> RatingTrait(list)]

\* The averages are taken off.
AdjustRatings ==
    \E list \in RatingLists :
        LET users == AsUsers(list).vectors
            items == AsItems(list).vectors
            trait == RatingTrait(list)
        IN call' = [kind |-> "adjust", list |-> list,
                    byUser |-> [users |-> {UsersMinusUserTrait(trait, users), UsersMinusUserAverage(users)},
                                items |-> {ItemsMinusUserTrait(trait, items), ItemsMinusUserAverage(items, list.numUser)}],
                    byItem |-> [users |-> {UsersMinusItemTrait(trait, users), UsersMinusItemAverage(users, list.numItem)},
                                items |-> {ItemsMinusItemTrait(trait, items), ItemsMinusItemAverage(items)}],
                    divisor |-> NormalizeRatingByDivideMax(list)]

\* ImplictConvert with one rating drawn for each, and CharacterDataset.
DescribeRatings ==
    \E list \in RatingLists :
        LET users == AsUsers(list).vectors
            text == WriteToTextFile(list)
            samples == [Ids(list.numUser) -> UNION {NegativeSamples(users[u], list.numItem, <<1, 1>>) : u \in DOMAIN users}]
        IN \E sampled \in {f \in samples : \A u \in DOMAIN f : f[u] \in NegativeSamples(users[u], list.numItem, <<1, 1>>)} :
               call' = [kind |-> "describe", list |-> list, implict |-> LoadFromTextFile(ImplictConvert(text, sampled)),
                        sampled |-> sampled, character |-> CharacterDataset(text, 2)]

MakeRatings ==
    \E list \in RandomRatingLists(2, 2, 2, {6, 12}) : call' = [kind |-> "make", list |-> list]

-----------------------------------------------------------------------------
Mirrored(list) ==
    RatingList(list.numItem, list.numUser,
               [k \in DOMAIN list.ratings |->
                   RatingRecord(list.ratings[k].item, list.ratings[k].user, list.ratings[k].rating)])

ComputeNeighborModel ==
    \E list \in RatingLists, simType \in NumericalTypes \cup BinaryTypes :
        call' = [kind |-> "neighbors", list |-> list, simType |-> simType,
                 items |-> {ItemModelST(simType, list)} \cup {ItemModelStatic(simType, list, t) : t \in ThreadNumbers},
                 users |-> {UserModelST(simType, list)} \cup {UserModelStatic(simType, list, t) : t \in ThreadNumbers},
                 trainedItems |-> ItemModelLoad(ItemBasedTrain(WriteToBinaryFile(list), simType)),
                 trainedUsers |-> UserModelLoad(UserBasedTrain(WriteToBinaryFile(list), simType)),
                 mirrored |-> [items |-> ItemModelST(simType, Mirrored(list)), users |-> UserModelST(simType, Mirrored(list))]]

PredictByNeighbors ==
    \E list \in RatingLists, simType \in NumericalTypes, size \in NeighborSizes :
        LET places == Ids(list.numUser) \X Ids(list.numItem)
        IN \E items \in {ItemModelST(simType, list)}, users \in {UserModelST(simType, list)} :
           call' = [kind |-> "predict", list |-> list, simType |-> simType, size |-> size, items |-> items, users |-> users,
                    byItems |-> [p \in places |-> ItemBasedPredictRating(simType, list, items, p[1], p[2], size)],
                    byUsers |-> [p \in places |-> UserBasedPredictRating(simType, list, users, p[1], p[2], size)],
                    itemScores |-> [p \in places |-> ItemBasedTopNItemScore(simType, list, items, p[1], p[2], size)],
                    userScores |-> [p \in places |-> UserBasedTopNItemScore(simType, list, users, p[1], p[2], size)]]

PredictByPopularity ==
    \E list \in RatingLists :
        LET model == PopLoadModel(PopTrain(WriteToBinaryFile(list)))
            places == Ids(list.numUser) \X Ids(list.numItem)
            lists(size) == [u \in Ids(list.numUser) |-> RandomTopNItems(AsUsers(list).vectors[u], list.numItem, size)]
        IN call' = [kind |-> "popularity", list |-> list,
                    byItem |-> [p \in places |-> PopPredictRating(model, "itemAverage", p[1], p[2])],
                    byUser |-> [p \in places |-> PopPredictRating(model, "userAverage", p[1], p[2])],
                    score |-> [i \in Ids(list.numItem) |-> PopTopNItemScore(model, "popular", i)],
                    random |-> lists(2)]

Return == call # NoCall /\ call' = NoCall /\ UNCHANGED <<evaluation, training>>

\* There is nothing to evaluate or to train, and the last call has returned.
Ready == option.measures = {} /\ call = NoCall /\ training = NoTraining /\ UNCHANGED <<evaluation, training>>

\* Threads train a network.
Train == option.measures = {} /\ call = NoCall /\ UNCHANGED <<evaluation, call>>

Init == Begin /\ call = NoCall /\ training = NoTraining
Next ==
    \/ Evaluate /\ UNCHANGED <<call, training>>
    \/ Train /\ StartThreads
    \/ Train /\ WorkerStep
    \/ Train /\ JoinThreads
    \/ Ready /\ KeepDatamodel
    \/ Ready /\ PrepareMnist
    \/ Ready /\ TrainNetwork
    \/ Ready /\ TrainAutoEncoder
    \/ Ready /\ PredictByLearntCodes
    \/ Ready /\ CompareCodes
    \/ Ready /\ TrainSvd
    \/ Ready /\ PredictByLatentFeatures
    \/ Ready /\ PrepareData
    \/ Ready /\ Shuffle
    \/ Ready /\ KeepRatings
    \/ Ready /\ AdjustRatings
    \/ Ready /\ DescribeRatings
    \/ Ready /\ MakeRatings
    \/ Ready /\ ComputeNeighborModel
    \/ Ready /\ PredictByNeighbors
    \/ Ready /\ PredictByPopularity
    \/ Return
Spec == Init /\ [][Next]_<<evaluation, call, training>>
-----------------------------------------------------------------------------
RatingsOf(list) == ToSet(list.ratings)
Places(S) == {<<r.user, r.item>> : r \in S}
IsOnto(f, S) == {f[x] : x \in DOMAIN f} = S
Entries(vectors) == UNION {{<<v, vectors[v][k].id, vectors[v][k].rating>> : k \in DOMAIN vectors[v]} : v \in DOMAIN vectors}
InOrder(vectors) == \A v \in DOMAIN vectors : \A j, k \in DOMAIN vectors[v] : j < k => vectors[v][j].id < vectors[v][k].id
MeanOf(S) == IF S = {} THEN 0 ELSE Sum(S, LAMBDA r : r.rating) \div Cardinality(S)
RatedBy(list, u) == {r \in RatingsOf(list) : r.user = u}
RatingOf(list, i) == {r \in RatingsOf(list) : r.item = i}

\* The ratings of a list are the same wherever they go: to a text or a
\* binary file and back, through either converter, into the vectors of the
\* users and into those of the items, which are in order and agree with the
\* trait.  A file that is cut short is never read as a shorter list.  The
\* four ways of taking off averages (of users or of items, of a trait or of
\* the vectors themselves) each agree, seen from users and from items.
RatingsKept ==
    /\ Returned("ratings") =>
          LET list == call.list
              all == RatingsOf(list)
          IN /\ call.read = {list}
             /\ Entries(call.users) = {<<r.user, r.item, r.rating>> : r \in all} /\ InOrder(call.users)
             /\ Entries(call.items) = {<<r.item, r.user, r.rating>> : r \in all} /\ InOrder(call.items)
             /\ \A u \in Ids(list.numUser) : call.trait.users[u].count = Len(call.users[u])
             /\ \A i \in Ids(list.numItem) : /\ call.trait.items[i].count = Len(call.items[i])
                                             /\ \A k \in DOMAIN call.items[i] : call.items[i][k].rating
                                                    \in call.trait.items[i].min..call.trait.items[i].max
             /\ call.trait.all.sum = Sum(Ids(list.numUser), LAMBDA u : call.trait.users[u].sum)
             /\ \A n \in 0..Len(call.text) - 1 : LoadFromTextFile(SubSeq(call.text, 1, n)).failed
             /\ \A n \in 0..Len(call.binary) - 1 : LoadFromBinaryFile(SubSeq(call.binary, 1, n)).failed
    /\ Returned("adjust") =>
          LET all == RatingsOf(call.list)
              off(r, mean) == r.rating - mean
          IN /\ \A v \in call.byUser.users :
                    Entries(v) = {<<r.user, r.item, off(r, MeanOf(RatedBy(call.list, r.user)))>> : r \in all}
             /\ \A v \in call.byUser.items :
                    Entries(v) = {<<r.item, r.user, off(r, MeanOf(RatedBy(call.list, r.user)))>> : r \in all}
             /\ \A v \in call.byItem.users :
                    Entries(v) = {<<r.user, r.item, off(r, MeanOf(RatingOf(call.list, r.item)))>> : r \in all}
             /\ \A v \in call.byItem.items :
                    Entries(v) = {<<r.item, r.user, off(r, MeanOf(RatingOf(call.list, r.item)))>> : r \in all}
             /\ \A r \in all : r.rating <= call.divisor
    /\ Returned("describe") =>
          LET out == call.implict
              positive == {r \in RatingsOf(out) : r.rating = 1}
          IN /\ Places(positive) = Places(RatingsOf(call.list))
             /\ Places(RatingsOf(out) \ positive) = UNION {{<<u, i>> : i \in ToSet(call.sampled[u])} : u \in DOMAIN call.sampled}
             /\ Cardinality(Places(RatingsOf(out))) = Len(out.ratings)
             /\ \A u \in DOMAIN call.sampled : Cardinality(RatedBy(out, u)) <= 2 * Cardinality(RatedBy(call.list, u))
             /\ call.character.userActivity.sum = Len(call.list.ratings)
             /\ call.character.itemPopularity.sum = Len(call.list.ratings)
    /\ Returned("make") => Cardinality(Places(RatingsOf(call.list))) = Len(call.list.ratings)

\* Preparing loses and invents nothing: the new numbers of users and items
\* are 0 and up, one each; the files for training and for testing together
\* have every rating of rating.txt once, whatever is drawn, and their heads
\* count them; of all ratings, or of each user's, the given share is for
\* training; and the movies listed are those rated, in the order of years.
\* A shuffle can give any order, each for exactly one sequence of draws.
SplitsPartition ==
    /\ Returned("prepare") =>
          LET raw == RawRatings(call.data)
              out == call.out
              read(file) == LoadFromTextFile(file)
              all == read(out.files.all)
              train == read(out.files.train)
              test == read(out.files.test)
              times(list, r) == Cardinality({k \in DOMAIN list.ratings : list.ratings[k] = r})
              numbered(r) == RatingRecord(out.users[r.user], out.items[r.item], r.rating)
              share(n) == (n * call.split.ratio[1]) \div call.split.ratio[2]
          IN /\ IsOnto(out.users, Ids(Cardinality({r.user : r \in ToSet(raw)}))) /\ IsInjective(out.users)
             /\ IsOnto(out.items, Ids(Cardinality({r.item : r \in ToSet(raw)}))) /\ IsInjective(out.items)
             /\ all.ratings = [k \in DOMAIN raw |-> numbered(raw[k])]
             /\ {<<list.numUser, list.numItem>> : list \in {train, test}} = {<<all.numUser, all.numItem>>}
             /\ \A r \in RatingsOf(all) \cup RatingsOf(train) \cup RatingsOf(test) :
                    times(all, r) = times(train, r) + times(test, r)
             /\ call.split.method = "byAll" => Len(train.ratings) = share(Len(raw))
             /\ call.split.method = "byUser" => \A u \in Ids(all.numUser) :
                    Len(SelectSeq(train.ratings, LAMBDA r : r.user = u))
                        = share(Len(SelectSeq(all.ratings, LAMBDA r : r.user = u)))
             /\ call.split.method = "byProbe" => \A r \in ToSet(raw) :
                    numbered(r) \in RatingsOf(test) <=> <<r.user, r.item>> \in TestRatingSet(call.split.probe)
             /\ out.movies.count = Len(out.movies.rows)
             /\ \A j, k \in DOMAIN out.movies.rows : j < k =>
                    /\ out.movies.rows[j].year <= out.movies.rows[k].year
                    /\ out.movies.rows[j].id # out.movies.rows[k].id
             /\ call.data.kind # "ocn" =>
                    {m.id : m \in ToSet(out.movies.rows)}
                        = {out.items[m.id] : m \in {x \in ToSet(call.data.movies) : x.id \in DOMAIN out.items}}
    /\ Returned("shuffle") =>
          /\ IsInjective(call.results)
          /\ \A p \in DOMAIN call.results : ToSet(call.results[p]) = ToSet(call.s)
          /\ Cardinality(DOMAIN call.results) = Cardinality(SetToAllKPermutations(ToSet(call.s)) \cap
                 {s \in SetToAllKPermutations(ToSet(call.s)) : Len(s) = Len(call.s)})

-----------------------------------------------------------------------------
(* Similarity by the ratings alone: of items, "of" is "item", or of users. *)

Across(of) == IF of = "item" THEN "user" ELSE "item"

Centered(list, simType, of) ==
    [r \in RatingsOf(list) |->
        r.rating - CASE simType = "adjustedCosine" -> MeanOf({x \in RatingsOf(list) : x[Across(of)] = r[Across(of)]})
                     [] simType = "correlation" -> MeanOf({x \in RatingsOf(list) : x[of] = r[of]})
                     [] OTHER -> 0]

SimilarityOf(list, simType, of, a, b) ==
    LET centered == Centered(list, simType, of)
        ratings(x) == {r \in RatingsOf(list) : r[of] = x}
        both == {p \in ratings(a) \X ratings(b) : p[1][Across(of)] = p[2][Across(of)]}
        sum(j, k) == Sum(both, LAMBDA p : centered[p[j]] * centered[p[k]])
        sizes == [product |-> Cardinality(ratings(a)) * Cardinality(ratings(b)),
                  union |-> Cardinality({r[Across(of)] : r \in ratings(a) \cup ratings(b)})]
    IN CASE simType \in NumericalTypes -> Hundredths(sum(1, 2), SqrtFloor(sum(1, 1) * sum(2, 2)))
         [] simType = "binaryCosine" -> Hundredths(Cardinality(both), SqrtFloor(sizes.product))
         [] simType = "binaryJaccard" -> Hundredths(Cardinality(both), sizes.union)

\* The neighbours are as many as asked for and are no less similar, taken
\* together, than any others.
IsPrediction(answer, score, list, simType, of, m, x, y, size) ==
    LET rated == {r \in RatingsOf(list) : r[Across(of)] = y}
        centered == Centered(list, simType, of)
        sim(r) == Get(m, r[of], x)
        total(S) == Sum(S, sim)
        n == IF size = 0 \/ size > Cardinality(rated) THEN Cardinality(rated) ELSE size
        base == CASE simType = "adjustedCosine" -> MeanOf(rated)
                  [] simType = "correlation" -> MeanOf({r \in RatingsOf(list) : r[of] = x})
                  [] OTHER -> 0
    IN \E S \in kSubset(n, rated) :
           /\ \A other \in kSubset(n, rated) : total(other) <= total(S)
           /\ score = total(S)
           /\ answer.base = base
           /\ answer.quotient = [num |-> Sum(S, LAMBDA r : sim(r) * centered[r]),
                                 den |-> Sum(S, LAMBDA r : Absolute(sim(r)))]

\* The similarity of any two items, and of any two users, is that of the
\* ratings both have, whichever schedule computes it and however many
\* threads divide the pairs among themselves by the square root of a task's
\* number; it survives the file the model is kept in; the models of users
\* are those of items with the list's sides exchanged.  A prediction is
\* made from the most similar of what the user (or the item) has rated, and
\* a rating does not contribute to its own prediction; popularity and
\* random recommenders say what the list says and recommend nothing rated.
PredictionsAgree ==
    /\ Returned("neighbors") =>
          LET list == call.list
          IN /\ call.items = {call.trainedItems} /\ call.users = {call.trainedUsers}
             /\ call.mirrored = [items |-> call.trainedUsers, users |-> call.trainedItems]
             /\ \A i, j \in Ids(list.numItem) : Get(call.trainedItems, i, j)
                    = IF i = j THEN 0 ELSE SimilarityOf(list, call.simType, "item", i, j)
             /\ \A u, v \in Ids(list.numUser) : Get(call.trainedUsers, u, v)
                    = IF u = v THEN 0 ELSE SimilarityOf(list, call.simType, "user", u, v)
    /\ Returned("predict") =>
          \A u \in Ids(call.list.numUser), i \in Ids(call.list.numItem) :
              /\ \A answer \in call.byItems[<<u, i>>] : \E score \in call.itemScores[<<u, i>>] :
                    IsPrediction(answer, score, call.list, call.simType, "item", call.items, i, u, call.size)
              /\ \A answer \in call.byUsers[<<u, i>>] : \E score \in call.userScores[<<u, i>>] :
                    IsPrediction(answer, score, call.list, call.simType, "user", call.users, u, i, call.size)
    /\ Returned("popularity") =>
          \A u \in Ids(call.list.numUser), i \in Ids(call.list.numItem) :
              /\ call.byItem[<<u, i>>] = MeanOf(RatingOf(call.list, i))
              /\ call.byUser[<<u, i>>] = MeanOf(RatedBy(call.list, u))
              /\ call.score[i] = Cardinality(RatingOf(call.list, i))
              /\ \A items \in call.random[u] : \A k \in DOMAIN items :
                    items[k] # 0 => <<u, items[k]>> \notin Places(RatingsOf(call.list)) /\ \A j \in 1..k - 1 : items[j] # items[k]
=============================================================================
