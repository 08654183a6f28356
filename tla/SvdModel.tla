-------------------------------- MODULE SvdModel --------------------------------
(***************************************************************************)
(* recsys/svd: what one thread computes of an SVD model, and the programs  *)
(* around it.  How the threads share the grids is SvdModelComputationMT's. *)
(*                                                                         *)
(* A parameter [dim, userFeature, itemFeature, userBias, itemBias,         *)
(* useAverage, useSigmoid] has the lambdas of the four; there is no bias   *)
(* where its lambda is negative.  The sigmoid is that of BpNetwork.        *)
(***************************************************************************)
EXTENDS AutoEncoder

SVDModel(average, users, items, userBiases, itemBiases) ==
    [average |-> average, users |-> users, items |-> items, userBiases |-> userBiases, itemBiases |-> itemBiases]

UseUserBias(param) == param.userBias >= 0
UseItemBias(param) == param.itemBias >= 0

\* RandomInit, with the features drawn.
SVDRandomInit(param, average, users, items) ==
    SVDModel(average, users, items,
             IF UseUserBias(param) THEN [u \in DOMAIN users |-> 0] ELSE <<>>,
             IF UseItemBias(param) THEN [i \in DOMAIN items |-> 0] ELSE <<>>)

InIdOrder(f) == [k \in 1..Cardinality(DOMAIN f) |-> f[k - 1]]

SVDSave(model, param) ==
    WriteBinaries(<<Cardinality(DOMAIN model.users), Cardinality(DOMAIN model.items), model.average>>
                  \o FlattenSeq(InIdOrder(model.users)) \o FlattenSeq(InIdOrder(model.items))
                  \o (IF UseUserBias(param) THEN InIdOrder(model.userBiases) ELSE <<>>)
                  \o (IF UseItemBias(param) THEN InIdOrder(model.itemBiases) ELSE <<>>), Narrow)

NumUserBias(param, numUser) == IF UseUserBias(param) THEN numUser ELSE 0
NumItemBias(param, numItem) == IF UseItemBias(param) THEN numItem ELSE 0

\* The features and the biases, after a head that says how many.
ReadSVDBody(head, param) ==
    IF head.failed THEN head
    ELSE ReadBinaries(head, (head.read[1] + head.read[2]) * param.dim
                            + NumUserBias(param, head.read[1]) + NumItemBias(param, head.read[2]), Narrow)

SVDModelRead(numbers, param) ==
    LET numUser == numbers.read[1]
        numItem == numbers.read[2]
        vector(k) == SubSeq(numbers.read, 3 + k * param.dim + 1, 3 + (k + 1) * param.dim)
        bias(k) == numbers.read[3 + (numUser + numItem) * param.dim + k + 1]
    IN IF numbers.failed THEN [failed |-> TRUE]
       ELSE SVDModel(numbers.read[3], [u \in Ids(numUser) |-> vector(u)], [i \in Ids(numItem) |-> vector(numUser + i)],
                     IF UseUserBias(param) THEN [u \in Ids(numUser) |-> bias(u)] ELSE <<>>,
                     IF UseItemBias(param) THEN [i \in Ids(numItem) |-> bias(NumUserBias(param, numUser) + i)] ELSE <<>>)

SVDLoad(file, param) == SVDModelRead(ReadSVDBody(ReadBinaries(Open(file), 3, Narrow), param), param)

\* The features drawn, or those of a saved model, whatever the ids are now.
SVDInitModel(param, option, average, users, items, modelFile) ==
    IF option.randomInit THEN SVDRandomInit(param, average, users, items) ELSE SVDLoad(modelFile, param)
-----------------------------------------------------------------------------
(* GriddedMatrix.                                                          *)

CeilDiv(n, d) == (n + d - 1) \div d

\* A rating goes to the grid of its new ids.
Gridded(list, average, numUserBlock, numItemBlock, userMap, itemMap) ==
    LET rowBlockSize == CeilDiv(list.numUser, numUserBlock)
        colBlockSize == CeilDiv(list.numItem, numItemBlock)
        grid(r) == (userMap[r.user] \div rowBlockSize) * numItemBlock + itemMap[r.item] \div colBlockSize
        mapped(r) == RatingRecord(userMap[r.user], itemMap[r.item], r.rating)
        of(g) == SelectSeq(list.ratings, LAMBDA r : grid(r) = g)
    IN [numUser |-> list.numUser, numItem |-> list.numItem, average |-> average,
        grids |-> [g \in Ids(numUserBlock * numItemBlock) |-> [k \in DOMAIN of(g) |-> mapped(of(g)[k])]]]

\* The files are SVDConvert's.
GriddedLoad(file, numUserBlock, numItemBlock, userMap, itemMap) ==
    Gridded(LoadRatingData(file), ReadBinaries(Open(file), 4, Narrow).read[4], numUserBlock, numItemBlock, userMap, itemMap)

\* GenerateIdMapping: a shuffle of the ids, or none.
IdMappings(n, useRandomShuffle) ==
    IF useRandomShuffle THEN {f \in [Ids(n) -> Ids(n)] : IsInjective(f)} ELSE {[x \in Ids(n) |-> x]}
-----------------------------------------------------------------------------
(* ModelComputation.                                                       *)

\* The rating a model predicts, before and after the sigmoid.
Estimate(model, param, u, i) ==
    InnerProd(model.users[u], model.items[i]) + (IF param.useAverage THEN model.average ELSE 0)
    + (IF UseUserBias(param) THEN model.userBiases[u] ELSE 0) + (IF UseItemBias(param) THEN model.itemBiases[i] ELSE 0)

Estimated(model, param, u, i) ==
    IF param.useSigmoid THEN Sigmoid(Estimate(model, param, u, i)) ELSE Estimate(model, param, u, i)

\* Mutant of SGDStep: the item's features learn from the user's new ones.
SGDStepNoTmp(model, param, learningRate, r) ==
    LET pred == Estimated(model, param, r.user, r.item)
        ge == (r.rating - pred) * (IF param.useSigmoid THEN Slope(pred) ELSE 1) * learningRate
        glp == 1 - learningRate * param.userFeature
        glq == 1 - learningRate * param.itemFeature
        p == [d \in 1..param.dim |-> ge * model.items[r.item][d] + glp * model.users[r.user][d]]
        q == [d \in 1..param.dim |-> ge * p[d] + glq * model.items[r.item][d]]
        bias(b, lambda) == (1 - learningRate * lambda) * b + ge
    IN [model EXCEPT !.users[r.user] = p, !.items[r.item] = q,
                     !.userBiases = IF UseUserBias(param) THEN [@ EXCEPT ![r.user] = bias(@, param.userBias)] ELSE @,
                     !.itemBiases = IF UseItemBias(param) THEN [@ EXCEPT ![r.item] = bias(@, param.itemBias)] ELSE @]

\* The step for one rating.
SGDStep(model, param, learningRate, r) ==
    LET pred == Estimated(model, param, r.user, r.item)
        ge == (r.rating - pred) * (IF param.useSigmoid THEN Slope(pred) ELSE 1) * learningRate
        glp == 1 - learningRate * param.userFeature
        glq == 1 - learningRate * param.itemFeature
        p == [d \in 1..param.dim |-> ge * model.items[r.item][d] + glp * model.users[r.user][d]]
        q == [d \in 1..param.dim |-> ge * model.users[r.user][d] + glq * model.items[r.item][d]]
        bias(b, lambda) == (1 - learningRate * lambda) * b + ge
    IN [model EXCEPT !.users[r.user] = p, !.items[r.item] = q,
                     !.userBiases = IF UseUserBias(param) THEN [@ EXCEPT ![r.user] = bias(@, param.userBias)] ELSE @,
                     !.itemBiases = IF UseItemBias(param) THEN [@ EXCEPT ![r.item] = bias(@, param.itemBias)] ELSE @]

SGDOneMatrix(model, param, learningRate, grid) ==
    FoldLeft(LAMBDA m, r : SGDStep(m, param, learningRate, r), model, grid)

GridRatings(gridded) == FlattenSeq(InIdOrder(gridded.grids))

\* mNumRatingPerUser and mNumRatingPerItem.
ComputeLossInit(gridded) ==
    LET ratings == GridRatings(gridded)
        times(own, x) == Cardinality({k \in DOMAIN ratings : ratings[k][own] = x})
    IN [users |-> [u \in Ids(gridded.numUser) |-> times("user", u)],
        items |-> [i \in Ids(gridded.numItem) |-> times("item", i)]]

SVDDataLoss(model, param, gridded) ==
    LET ratings == GridRatings(gridded)
    IN Sum(DOMAIN ratings, LAMBDA k :
               Square(ratings[k].rating - Estimated(model, param, ratings[k].user, ratings[k].item)))

SVDRegLoss(model, param, gridded) ==
    LET count == ComputeLossInit(gridded)
        users == DOMAIN model.users
        items == DOMAIN model.items
    IN Sum(users, LAMBDA u : count.users[u] * param.userFeature * NormL2Sqr(model.users[u]))
       + Sum(items, LAMBDA i : count.items[i] * param.itemFeature * NormL2Sqr(model.items[i]))
       + (IF UseUserBias(param) THEN param.userBias * Sum(users, LAMBDA u : count.users[u] * Square(model.userBiases[u])) ELSE 0)
       + (IF UseItemBias(param) THEN param.itemBias * Sum(items, LAMBDA i : count.items[i] * Square(model.itemBiases[i])) ELSE 0)

SVDValidateLoss(model, param, validate) == SVDDataLoss(model, param, validate)

ComputeLoss(model, param, train, validate) ==
    [data |-> SVDDataLoss(model, param, train), reg |-> SVDRegLoss(model, param, train),
     validate |-> SVDValidateLoss(model, param, validate)]

\* ModelComputationST::ComputeModel.  orders[iter] is an order of the grids.
ComputeModel(model, param, option, train, validate, orders) ==
    LET grid(m, g) == SGDOneMatrix(m, param, option.learningRate, train.grids[g])
        monitored(iter) == option.monitorStep > 0 /\ (iter - 1) % option.monitorStep = 0
        iteration(state, iter) ==
            LET m == FoldLeft(grid, state.model, orders[iter])
            IN [model |-> m,
                reports |-> IF monitored(iter) THEN Append(state.reports, ComputeLoss(m, param, train, validate))
                            ELSE state.reports]
    IN FoldLeft(iteration, [model |-> model, reports |-> <<>>], [iter \in DOMAIN orders |-> iter])

\* Mutant of InverseShuffleModel: the mapping is applied, not inverted.
ShuffleAgain(model, param, userMap, itemMap) ==
    LET moved(f, map) == [x \in DOMAIN f |-> f[CHOOSE y \in DOMAIN f : map[y] = x]]
    IN [model EXCEPT !.users = moved(@, userMap), !.items = moved(@, itemMap),
                     !.userBiases = IF UseUserBias(param) THEN moved(@, userMap) ELSE @,
                     !.itemBiases = IF UseItemBias(param) THEN moved(@, itemMap) ELSE @]

InverseShuffleModel(model, param, userMap, itemMap) ==
    LET inverse(map) == [x \in DOMAIN map |-> CHOOSE y \in DOMAIN map : map[y] = x]
        moved(f, map) == [x \in DOMAIN f |-> f[CHOOSE y \in DOMAIN f : map[y] = x]]
    IN [model EXCEPT !.users = moved(@, inverse(userMap)), !.items = moved(@, inverse(itemMap)),
                     !.userBiases = IF UseUserBias(param) THEN moved(@, inverse(userMap)) ELSE @,
                     !.itemBiases = IF UseItemBias(param) THEN moved(@, inverse(itemMap)) ELSE @]

SVDSaveModel(model, param, option, userMap, itemMap) ==
    SVDSave(IF option.useRandomShuffle THEN InverseShuffleModel(model, param, userMap, itemMap) ELSE model, param)

SVDSaveTrained(computed, param, option, userMap, itemMap) ==
    [file |-> SVDSaveModel(computed.model, param, option, userMap, itemMap), reports |-> computed.reports]

\* SVDTrain::Train, of the model SVDInitModel gives.
SVDTrain(trainFile, validateFile, param, option, userMap, itemMap, model, orders) ==
    LET gridded(file) == GriddedLoad(file, option.numUserBlock, option.numItemBlock, userMap, itemMap)
    IN SVDSaveTrained(ComputeModel(model, param, option, gridded(trainFile), gridded(validateFile), orders),
                      param, option, userMap, itemMap)
-----------------------------------------------------------------------------
(* SVDPredict.                                                             *)

\* The list, by users, and by items where they are needed.
ByUsersAndItems(byUsers) == [users |-> byUsers.vectors, items |-> AsItems(byUsers.list).vectors]

SVDLoadTrainData(file) == ByUsersAndItems(AsUsers(LoadRatingData(file)))

SVDPredictRating(model, param, u, i) ==
    LET predRating == InnerProd(model.users[u], model.items[i])
                      + (IF UseUserBias(param) THEN model.userBiases[u] ELSE 0)
                      + (IF UseItemBias(param) THEN model.itemBiases[i] ELSE 0)
                      + (IF param.useAverage THEN model.average ELSE 0)
    IN IF param.useSigmoid THEN Sigmoid(predRating) ELSE predRating

ComputeLatentDistance(distanceType, v, w) ==
    CASE distanceType = "normL1" -> 100 * DistanceL1(v, w)
      [] distanceType = "normL2" -> 100 * DistanceL2(v, w)
      [] distanceType = "cosine" -> DistanceCosine(v, w)
      [] distanceType = "correlation" -> DistanceCorrelation(v, w)

ScoreByLatentItemNeighbor(model, distanceType, users, u, i, size) ==
    LeastDistances(users[u], LAMBDA id : ComputeLatentDistance(distanceType, model.items[id], model.items[i]), size)
ScoreByLatentUserNeighbor(model, distanceType, items, u, i, size) ==
    LeastDistances(items[i], LAMBDA id : ComputeLatentDistance(distanceType, model.users[id], model.users[u]), size)

SVDTopNItemScore(model, param, method, distanceType, data, u, i, size) ==
    CASE method = "predictRating" -> SVDPredictRating(model, param, u, i)
      [] method = "latentItemNeighbor" -> ScoreByLatentItemNeighbor(model, distanceType, data.users, u, i, size)
      [] method = "latentUserNeighbor" -> ScoreByLatentUserNeighbor(model, distanceType, data.items, u, i, size)
=============================================================================
