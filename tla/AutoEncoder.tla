------------------------------ MODULE AutoEncoder ------------------------------
(***************************************************************************)
(* recsys/neural_network: an auto-encoder that reconstructs the ratings of *)
(* a user (or of an item) from a code, and knows only what is rated.       *)
(* Users and items are treated alike, line by line: what is called "User"  *)
(* here is about vectors, and what is called "Item" says that it is the    *)
(* same.  There is one layer; with more, the code asserts that the last is *)
(* as long as the first.  Its threads are those of BundledComputationMT.   *)
(*                                                                         *)
(* The sigmoid is that of BpNetwork; 1 / sqrt(size) is NormCoff(size).     *)
(***************************************************************************)
EXTENDS BpNetwork, Ratings

CONSTANT NormCoff(_)

\* Model: "encode" has a row for each unit, "decode" one for each input.
AutoEncoderModel(numInput, numHidden, encode, encodeBias, decode, decodeBias, codes) ==
    [numInput |-> numInput, numHidden |-> numHidden, encode |-> encode, encodeBias |-> encodeBias,
     decode |-> decode, decodeBias |-> decodeBias, codes |-> codes]

SaveModel(model) ==
    WriteBinaries(<<model.numInput, Len(model.codes), 1, model.numHidden>>, Narrow)
    \o WriteBinaries(model.encode.data \o model.encodeBias \o model.decode.data \o model.decodeBias
                     \o FlattenSeq(model.codes), Wide)

\* The file must be of a model of these sizes.
LoadModel(file, numInput, numSample, numHidden) ==
    LET sizes == <<numInput, numSample, 1, numHidden>>
        size == numInput * numHidden
        ends == <<size, size + numHidden, 2 * size + numHidden, 2 * size + numHidden + numInput>>
        head == ReadBinaries(Open(file), 4, Narrow)
        body == ReadBinaries(head, Last(ends) + numSample * numHidden, Wide)
        part(a, b) == SubSeq(body.read, 4 + a + 1, 4 + b)
        code(i) == part(Last(ends) + (i - 1) * numHidden, Last(ends) + i * numHidden)
    IN IF body.failed \/ SubSeq(head.read, 1, 4) # sizes THEN [failed |-> TRUE]
       ELSE AutoEncoderModel(numInput, numHidden,
                Matrix(numHidden, numInput, part(0, ends[1])), part(ends[1], ends[2]),
                Matrix(numInput, numHidden, part(ends[2], ends[3])), part(ends[3], ends[4]),
                [i \in 1..numSample |-> code(i)])
-----------------------------------------------------------------------------
(* TrainSparseLayerDelegate.  Of the second layer only what the sample has *)
(* rated is computed, and only that is read.                               *)

RatedIds(vector) == {vector[k].id : k \in DOMAIN vector}

\* A unit's sum over what is rated.
Encode(model, vector) ==
    [i \in 1..model.numHidden |->
        Sigmoid(model.encodeBias[i] + Sum(DOMAIN vector, LAMBDA k : Entry(model.encode, i, vector[k].id + 1) * vector[k].rating))]

Decode(model, code, id) ==
    Sigmoid(model.decodeBias[id + 1] + Sum(DOMAIN code, LAMBDA j : Entry(model.decode, id + 1, j) * code[j]))

\* mActivation1 and mActivation2.
ForwardUser(model, vector) ==
    LET code == Encode(model, vector)
    IN [hidden |-> code, output |-> [id \in RatedIds(vector) |-> Decode(model, code, id)]]

ForwardItem(model, vector) == ForwardUser(model, vector)

\* mDelta1, mDelta2 and the sample's loss.
BackwardUser(model, vector, act, option) ==
    LET coff == IF option.normalize THEN NormCoff(Len(vector)) ELSE 1
        target(id) == vector[CHOOSE k \in DOMAIN vector : vector[k].id = id].rating
        error == [id \in RatedIds(vector) |-> (act.output[id] - target(id)) * coff]
        delta2 == [id \in RatedIds(vector) |-> error[id] * Slope(act.output[id])]
        back(i) == Sum(RatedIds(vector), LAMBDA id : Entry(model.decode, id + 1, i) * delta2[id])
    IN [delta1 |-> [i \in 1..model.numHidden |-> back(i) * Slope(act.hidden[i])], delta2 |-> delta2,
        loss |-> Sum(RatedIds(vector), LAMBDA id : Square(error[id]))]

BackwardItem(model, vector, act, option) == BackwardUser(model, vector, act, option)

UpdateUser(model, vector, act, back, option) ==
    LET rated == RatedIds(vector)
        rating(id) == vector[CHOOSE k \in DOMAIN vector : vector[k].id = id].rating
        moved(weight, grad) == weight - option.learningRate * (grad + option.lambda * weight)
        encode(i, j) == IF j - 1 \in rated THEN moved(Entry(model.encode, i, j), back.delta1[i] * rating(j - 1))
                        ELSE Entry(model.encode, i, j)
        decode(i, j) == IF i - 1 \in rated THEN moved(Entry(model.decode, i, j), back.delta2[i - 1] * act.hidden[j])
                        ELSE Entry(model.decode, i, j)
    IN [model EXCEPT !.encode = MatrixOf(model.numHidden, model.numInput, encode),
                     !.encodeBias = [i \in DOMAIN @ |-> @[i] - option.learningRate * back.delta1[i]],
                     !.decode = MatrixOf(model.numInput, model.numHidden, decode),
                     !.decodeBias = [i \in DOMAIN @ |->
                         IF i - 1 \in rated THEN @[i] - option.learningRate * back.delta2[i - 1] ELSE @[i]]]

UpdateItem(model, vector, act, back, option) == UpdateUser(model, vector, act, back, option)

ComputeDataLoss(losses) == Sum(DOMAIN losses, LAMBDA s : losses[s])
ComputeRegLoss(model, option) == option.lambda * (NormFSqr(model.encode) + NormFSqr(model.decode))

\* The sample is encoded by its ratings of both lists.
ComputeValidateLossUser(model, train, validate, option) ==
    LET coff(v) == IF option.normalize THEN NormCoff(Len(v)) ELSE 1
        error(code, v, k) == (Decode(model, code, v[k].id) - v[k].rating) * coff(v)
        loss(code, v) == Sum(DOMAIN v, LAMBDA k : Square(error(code, v, k)))
    IN Sum(DOMAIN train, LAMBDA s : loss(Encode(model, train[s] \o validate[s]), validate[s]))

ComputeValidateLossItem(model, train, validate, option) == ComputeValidateLossUser(model, train, validate, option)

ComputeValidateLoss(codeType, model, train, validate, option) ==
    IF codeType = "user" THEN ComputeValidateLossUser(model, train, validate, option)
    ELSE ComputeValidateLossItem(model, train, validate, option)

\* state: [model, losses, reports].
SGDOnUser(state, vectors, s, option) ==
    LET act == ForwardUser(state.model, vectors[s])
        back == BackwardUser(state.model, vectors[s], act, option)
    IN [state EXCEPT !.model = UpdateUser(@, vectors[s], act, back, option), !.losses[s] = back.loss]

SGDOnItem(state, vectors, s, option) ==
    LET act == ForwardItem(state.model, vectors[s])
        back == BackwardItem(state.model, vectors[s], act, option)
    IN [state EXCEPT !.model = UpdateItem(@, vectors[s], act, back, option), !.losses[s] = back.loss]

SGDOnSample(codeType, state, vectors, s, option) ==
    IF codeType = "user" THEN SGDOnUser(state, vectors, s, option) ELSE SGDOnItem(state, vectors, s, option)

\* InitResource.
Untrained(model, vectors) == [model |-> model, losses |-> [s \in DOMAIN vectors |-> 0], reports |-> <<>>]

TrainSparseLayer(step(_, _), validateLoss(_), model, vectors, option, orders) ==
    LET monitored(iter) == option.monitorStep > 0 /\ (iter - 1) % option.monitorStep = 0
        report(state) == [data |-> ComputeDataLoss(state.losses), reg |-> ComputeRegLoss(state.model, option),
                          validate |-> validateLoss(state.model)]
        iteration(state, iter) ==
            LET done == FoldLeft(step, state, orders[iter])
            IN IF monitored(iter) THEN [done EXCEPT !.reports = Append(@, report(done))] ELSE done
    IN FoldLeft(iteration, Untrained(model, vectors), [iter \in DOMAIN orders |-> iter])

TrainSparseLayerUser(model, train, validate, option, orders) ==
    TrainSparseLayer(LAMBDA state, s : SGDOnUser(state, train, s, option),
                     LAMBDA m : ComputeValidateLossUser(m, train, validate, option), model, train, option, orders)

TrainSparseLayerItem(model, train, validate, option, orders) ==
    TrainSparseLayer(LAMBDA state, s : SGDOnItem(state, train, s, option),
                     LAMBDA m : ComputeValidateLossItem(m, train, validate, option), model, train, option, orders)

\* TrainSparseLayerDelegateMT, by one worker.
TrainSparseLayerMT(codeType, model, train, validate, option, orders) ==
    TrainSparseLayer(LAMBDA state, s : SGDOnSample(codeType, state, train, s, option),
                     LAMBDA m : ComputeValidateLoss(codeType, m, train, validate, option), model, train, option, orders)

\* Mutant of EncodeUser: each code takes the place after its own.
EncodeUserShifted(model, vectors) ==
    [model EXCEPT !.codes = [s \in DOMAIN @ |-> Encode(model, vectors[s % Len(@)])]]

EncodeUser(model, vectors) == [model EXCEPT !.codes = [s \in DOMAIN @ |-> Encode(model, vectors[s - 1])]]
EncodeItem(model, vectors) == EncodeUser(model, vectors)

ComputeModelUser(model, train, validate, option, orders) ==
    LET trained == IF option.accelerate THEN TrainSparseLayerMT("user", model, train, validate, option, orders)
                   ELSE TrainSparseLayerUser(model, train, validate, option, orders)
    IN [trained EXCEPT !.model = EncodeUser(@, train)]

ComputeModelItem(model, train, validate, option, orders) ==
    LET trained == IF option.accelerate THEN TrainSparseLayerMT("item", model, train, validate, option, orders)
                   ELSE TrainSparseLayerItem(model, train, validate, option, orders)
    IN [trained EXCEPT !.model = EncodeItem(@, train)]
-----------------------------------------------------------------------------
(* CFAutoEncoderTrain and CFAutoEncoderPredict.                            *)

VectorsOf(codeType, list) == IF codeType = "user" THEN AsUsers(list).vectors ELSE AsItems(list).vectors
NumInputOf(codeType, list) == IF codeType = "user" THEN list.numItem ELSE list.numUser
NumSampleOf(codeType, list) == IF codeType = "user" THEN list.numUser ELSE list.numItem

\* The data to validate with is loaded from the file to train with.
LoadValidateData(trainFile, validateFile) == LoadFromBinaryFile(trainFile)

SaveTrained(computed) == [file |-> SaveModel(computed.model), reports |-> computed.reports]

ComputeAutoEncoder(codeType, model, train, validate, option, orders) ==
    IF codeType = "user" THEN ComputeModelUser(model, train, validate, option, orders)
    ELSE ComputeModelItem(model, train, validate, option, orders)

CFAutoEncoderTrain(codeType, trainFile, validateFile, model, option, orders) ==
    SaveTrained(ComputeAutoEncoder(codeType, model, VectorsOf(codeType, LoadFromBinaryFile(trainFile)),
                                   VectorsOf(codeType, LoadValidateData(trainFile, validateFile)), option, orders))

CFAutoEncoderLoadModel(codeType, list, file, numHidden) ==
    LoadModel(file, NumInputOf(codeType, list), NumSampleOf(codeType, list), numHidden)

Reconstruct(codeType, model, u, i) ==
    IF codeType = "user" THEN Decode(model, model.codes[u + 1], i) ELSE Decode(model, model.codes[i + 1], u)

\* BinaryCode: words of 32 bits, each the set of its bits that are 1.
BinaryCode(v) ==
    [word \in 1..(Len(v) + 31) \div 32 |-> {bit \in 0..31 : (word - 1) * 32 + bit < Len(v) /\ v[(word - 1) * 32 + bit + 1] = 1}]

\* The bits of each nibble are added up, then the nibbles of the two halves,
\* then the pairs of nibbles, and the pairs.  A nibble has 4 bits.
BitCount(x) ==
    LET s(n) == Cardinality({bit \in x : bit \div 4 = n})
        halves(n) == (s(n) + s(n + 4)) % 16
        pairs(n) == halves(n) + halves(n + 1)
    IN (pairs(0) + pairs(2)) % 64

HammingDistance(code1, code2) ==
    Sum(DOMAIN code1, LAMBDA word : BitCount((code1[word] \cup code2[word]) \ (code1[word] \cap code2[word])))

\* In hundredths.
ComputeCodeDistance(model, distanceType, s, t) ==
    LET v == model.codes[s + 1]
        w == model.codes[t + 1]
    IN CASE distanceType = "normL1" -> 100 * DistanceL1(v, w)
         [] distanceType = "normL2" -> 100 * DistanceL2(v, w)
         [] distanceType = "cosine" -> DistanceCosine(v, w)
         [] distanceType = "correlation" -> DistanceCorrelation(v, w)
         [] distanceType = "hamming" -> 100 * HammingDistance(BinaryCode(v), BinaryCode(w))

ComputeCodeSimilarity(model, distanceType, s, t) == 10000 \div (100 + ComputeCodeDistance(model, distanceType, s, t))

\* Pairs of a similarity and a rating; of equally similar ones the higher
\* rating comes first.
GreatestPairs(pairs, size) ==
    LET decreasing == SortSeq(pairs, LAMBDA p, q : p[1] > q[1] \/ (p[1] = q[1] /\ p[2] > q[2]))
    IN IF size <= 0 THEN pairs ELSE SubSeq(decreasing, 1, Min({size, Len(pairs)}))

\* What numerator / (denominator + EPS) is of.
PredictByCodes(model, distanceType, vector, x, size) ==
    LET sim(k) == ComputeCodeSimilarity(model, distanceType, vector[k].id, x)
        pairs == GreatestPairs([k \in DOMAIN vector |-> <<sim(k), vector[k].rating>>], size)
    IN [num |-> Sum(DOMAIN pairs, LAMBDA k : pairs[k][1] * pairs[k][2]),
        den |-> Sum(DOMAIN pairs, LAMBDA k : Absolute(pairs[k][1]))]

PredictRatingByCodeItemNeighbor(model, distanceType, users, u, i, size) ==
    PredictByCodes(model, distanceType, users[u], i, size)
PredictRatingByCodeUserNeighbor(model, distanceType, items, u, i, size) ==
    PredictByCodes(model, distanceType, items[i], u, size)

\* Minus the least of the distances, added up: all, or "size" of them.
LeastDistances(vector, dist(_), size) ==
    LET increasing == SortSeq([k \in DOMAIN vector |-> dist(vector[k].id)], <)
        n == IF size <= 0 THEN Len(vector) ELSE Min({size, Len(vector)})
    IN -Sum(1..n, LAMBDA k : increasing[k])

ComputeTopNItemScoreByCodeItemNeighbor(model, distanceType, users, u, i, size) ==
    LeastDistances(users[u], LAMBDA id : ComputeCodeDistance(model, distanceType, id, i), size)
ComputeTopNItemScoreByCodeUserNeighbor(model, distanceType, items, u, i, size) ==
    LeastDistances(items[i], LAMBDA id : ComputeCodeDistance(model, distanceType, id, u), size)
=============================================================================
