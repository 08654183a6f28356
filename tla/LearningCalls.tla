------------------------------ MODULE LearningCalls ------------------------------
(***************************************************************************)
(* The calls that learn from data and predict by what was learnt: of the   *)
(* data models, the network, the auto-encoder and the SVD model.  "call"   *)
(* is the call that has just returned: what it was given and what it gave. *)
(* The training of a network by two threads takes many steps: "training".  *)
(***************************************************************************)
EXTENDS SvdModel

CONSTANTS
    Datamodels,         \* [kind, model]: "plain", "class", "value" or "target"
    Pictures,           \* MNIST: [image, label] files
    Networks,           \* networks to train, and ...
    LabelledSamples,    \* ... what they are trained with,
    BpOptions,          \* ... and how
    SharedTrainings,    \* [net, samples, option]: by two threads
    AutoEncoders,       \* [list, codeType, model]
    AutoEncoderOptions,
    CodePairs,          \* two codes of 0s and 1s
    SvdTrainings,       \* [list, param, option, users, items, saved]: the features
                        \* that are drawn, the model that is in the file
    LearntModels,       \* [list, users, items]: features of an SVD model
    NeighborNumbers     \* numbers of neighbours; 0: all

VARIABLES
    call,
    training            \* of a network by two threads: m of BpNetwork

NoCall == [kind |-> "none"]
NoTraining == [threads |-> <<>>]

Returned(kind) == call.kind = kind
-----------------------------------------------------------------------------
TextFileOf(kind, model) ==
    CASE kind = "plain" -> DatamodelWriteToTextFile(model)
      [] kind = "class" -> ClassificationWriteToTextFile(model)
      [] kind = "value" -> RegressionWriteToTextFile(model)
      [] kind = "target" -> SupervisedWriteToTextFile(model)
BinaryFileOf(kind, model) ==
    CASE kind = "plain" -> DatamodelWriteToBinaryFile(model)
      [] kind = "class" -> ClassificationWriteToBinaryFile(model)
      [] kind = "value" -> RegressionWriteToBinaryFile(model)
      [] kind = "target" -> SupervisedWriteToBinaryFile(model)
OfTextFile(kind, file) ==
    CASE kind = "plain" -> DatamodelLoadFromTextFile(file)
      [] kind = "class" -> ClassificationLoadFromTextFile(file)
      [] kind = "value" -> RegressionLoadFromTextFile(file)
      [] kind = "target" -> SupervisedLoadFromTextFile(file)
OfBinaryFile(kind, file) ==
    CASE kind = "plain" -> DatamodelLoadFromBinaryFile(file)
      [] kind = "class" -> ClassificationLoadFromBinaryFile(file)
      [] kind = "value" -> RegressionLoadFromBinaryFile(file)
      [] kind = "target" -> SupervisedLoadFromBinaryFile(file)

CutShort(file) == Prefixes(file) \ {file}

\* A data model goes to files and comes back.
KeepDatamodel ==
    \E d \in Datamodels :
    \E text \in {TextFileOf(d.kind, d.model)}, binary \in {BinaryFileOf(d.kind, d.model)} :
        \E ofText \in {[part \in Prefixes(text) |-> OfTextFile(d.kind, part)]},
           ofBinary \in {[part \in Prefixes(binary) |-> OfBinaryFile(d.kind, part)]} :
           call' = [kind |-> "datamodel", model |-> d.model, read |-> {ofText[text], ofBinary[binary]},
                    cut |-> {ofText[part] : part \in CutShort(text)} \cup {ofBinary[part] : part \in CutShort(binary)},
                    matrix |-> GetDesignMatrix(d.model),
                    values |-> IF d.kind = "value" THEN GetValueVector(d.model) ELSE <<>>]

\* MNIST's pictures become data models and pictures; the files are exchanged
\* or cut short, too.
PrepareMnist ==
    \E p \in Pictures :
        call' = [kind |-> "mnist", pictures |-> p, images |-> PrepareImages(p.image),
                 supervised |-> PrepareSupervised(p.image, p.label), unsupervised |-> PrepareUnsupervised(p.image),
                 exchanged |-> PrepareSupervised(p.label, p.image),
                 cut |-> {PrepareImages(part) : part \in CutShort(p.image)}
                         \cup {PrepareSupervised(p.image, part) : part \in CutShort(p.label)}]

\* Orders of the samples for a number of iterations.
Permutations1To(n) == {s \in SetToAllKPermutations(1..n) : Len(s) = n}
Orders(n, iterations) == [1..iterations -> Permutations1To(n)]

Fits(net, data) == Head(net.units) = data.dim /\ Last(net.units) = data.extra[1]

TrainNetwork ==
    \E net \in Networks, labelled \in LabelledSamples, option \in BpOptions :
        /\ Fits(net, labelled)
        /\ \E orders \in Orders(Len(labelled.samples), 2) :
              LET data == SupervisedOf(labelled, 1)
                  file == ClassificationWriteToBinaryFile(labelled)
                  trained(method) == BpNetworkTrain(file, net, 1, [option EXCEPT !.method = method], orders)
              IN \E simple \in {SimpleTrain(net, data, option, orders)} : \E saved \in {Save(simple.network)} :
                 call' = [kind |-> "network", net |-> net, data |-> data, option |-> option, orders |-> orders,
                          steps |-> [s \in DOMAIN data.samples |-> SimpleTrain(net, data, option, <<<<s>>>>)],
                          trained |-> simple,
                          all |-> {simple, OpenMPTrain(net, data, option, orders), MTTrain(net, data, option, orders)},
                          files |-> {trained(m) : m \in {"simple", "openMP", "threads"}},
                          loaded |-> Load(saved, net.units),
                          cut |-> {Load(part, net.units) : part \in CutShort(saved)},
                          outputs |-> [s \in DOMAIN data.samples |-> Predict(simple.network, data.samples[s].feature)],
                          wrong |-> EvaluateAccuracy(saved, net.units, file, 1)]

\* Two workers have got the first two samples.
StartThreads ==
    /\ training = NoTraining
    /\ \E t \in SharedTrainings : training' = MTInitResource(t.net, SupervisedOf(t.samples, 1).samples, t.option)

WorkerStep ==
    /\ training # NoTraining
    /\ \E t \in DOMAIN training.threads : training.threads[t].doing # "done" /\ training' = MTNext(training, t)

JoinThreads == training # NoTraining /\ AllDone(training) /\ training' = NoTraining

\* A model is trained by one thread and with several, and saved and loaded.
TrainAutoEncoder ==
    \E a \in AutoEncoders, option \in AutoEncoderOptions :
        \E orders \in Orders(NumSampleOf(a.codeType, a.list), 1) :
            LET file == WriteToBinaryFile(a.list)
                sampleOrders == [iter \in DOMAIN orders |-> [k \in DOMAIN orders[iter] |-> orders[iter][k] - 1]]
                vectors == VectorsOf(a.codeType, a.list)
                validate == VectorsOf(a.codeType, [a.list EXCEPT !.ratings = SubSeq(@, 1, Min({1, Len(@)}))])
                with(fast) == [option EXCEPT !.accelerate = fast]
                computed(fast, os) == ComputeAutoEncoder(a.codeType, a.model, vectors, validate, with(fast), os)
                program(fast) == CFAutoEncoderTrain(a.codeType, file, file, a.model, with(fast), sampleOrders)
            IN \E trained \in {[fast \in BOOLEAN |-> computed(fast, sampleOrders)]},
                  programs \in {[fast \in BOOLEAN |-> program(fast)]} :
                  call' = [kind |-> "autoencoder", given |-> a, option |-> option, vectors |-> vectors, validate |-> validate,
                           all |-> {trained[FALSE], trained[TRUE]}, trained |-> trained[FALSE],
                           steps |-> [s \in DOMAIN vectors |-> computed(FALSE, <<<<s>>>>)],
                           programs |-> {programs[FALSE], programs[TRUE]},
                           loaded |-> CFAutoEncoderLoadModel(a.codeType, a.list, programs[TRUE].file, a.model.numHidden)]

DistanceTypes == {"normL1", "normL2", "cosine", "correlation"}

PredictByLearntCodes ==
    \E a \in AutoEncoders, type \in DistanceTypes \cup {"hamming"}, size \in NeighborNumbers :
        LET model == IF a.codeType = "user" THEN EncodeUser(a.model, VectorsOf("user", a.list))
                     ELSE EncodeItem(a.model, VectorsOf("item", a.list))
            places == Ids(a.list.numUser) \X Ids(a.list.numItem)
            rated == VectorsOf(IF a.codeType = "user" THEN "item" ELSE "user", a.list)
        IN call' = [kind |-> "codes", codeType |-> a.codeType, rated |-> rated, size |-> size, places |-> places,
                    distance |-> [x \in Ids(Len(model.codes)) |-> [y \in Ids(Len(model.codes)) |-> ComputeCodeDistance(model, type, x, y)]],
                    ratings |-> [p \in places |->
                        IF a.codeType = "user" THEN PredictRatingByCodeUserNeighbor(model, type, rated, p[1], p[2], size)
                        ELSE PredictRatingByCodeItemNeighbor(model, type, rated, p[1], p[2], size)],
                    scores |-> [p \in places |->
                        IF a.codeType = "user" THEN ComputeTopNItemScoreByCodeUserNeighbor(model, type, rated, p[1], p[2], size)
                        ELSE ComputeTopNItemScoreByCodeItemNeighbor(model, type, rated, p[1], p[2], size)]]

CompareCodes ==
    \E pair \in CodePairs :
        call' = [kind |-> "hamming", pair |-> pair, distance |-> HammingDistance(BinaryCode(pair[1]), BinaryCode(pair[2]))]

\* Training in shuffled ids, or not, in any order of the grids, from random
\* features or from a saved model.
TrainSvd ==
    \E t \in SvdTrainings :
        \E userMap \in IdMappings(t.list.numUser, t.option.useRandomShuffle),
           itemMap \in IdMappings(t.list.numItem, t.option.useRandomShuffle) :
        \E file \in {SVDConvert(WriteToTextFile(t.list))} :
        \E gridded \in {GriddedLoad(file, t.option.numUserBlock, t.option.numItemBlock, userMap, itemMap)} :
        \E init \in {SVDInitModel(t.param, t.option, gridded.average, t.users, t.items, SVDSave(t.saved, t.param))} :
            \E order \in SetToAllKPermutations(DOMAIN gridded.grids) :
                  /\ Len(order) = Cardinality(DOMAIN gridded.grids)
                  /\ \E done \in {SVDTrain(file, file, t.param, t.option, userMap, itemMap, init, <<order>>)} :
                     \E model \in {SVDLoad(done.file, t.param)} :
                        call' = [kind |-> "svd", given |-> t, maps |-> [users |-> userMap, items |-> itemMap],
                                 order |-> order, init |-> init, gridded |-> gridded, reports |-> done.reports,
                                 steps |-> [r \in ToSet(GridRatings(gridded)) |-> SGDStep(init, t.param, t.option.learningRate, r)],
                                 estimates |-> [p \in Ids(t.list.numUser) \X Ids(t.list.numItem) |->
                                                   SVDPredictRating(init, t.param, p[1], p[2])],
                                 model |-> model,
                                 again |-> SVDLoad(SVDSave(model, t.param), t.param),
                                 predicted |-> [p \in Ids(t.list.numUser) \X Ids(t.list.numItem) |->
                                                   SVDPredictRating(model, t.param, p[1], p[2])],
                                 cut |-> {SVDLoad(part, t.param) : part \in CutShort(done.file)}]

PredictByLatentFeatures ==
    \E m \in LearntModels, type \in DistanceTypes, method \in {"latentItemNeighbor", "latentUserNeighbor"},
       size \in NeighborNumbers :
        LET data == SVDLoadTrainData(SVDConvert(WriteToTextFile(m.list)))
            model == SVDModel(0, m.users, m.items, <<>>, <<>>)
            param == [dim |-> 1, userFeature |-> 0, itemFeature |-> 0, userBias |-> -1, itemBias |-> -1,
                      useAverage |-> FALSE, useSigmoid |-> FALSE]
            byItem == method = "latentItemNeighbor"
            places == Ids(m.list.numUser) \X Ids(m.list.numItem)
            latent == IF byItem THEN m.items ELSE m.users
        IN call' = [kind |-> "latent", codeType |-> IF byItem THEN "item" ELSE "user", size |-> size, places |-> places,
                    rated |-> IF byItem THEN data.users ELSE data.items,
                    distance |-> [x \in DOMAIN latent |-> [y \in DOMAIN latent |-> ComputeLatentDistance(type, latent[x], latent[y])]],
                    scores |-> [p \in places |-> SVDTopNItemScore(model, param, method, type, data, p[1], p[2], size)]]
-----------------------------------------------------------------------------
AllFailed(S) == \A r \in S : r.failed

\* Data models: files, matrices and MNIST's pictures.
DatamodelsKept ==
    /\ Returned("datamodel") =>
          LET model == call.model
          IN /\ call.read = {model} /\ AllFailed(call.cut)
             /\ \A i \in DOMAIN model.samples :
                    /\ \A j \in 1..model.dim : Entry(call.matrix, i, j) = model.samples[i].feature[j]
                    /\ call.values # <<>> => model.samples[i].more = <<call.values[i]>>
    /\ Returned("mnist") =>
          LET model == ClassificationLoadFromBinaryFile(call.supervised.file)
              plain == DatamodelLoadFromBinaryFile(call.unsupervised.file)
              images == call.images.images
              width == 1 + Max({p[1] : p \in DOMAIN images[0]})
          IN /\ AllFailed(call.cut \cup {call.exchanged})
             /\ Len(model.samples) = call.pictures.image[8] /\ DOMAIN images = Ids(Len(model.samples))
             /\ \A i \in DOMAIN model.samples :
                    /\ model.samples[i].more = <<call.pictures.label[8 + i]>>
                    /\ model.samples[i].feature = plain.samples[i].feature
                    /\ \A p \in DOMAIN images[i - 1] :
                          images[i - 1][p] = model.samples[i].feature[p[2] * width + p[1] + 1]

\* What a network gives for an input, and how fast each output moves with
\* the parameter at p: <<"weight" or "bias", layer, number>>.
Moving(net, feature, p) ==
    LET seed(kind, l, k) == IF p = <<kind, l, k>> THEN 1 ELSE 0
        unit(l, i, input) ==
            LET at(j) == (i - 1) * net.units[l] + j
                w(j) == net.weights[l].data[at(j)]
                z == net.biases[l][i] + Sum(DOMAIN input, LAMBDA j : w(j) * input[j].value)
                dz == seed("bias", l, i)
                      + Sum(DOMAIN input, LAMBDA j : w(j) * input[j].speed + seed("weight", l, at(j)) * input[j].value)
            IN [value |-> Sigmoid(z), speed |-> Sigmoid(z) * (1 - Sigmoid(z)) * dz]
        layer(input, l) == [i \in 1..net.units[l + 1] |-> unit(l, i, input)]
    IN FoldLeft(layer, [j \in DOMAIN feature |-> [value |-> feature[j], speed |-> 0]], [l \in DOMAIN net.weights |-> l])

\* Half of the derivative of a sample's loss.
HalfSlope(net, sample, p) ==
    LET out == Moving(net, sample.feature, p) IN Sum(DOMAIN out, LAMBDA i : (out[i].value - sample.more[i]) * out[i].speed)

LossOf(net, sample) ==
    LET out == Moving(net, sample.feature, <<>>) IN Sum(DOMAIN out, LAMBDA i : Square(out[i].value - sample.more[i]))

\* Every weight has gone down the derivative of the sample's loss and of the
\* regularisation, every bias down that of the loss.
IsStep(net, next, sample, rate, lambda, coff) ==
    \A l \in DOMAIN net.weights :
        /\ \A k \in DOMAIN net.weights[l].data :
              LET w == net.weights[l].data[k]
              IN next.weights[l].data[k] = w - rate * (coff * HalfSlope(net, sample, <<"weight", l, k>>) + lambda * w)
        /\ \A i \in DOMAIN net.biases[l] :
              next.biases[l][i] = net.biases[l][i] - rate * coff * HalfSlope(net, sample, <<"bias", l, i>>)

IsGreatestAt(v, k) == \A j \in DOMAIN v : v[j] < v[k] \/ (v[j] = v[k] /\ k <= j)

NetworkLearns ==
    Returned("network") =>
        LET samples == call.data.samples
            option == call.option
        IN /\ \A s \in DOMAIN samples :
                  /\ IsStep(call.net, call.steps[s].network, samples[s], option.learningRate, option.lambda, 1)
                  /\ call.steps[s].losses[s] = LossOf(call.net, samples[s])
           /\ call.all = {call.trained} /\ HasShape(call.trained.network)
           /\ call.files = {Save(call.trained.network)}
           /\ call.loaded = call.trained.network /\ AllFailed(call.cut)
           /\ Len(call.trained.reports) = (IF option.iterationCheckStep = 0 THEN 0 ELSE CeilDiv(2, option.iterationCheckStep))
           /\ \A s \in DOMAIN samples :
                  LossOf(call.trained.network, samples[s]) = NormL2Sqr(VectorMinus(call.outputs[s], samples[s].more))
           /\ call.wrong = Cardinality({s \in DOMAIN samples :
                  \A k \in DOMAIN call.outputs[s] : IsGreatestAt(call.outputs[s], k) => samples[s].more[k] # 1})

\* Two workers train one network without a lock (bp_network_computation.cpp
\* :456-580).  However the reads and writes of its numbers interleave, a
\* worker uses its own sample and buffers only: its loss is that of the
\* network it has seen, whole or half adjusted by the other; its gradient in
\* the last layer is the derivative there, and in the others if it has seen
\* the same weights on the way back.  Every number of the network ends with
\* both adjustments, one after the other; with one of them if and only if
\* one worker has read it between the other's reading and writing it.  What
\* is done by one worker after the other is what one thread computes.
ThreadsLearn ==
    LET threads == DOMAIN training.threads
        thread(t) == training.threads[t]
        gradient(t) == training.buffers[t].gradient
        slope(t, p) == IF p[1] = "weight" THEN gradient(t).weights[p[2]][p[3]] ELSE gradient(t).biases[p[2]][p[3]]
        units == training.network.units
        numbers == ToSet(AdjustOrder(units))
        lastLayer == Len(units) - 1
        step(t, p, w) ==
            w - training.option.learningRate * (slope(t, p) + IF p[1] = "weight" THEN training.option.lambda * w ELSE 0)
    IN /\ \A t \in threads : thread(t).doing \in {"adjust", "done"} =>
              /\ thread(t).loss = LossOf(thread(t).forward, training.samples[t])
              /\ \A p \in numbers : p[2] = lastLayer \/ thread(t).backward = thread(t).forward =>
                     slope(t, p) = HalfSlope(thread(t).forward, training.samples[t], p)
       /\ training # NoTraining /\ AllDone(training) =>
              /\ \A p \in numbers :
                     LET w == NumberAt(training.begun, p)
                         one(t) == step(t, p, w)
                         both(t) == step(3 - t, p, one(t))
                     IN NumberAt(training.network, p)
                            \in IF p \in training.overlaps THEN {one(t) : t \in threads} ELSE {both(t) : t \in threads}
              /\ \A t \in threads : thread(t).behind # {} =>
                     training.network = SimpleTrain(training.begun, [samples |-> training.samples], training.option,
                                                    <<<<3 - t, t>>>>).network

\* The auto-encoder of what is rated is a network from the ratings to the
\* ratings, through the code; what is not rated is not touched.
RatedNetwork(model, vector) ==
    LET n == Len(vector)
        id(k) == vector[k].id + 1
    IN Network(<<n, model.numHidden, n>>,
               <<MatrixOf(model.numHidden, n, LAMBDA i, k : Entry(model.encode, i, id(k))),
                 MatrixOf(n, model.numHidden, LAMBDA k, j : Entry(model.decode, id(k), j))>>,
               <<model.encodeBias, [k \in 1..n |-> model.decodeBias[id(k)]]>>)

RatedSample(vector) ==
    LET ratings == [k \in DOMAIN vector |-> vector[k].rating] IN Sample(ratings, ratings)

\* What the whole network gives where what is not rated counts as 0.
WholeOutput(model, vector) ==
    LET rating(j) == Sum({k \in DOMAIN vector : vector[k].id = j - 1}, LAMBDA k : vector[k].rating)
        net == Network(<<model.numInput, model.numHidden, model.numInput>>,
                       <<model.encode, model.decode>>, <<model.encodeBias, model.decodeBias>>)
    IN Moving(net, [j \in 1..model.numInput |-> rating(j)], <<>>)

SameUnrated(model, next, vector) ==
    \A j \in 1..model.numInput : j - 1 \notin RatedIds(vector) =>
        /\ next.decodeBias[j] = model.decodeBias[j]
        /\ \A i \in 1..model.numHidden :
               Entry(next.encode, i, j) = Entry(model.encode, i, j) /\ Entry(next.decode, j, i) = Entry(model.decode, j, i)

AutoEncoderLearns ==
    Returned("autoencoder") =>
        LET model == call.given.model
            coff(vector) == IF call.option.normalize THEN NormCoff(Len(vector)) ELSE 1
            trained == call.trained.model
        IN /\ \A s \in DOMAIN call.vectors :
                  LET vector == call.vectors[s]
                      step == call.steps[s]
                  IN /\ IsStep(RatedNetwork(model, vector), RatedNetwork(step.model, vector), RatedSample(vector),
                               call.option.learningRate, call.option.lambda, coff(vector))
                     /\ SameUnrated(model, step.model, vector)
                     /\ step.losses[s] = Square(coff(vector)) * LossOf(RatedNetwork(model, vector), RatedSample(vector))
           /\ call.all = {call.trained}
           /\ \A k \in DOMAIN call.trained.reports :
                  call.trained.reports[k].validate =
                      Sum(DOMAIN call.vectors, LAMBDA s :
                          LET of == call.validate[s]
                              output == WholeOutput(trained, call.vectors[s] \o of)
                          IN Square(coff(of)) * Sum(DOMAIN of, LAMBDA j : Square(output[of[j].id + 1].value - of[j].rating)))
           /\ \A p, q \in call.programs : p = q
           /\ \A u \in Ids(call.given.list.numUser), i \in Ids(call.given.list.numItem) :
                  Reconstruct(call.given.codeType, call.loaded, u, i) =
                      IF call.given.codeType = "user" THEN WholeOutput(call.loaded, call.vectors[u])[i + 1].value
                      ELSE WholeOutput(call.loaded, call.vectors[i])[u + 1].value

\* SVD: a rating's error times the slope of the estimate in a parameter is
\* what the parameter learns; the ids are shuffled to share the ratings out,
\* and nothing else.  The estimate is that of svd_model_computation.cpp:16
\* and :21, of which only the first has the average: nothing is claimed of
\* the step with an average inside the sigmoid.
ZOf(model, param, u, i) ==
    InnerProd(model.users[u], model.items[i]) + (IF UseUserBias(param) THEN model.userBiases[u] ELSE 0)
    + (IF UseItemBias(param) THEN model.itemBiases[i] ELSE 0) + (IF param.useAverage THEN model.average ELSE 0)

SvdStepLearns(model, next, param, rate, r) ==
    LET z == ZOf(model, param, r.user, r.item)
        pred == IF param.useSigmoid THEN Sigmoid(z) ELSE z
        slope == IF param.useSigmoid THEN Slope(pred) ELSE 1
        learnt(x, moved, lambda) == x + rate * ((r.rating - pred) * slope * (ZOf(moved, param, r.user, r.item) - z) - lambda * x)
    IN /\ \A u \in DOMAIN model.users, d \in 1..param.dim :
              next.users[u][d] = IF u # r.user THEN model.users[u][d]
                                 ELSE learnt(model.users[u][d], [model EXCEPT !.users[u][d] = @ + 1], param.userFeature)
       /\ \A i \in DOMAIN model.items, d \in 1..param.dim :
              next.items[i][d] = IF i # r.item THEN model.items[i][d]
                                 ELSE learnt(model.items[i][d], [model EXCEPT !.items[i][d] = @ + 1], param.itemFeature)
       /\ UseUserBias(param) => \A u \in DOMAIN model.users :
              next.userBiases[u] = IF u # r.user THEN model.userBiases[u]
                                   ELSE learnt(model.userBiases[u], [model EXCEPT !.userBiases[u] = @ + 1], param.userBias)
       /\ UseItemBias(param) => \A i \in DOMAIN model.items :
              next.itemBiases[i] = IF i # r.item THEN model.itemBiases[i]
                                   ELSE learnt(model.itemBiases[i], [model EXCEPT !.itemBiases[i] = @ + 1], param.itemBias)

\* The loss a rating has in a model of the list's own ids.
RegularisationOf(model, param, r) ==
    param.userFeature * NormL2Sqr(model.users[r.user]) + param.itemFeature * NormL2Sqr(model.items[r.item])
    + (IF UseUserBias(param) THEN param.userBias * Square(model.userBiases[r.user]) ELSE 0)
    + (IF UseItemBias(param) THEN param.itemBias * Square(model.itemBiases[r.item]) ELSE 0)

\* The model before training, by the list's own ids.
Begun ==
    LET users == call.maps.users
        items == call.maps.items
        moved(f, map) == [x \in DOMAIN f |-> f[map[x]]]
    IN SVDModel(call.init.average, moved(call.init.users, users), moved(call.init.items, items),
                moved(call.init.userBiases, users), moved(call.init.itemBiases, items))

\* Training goes on from the saved model: "init from existing model file",
\* says the log (svd_train.cpp:50).  It does with ids that are not shuffled;
\* if they are, the features loaded are those of the original ids, and what
\* is learnt is what follows from the model Begun with them.
TrainingGoesOn == ~call.given.option.randomInit => Begun = call.given.saved

SvdLearns ==
    Returned("svd") =>
        LET given == call.given
            param == given.param
            ratings == given.list.ratings
            original(r) == CHOOSE k \in DOMAIN ratings :
                               call.maps.users[ratings[k].user] = r.user /\ call.maps.items[ratings[k].item] = r.item
            inOrder == FlattenSeq([g \in DOMAIN call.order |-> call.gridded.grids[call.order[g]]])
            grid(g) == call.gridded.grids[g]
            columns == given.option.numItemBlock
            taken(g, own) == {grid(g)[k][own] : k \in DOMAIN grid(g)}
        IN /\ ~(param.useAverage /\ param.useSigmoid) =>
                  \A r \in DOMAIN call.steps : SvdStepLearns(call.init, call.steps[r], param, given.option.learningRate, r)
           /\ ~given.option.useRandomShuffle => TrainingGoesOn
           /\ Len(inOrder) = Len(ratings) /\ {original(inOrder[k]) : k \in DOMAIN inOrder} = DOMAIN ratings
           /\ \A k \in DOMAIN inOrder : inOrder[k].rating = ratings[original(inOrder[k])].rating
           /\ \A g, h \in DOMAIN call.gridded.grids :
                  /\ g \div columns # h \div columns => taken(g, "user") \cap taken(h, "user") = {}
                  /\ g % columns # h % columns => taken(g, "item") \cap taken(h, "item") = {}
           /\ call.model = SGDOneMatrix(Begun, param, given.option.learningRate,
                                        [k \in DOMAIN inOrder |-> ratings[original(inOrder[k])]])
           /\ call.again = call.model /\ AllFailed(call.cut)
           /\ \A p \in DOMAIN call.estimates : call.estimates[p] = Estimated(call.init, param, p[1], p[2])
           /\ Len(call.reports) = (IF given.option.monitorStep = 0 THEN 0 ELSE 1)
           /\ \A k \in DOMAIN call.reports :
                  LET report == call.reports[k]
                  IN /\ report.data = Sum(DOMAIN ratings, LAMBDA n :
                            Square(ratings[n].rating - call.predicted[<<ratings[n].user, ratings[n].item>>]))
                     /\ report.reg = Sum(DOMAIN ratings, LAMBDA n : RegularisationOf(call.model, param, ratings[n]))
                     /\ report.validate = report.data

\* A score is minus the distance to the nearest of what is rated, as many
\* as asked for; a rating is that of the most similar, and of equally
\* similar ones the higher ratings count.
NearestCount ==
    Returned("latent") \/ Returned("codes") =>
        \A p \in call.places :
            LET own == IF call.codeType = "item" THEN p[2] ELSE p[1]
                vector == call.rated[IF call.codeType = "item" THEN p[1] ELSE p[2]]
                distance(k) == call.distance[vector[k].id][own]
                size == IF call.size = 0 THEN Len(vector) ELSE Min({call.size, Len(vector)})
                similarity(k) == 10000 \div (100 + distance(k))
                before(j, k) == \/ similarity(j) > similarity(k)
                                \/ similarity(j) = similarity(k) /\ vector[j].rating > vector[k].rating
                chosen == kSubset(size, DOMAIN vector)
            IN /\ \A S \in chosen : -Sum(S, distance) <= call.scores[p]
               /\ \E S \in chosen : -Sum(S, distance) = call.scores[p]
               /\ call.kind = "codes" =>
                      \E S \in chosen :
                          /\ \A j \in S, k \in DOMAIN vector \ S : ~before(k, j)
                          /\ call.ratings[p] = [num |-> Sum(S, LAMBDA k : similarity(k) * vector[k].rating),
                                                den |-> Sum(S, similarity)]

CodesDiffer ==
    Returned("hamming") =>
        call.distance = Cardinality({k \in DOMAIN call.pair[1] : call.pair[1][k] # call.pair[2][k]})

\* What is learnt is what the derivatives say, in each of the ways it is
\* computed: by vectors, by rows of arrays or by threads; with or without
\* the ids shuffled; from the model in memory or from the file it is saved
\* in, which is refused when it is cut short.
LearningAgrees ==
    DatamodelsKept /\ NetworkLearns /\ AutoEncoderLearns /\ SvdLearns /\ NearestCount /\ CodesDiffer
=============================================================================
