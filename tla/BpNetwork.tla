------------------------------- MODULE BpNetwork -------------------------------
(***************************************************************************)
(* ml/neural_network: a network of sigmoid units, trained by one sample    *)
(* after the other in one of three ways: with the operators of Vector and  *)
(* Matrix, with OpenMP over the rows of flat arrays, or by the threads of  *)
(* BundledComputationMT, each with buffers of its own, over the same       *)
(* arrays.                                                                 *)
(*                                                                         *)
(* Numbers are whole; what the code computes with the values of the        *)
(* sigmoid does not depend on which function of whole numbers Sigmoid is.  *)
(***************************************************************************)
EXTENDS Datamodel, FiniteSets

CONSTANT Sigmoid(_)

\* y * (1 - y), where y is a value of the sigmoid.
Slope(y) == y * (1 - y)

Network(units, weights, biases) == [units |-> units, weights |-> weights, biases |-> biases]

\* BpNetwork's constructor.
HasShape(net) ==
    /\ DOMAIN net.weights = 1..Len(net.units) - 1 /\ DOMAIN net.biases = DOMAIN net.weights
    /\ \A l \in DOMAIN net.weights : /\ net.weights[l].rows = net.units[l + 1] /\ net.weights[l].cols = net.units[l]
                                     /\ Len(net.biases[l]) = net.units[l + 1]

\* RandomInit, where "values" are those drawn.
RandomInits(units, values) ==
    LET layers == 1..Len(units) - 1
        matrices == [l \in layers |-> {Matrix(units[l + 1], units[l], data) : data \in [1..units[l] * units[l + 1] -> values]}]
        all(choices) == {f \in [layers -> UNION Range(choices)] : \A l \in layers : f[l] \in choices[l]}
    IN {Network(units, weights, biases) :
            weights \in all(matrices), biases \in all([l \in layers |-> [1..units[l + 1] -> values]])}

SigmoidOf(v) == [i \in DOMAIN v |-> Sigmoid(v[i])]

Predict(net, input) ==
    LET layer(output, l) == SigmoidOf(VectorPlus(MatrixTimesVector(net.weights[l], output), net.biases[l]))
    IN FoldLeft(layer, input, [l \in DOMAIN net.weights |-> l])

Save(net) ==
    WriteBinaries(<<Len(net.units)>> \o net.units, Narrow)
    \o FlattenSeq([l \in DOMAIN net.weights |-> WriteBinaries(net.weights[l].data \o net.biases[l], Wide)])

\* The file must be of a network of these units.
Load(file, units) ==
    LET head == ReadBinaries(Open(file), 1 + Len(units), Narrow)
        size(l) == units[l] * units[l + 1]
        body == FoldLeft(LAMBDA s, l : ReadBinaries(s, size(l) + units[l + 1], Wide), head, [l \in 1..Len(units) - 1 |-> l])
        begin(l) == 1 + Len(units) + Sum(1..l - 1, LAMBDA k : size(k) + units[k + 1])
    IN IF body.failed \/ SubSeq(body.read, 1, 1 + Len(units)) # <<Len(units)>> \o units THEN [failed |-> TRUE]
       ELSE Network(units,
                    [l \in 1..Len(units) - 1 |-> Matrix(units[l + 1], units[l], SubSeq(body.read, begin(l) + 1, begin(l) + size(l)))],
                    [l \in 1..Len(units) - 1 |-> SubSeq(body.read, begin(l) + size(l) + 1, begin(l) + size(l) + units[l + 1])])
-----------------------------------------------------------------------------
(* BpNetworkComputationSimple.                                             *)

\* mActivations.
Forward(net, feature) ==
    LET next(act, l) == Append(act, SigmoidOf(VectorPlus(MatrixTimesVector(net.weights[l], Last(act)), net.biases[l])))
    IN FoldLeft(next, <<feature>>, [l \in DOMAIN net.weights |-> l])

Times1Minus(v, act) == MultiplyElementWise(v, act, NumberMinusVector(1, act))

\* mDeltas, and what is kept of the sample's loss.
Backward(net, act, target) ==
    LET error == VectorMinus(Last(act), target)
        n == Len(net.weights)
        previous(l, deltas) == <<Times1Minus(MatrixTimesVector(Transpose(net.weights[l]), Head(deltas)), act[l])>> \o deltas
    IN [deltas |-> FoldRight(previous, [k \in 1..n - 1 |-> k + 1], <<Times1Minus(error, Last(act))>>),
        loss |-> NormL2Sqr(error)]

ComputeGradient(deltas, act) ==
    [weights |-> [l \in DOMAIN deltas |-> OutterProd(deltas[l], act[l])], biases |-> deltas]

\* Mutant of AdjustNetwork: the biases are regularised, too.
AdjustNetworkBiases(net, gradient, option) ==
    LET adjust(w, g) == w - option.learningRate * (g + option.lambda * w)
    IN [net EXCEPT !.weights = [l \in DOMAIN @ |-> [@[l] EXCEPT !.data = [k \in DOMAIN @ |-> adjust(@[k], gradient.weights[l].data[k])]]],
                   !.biases = [l \in DOMAIN @ |-> [i \in DOMAIN @[l] |-> adjust(@[l][i], gradient.biases[l][i])]]]

AdjustNetwork(net, gradient, option) ==
    LET step(w, g) == NumberTimesMatrix(option.learningRate, MatrixPlus(g, NumberTimesMatrix(option.lambda, w)))
    IN [net EXCEPT !.weights = [l \in DOMAIN @ |-> MatrixMinus(@[l], step(@[l], gradient.weights[l]))],
                   !.biases = [l \in DOMAIN @ |-> VectorMinus(@[l], NumberTimesVector(option.learningRate, gradient.biases[l]))]]

\* Losses are kept as <<numerator, denominator>>.
ComputeTotalLoss(net, losses, option) ==
    [data |-> <<Sum(DOMAIN losses, LAMBDA i : losses[i]), 2 * Len(losses)>>,
     reg |-> <<option.lambda * Sum(DOMAIN net.weights, LAMBDA l : NormFSqr(net.weights[l])), 2>>]

\* One step with one sample of [network, losses].
SimpleStep(state, s, data, option) ==
    LET act == Forward(state.network, data.samples[s].feature)
        back == Backward(state.network, act, data.samples[s].more)
    IN [state EXCEPT !.network = AdjustNetwork(@, ComputeGradient(back.deltas, act), option), !.losses[s] = back.loss]

\* Every iteration has an order of the samples; some report a loss.
TrainBy(step(_, _), total(_, _), net, data, option, orders) ==
    LET check(iter) == option.iterationCheckStep > 0 /\ (iter - 1) % option.iterationCheckStep = 0
        report(state) == [state EXCEPT !.reports = Append(@, total(state.network, state.losses))]
        iteration(state, iter) ==
            LET trained == FoldLeft(step, state, orders[iter]) IN IF check(iter) THEN report(trained) ELSE trained
    IN FoldLeft(iteration, [network |-> net, losses |-> [i \in DOMAIN data.samples |-> 0], reports |-> <<>>],
                [iter \in DOMAIN orders |-> iter])

SimpleTrain(net, data, option, orders) ==
    TrainBy(LAMBDA state, s : SimpleStep(state, s, data, option),
            LAMBDA network, losses : ComputeTotalLoss(network, losses, option), net, data, option, orders)
-----------------------------------------------------------------------------
(* BpNetworkComputationOpenMP: the rows of a parallel for write to places  *)
(* of their own, so their order is left open.  Arrays are indexed from 0   *)
(* in the code, and from 1 here.                                           *)

ForwardOneLayer(inputUnit, outputUnit, inputAct, weight, bias) ==
    [i \in 1..outputUnit |->
        Sigmoid(bias[i] + Sum(1..inputUnit, LAMBDA j : weight[(i - 1) * inputUnit + j] * inputAct[j]))]

ForwardArrays(net, feature) ==
    LET next(act, l) ==
            Append(act, ForwardOneLayer(net.units[l], net.units[l + 1], act[l], net.weights[l].data, net.biases[l]))
    IN FoldLeft(next, <<feature>>, [l \in DOMAIN net.weights |-> l])

BackwardOutputLayer(targetUnit, inputAct, targetAct) ==
    LET d(i) == inputAct[i] - targetAct[i]
    IN [delta |-> [i \in 1..targetUnit |-> d(i) * inputAct[i] * (1 - inputAct[i])],
        loss |-> Sum(1..targetUnit, LAMBDA i : d(i) * d(i))]

BackwardOneLayer(inputUnit, outputUnit, weight, inputDelta, inputAct) ==
    [i \in 1..inputUnit |->
        Sum(1..outputUnit, LAMBDA j : weight[(j - 1) * inputUnit + i] * inputDelta[j]) * inputAct[i] * (1 - inputAct[i])]

BackwardArrays(net, act, target) ==
    LET last == BackwardOutputLayer(Last(net.units), Last(act), target)
        previous(l, deltas) ==
            <<BackwardOneLayer(net.units[l], net.units[l + 1], net.weights[l].data, Head(deltas), act[l])>> \o deltas
    IN [deltas |-> FoldRight(previous, [k \in 1..Len(net.weights) - 1 |-> k + 1], <<last.delta>>), loss |-> last.loss]

ComputeGradientOneLayer(rows, cols, delta, act) ==
    [k \in 1..rows * cols |-> delta[((k - 1) \div cols) + 1] * act[((k - 1) % cols) + 1]]

ComputeGradientArrays(deltas, act) ==
    [weights |-> [l \in DOMAIN deltas |-> ComputeGradientOneLayer(Len(deltas[l]), Len(act[l]), deltas[l], act[l])],
     biases |-> deltas]

AdjustNetworkOneLayer(weight, bias, weightGrad, biasGrad, option) ==
    [weight |-> [k \in DOMAIN weight |-> weight[k] - option.learningRate * (weightGrad[k] + option.lambda * weight[k])],
     bias |-> [i \in DOMAIN bias |-> bias[i] - option.learningRate * biasGrad[i]]]

AdjustNetworkArrays(net, gradient, option) ==
    LET layer(l) == AdjustNetworkOneLayer(net.weights[l].data, net.biases[l], gradient.weights[l], gradient.biases[l], option)
    IN [net EXCEPT !.weights = [l \in DOMAIN @ |-> [@[l] EXCEPT !.data = layer(l).weight]],
                   !.biases = [l \in DOMAIN @ |-> layer(l).bias]]

OpenMPTotalLoss(net, losses, option) == ComputeTotalLoss(net, losses, option)

OpenMPStep(state, s, data, option) ==
    LET act == ForwardArrays(state.network, data.samples[s].feature)
        back == BackwardArrays(state.network, act, data.samples[s].more)
    IN [state EXCEPT !.network = AdjustNetworkArrays(@, ComputeGradientArrays(back.deltas, act), option),
                     !.losses[s] = back.loss]

OpenMPTrain(net, data, option, orders) ==
    TrainBy(LAMBDA state, s : OpenMPStep(state, s, data, option),
            LAMBDA network, losses : OpenMPTotalLoss(network, losses, option), net, data, option, orders)
-----------------------------------------------------------------------------
(* BpNetworkComputationMT: the workers compute and adjust with buffers of  *)
(* their own over one network, which nothing guards.  A number of it is    *)
(* read, or written, at a step; what is done between with the worker's own *)
(* buffers belongs to the step before it.  weight[k] is read once for its  *)
(* adjustment, as in the build (SConstruct:10), and written before the     *)
(* next one is read.                                                       *)
(*                                                                         *)
(* m: the network, the option, the samples, of which thread t gets the     *)
(* t-th, the buffers and the threads.  History: the network that training  *)
(* begun with, what a thread has seen of it in Forward and in Backward,    *)
(* which threads were done before it, and the numbers that two threads     *)
(* have been adjusting at the same time (overlaps).                        *)

\* A number of the network: <<"weight" or "bias", layer, index>>.
NumberAt(net, p) == IF p[1] = "weight" THEN net.weights[p[2]].data[p[3]] ELSE net.biases[p[2]][p[3]]
WithNumber(net, p, number) ==
    IF p[1] = "weight" THEN [net EXCEPT !.weights[p[2]].data[p[3]] = number] ELSE [net EXCEPT !.biases[p[2]][p[3]] = number]

RowOf(units, l, i) == [j \in 1..units[l] |-> <<"weight", l, (i - 1) * units[l] + j>>]
ColumnOf(units, l, j) == [i \in 1..units[l + 1] |-> <<"weight", l, (i - 1) * units[l] + j>>]

\* The orders in which the loops go through the numbers.
ForwardOrder(units) ==
    FlattenSeq([l \in 1..Len(units) - 1 |->
        FlattenSeq([i \in 1..units[l + 1] |-> <<<<"bias", l, i>>>> \o RowOf(units, l, i)])])
BackwardOrder(units) ==
    FlattenSeq([k \in 1..Len(units) - 2 |->
        LET l == Len(units) - k IN FlattenSeq([j \in 1..units[l] |-> ColumnOf(units, l, j)])])
AdjustOrder(units) ==
    FlattenSeq([l \in 1..Len(units) - 1 |->
        FlattenSeq([i \in 1..units[l + 1] |-> RowOf(units, l, i) \o <<<<"bias", l, i>>>>])])

\* Mutant of BufferOf: the threads share one.
OneBuffer(t) == 1

\* threadId, which CreateWorkerThread counts up.
BufferOf(t) == t

MTInitResource(net, samples, option) ==
    LET zeros(n) == [k \in 1..n |-> 0]
        layers == DOMAIN net.weights
        units(l) == net.units[l + 1]
        buffer == [target |-> <<>>, act |-> [l \in DOMAIN net.units |-> zeros(net.units[l])],
                   deltas |-> [l \in layers |-> zeros(units(l))],
                   gradient |-> [weights |-> [l \in layers |-> zeros(units(l) * net.units[l])],
                                 biases |-> [l \in layers |-> zeros(units(l))]]]
        thread == [doing |-> "task", left |-> <<>>, forward |-> net, backward |-> net, read |-> <<>>, loss |-> 0, behind |-> {}]
    IN [network |-> net, begun |-> net, option |-> option, samples |-> samples, overlaps |-> {},
        buffers |-> [t \in DOMAIN samples |-> buffer], threads |-> [t \in DOMAIN samples |-> thread]]

Moves(m, t, thread, buffer) == [m EXCEPT !.threads[t] = thread, !.buffers[BufferOf(t)] = buffer]

MTProcessTask(m, t) ==
    Moves(m, t, [m.threads[t] EXCEPT !.doing = "forward", !.left = ForwardOrder(m.network.units),
                                     !.behind = {u \in DOMAIN m.threads : m.threads[u].doing = "done"}],
          [m.buffers[BufferOf(t)] EXCEPT !.act = <<m.samples[t].feature>> \o Tail(@), !.target = m.samples[t].more])

MTForward(m, t) ==
    LET p == Head(m.threads[t].left)
        thread == [m.threads[t] EXCEPT !.left = Tail(@), !.forward = WithNumber(@, p, NumberAt(m.network, p))]
        buffer == m.buffers[BufferOf(t)]
    IN IF thread.left # <<>> THEN Moves(m, t, thread, buffer)
       ELSE Moves(m, t, [thread EXCEPT !.doing = "backward", !.left = BackwardOrder(m.network.units), !.backward = thread.forward],
                  [buffer EXCEPT !.act = ForwardArrays(thread.forward, Head(@))])

MTBackward(m, t) ==
    LET thread == m.threads[t]
        p == Head(thread.left)
        buffer == m.buffers[BufferOf(t)]
        back == BackwardArrays(thread.backward, buffer.act, buffer.target)
    IN IF thread.left # <<>>
       THEN Moves(m, t, [thread EXCEPT !.left = Tail(@), !.backward = WithNumber(@, p, NumberAt(m.network, p))], buffer)
       ELSE Moves(m, t, [thread EXCEPT !.doing = "gradient", !.loss = back.loss], [buffer EXCEPT !.deltas = back.deltas])

MTComputeGradient(m, t) ==
    Moves(m, t, [m.threads[t] EXCEPT !.doing = "adjust", !.left = AdjustOrder(m.network.units)],
          [m.buffers[BufferOf(t)] EXCEPT !.gradient = ComputeGradientArrays(m.buffers[BufferOf(t)].deltas, m.buffers[BufferOf(t)].act)])

\* Thread t has read the number p and not written it yet.
Adjusts(m, t, p) == m.threads[t].read # <<>> /\ Head(m.threads[t].left) = p

Adjusted(gradient, option, p, number) ==
    number - option.learningRate * (IF p[1] = "weight" THEN gradient.weights[p[2]][p[3]] + option.lambda * number
                                    ELSE gradient.biases[p[2]][p[3]])

MTAdjustNetwork(m, t) ==
    LET thread == m.threads[t]
        p == Head(thread.left)
    IN IF thread.read = <<>>
       THEN [m EXCEPT !.threads[t].read = <<NumberAt(m.network, p)>>,
                      !.overlaps = IF \E u \in DOMAIN m.threads : Adjusts(m, u, p) THEN @ \cup {p} ELSE @]
       ELSE [m EXCEPT !.network = WithNumber(@, p, Adjusted(m.buffers[BufferOf(t)].gradient, m.option, p, thread.read[1])),
                      !.threads[t] = [@ EXCEPT !.left = Tail(@), !.read = <<>>,
                                               !.doing = IF Len(thread.left) = 1 THEN "done" ELSE @]]

\* The next step of a thread that is not done.
MTNext(m, t) ==
    LET doing == m.threads[t].doing
    IN CASE doing = "task" -> MTProcessTask(m, t)
         [] doing = "forward" -> MTForward(m, t)
         [] doing = "backward" -> MTBackward(m, t)
         [] doing = "gradient" -> MTComputeGradient(m, t)
         [] doing = "adjust" -> MTAdjustNetwork(m, t)

AllDone(m) == \A t \in DOMAIN m.threads : m.threads[t].doing = "done"

MTTotalLoss(net, losses, option) == ComputeTotalLoss(net, losses, option)

\* One thread, which does a task without interruption.
MTStep(state, s, data, option) ==
    LET numbers == Len(AdjustOrder(state.network.units))
        steps == 3 + numbers + Len(BackwardOrder(state.network.units)) + 2 * numbers
        done == FoldLeft(LAMBDA m, k : MTNext(m, 1), MTInitResource(state.network, <<data.samples[s]>>, option),
                         [k \in 1..steps |-> k])
    IN [state EXCEPT !.network = done.network, !.losses[s] = done.threads[1].loss]

MTTrain(net, data, option, orders) ==
    TrainBy(LAMBDA state, s : MTStep(state, s, data, option),
            LAMBDA network, losses : MTTotalLoss(network, losses, option), net, data, option, orders)
-----------------------------------------------------------------------------
(* The programs.                                                           *)

BpNetworkTrain(file, net, one, option, orders) ==
    LET data == SupervisedOf(ClassificationLoadFromBinaryFile(file), one)
    IN Save(CASE option.method = "simple" -> SimpleTrain(net, data, option, orders).network
              [] option.method = "openMP" -> OpenMPTrain(net, data, option, orders).network
              [] option.method = "threads" -> MTTrain(net, data, option, orders).network)

\* The number of wrong labels.
EvaluateAccuracy(modelFile, units, file, one) ==
    LET data == SupervisedOf(ClassificationLoadFromBinaryFile(file), one)
        net == Load(modelFile, units)
        wrong == {i \in DOMAIN data.samples :
                     MaxIndex(data.samples[i].more) # MaxIndex(Predict(net, data.samples[i].feature))}
    IN Cardinality(wrong)
=============================================================================
