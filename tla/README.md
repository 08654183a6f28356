# Longan, specified

Longan is a C++ library of algorithms, machine learning and recommender systems: matrix factorisation (SVD), neighbour models, an auto-encoder, a back-propagation network, their training, prediction and evaluation.
Its multi-threaded computations are all built on one scheduler, and that scheduler on one monitor, the `ObjectBuffer`.
This directory specifies that core in TLA+, checks it with TLC on small instances and proves its main theorems with TLAPS for every value of the constants.
Around the core it defines what the library computes: its algorithms, containers, allocators, and everything the recommender programs do between a raw data set and an evaluation, checked against definitions that do not say how it is computed.

Paths are relative to `src/`.

1. [The system](#1-the-system)
2. [The modules](#2-the-modules)
3. [The runs](#3-the-runs)
4. [Disagreements found](#4-disagreements-found)
5. [The proofs](#5-the-proofs)
6. [What is not modelled](#6-what-is-not-modelled)
7. [Plan](#7-plan)

## 1. The system

### 1.1 Components

| component | state it keeps | operations | talks to |
|---|---|---|---|
| **ObjectBuffer** `common/threading/object_buffer.h` | a queue, the id of the next object, how many producers and consumers are alive, three flags, a mutex and two condition variables | `Push`, `TryPush`, `Pop`, `TryPop`, `ProducerQuit`, `ConsumerQuit`, `Clear`, `ForceFail` | called by any number of threads |
| **PipelinedScheduler** `common/threading/pipelined_scheduler.h` | two ObjectBuffers, the threads it started | `Start`, `WaitFinish`; `ProducerPutTask`, `WorkerGetTask`, `WorkerPutTask`, `ConsumerGetTask`, three `...Done` | makes threads through its client's `Create*Thread` callbacks; those call back into it |
| **SVD model computation** `recsys/svd/svd_model_computation.*` | which rows and columns of the block grid are in training, how often each block was scheduled, the feature vectors | `ProducerRun`, `WorkerRun`, `ConsumerRun` over the scheduler | the two flag vectors are written by two threads, the feature vectors by all workers |
| **BP network** `ml/neural_network` | weights, per-thread buffers, one loss per sample | the same three loops, tasks in bundles of 256; also single-threaded and OpenMP | the weights are shared without a lock, by design |
| **CF auto-encoder** `recsys/neural_network` | the same, and a mutex around the report of an iteration | the same | the same |
| **Neighbor models** `recsys/neighbor` | a similarity matrix, a progress counter | the three loops and a monitor thread; also a static schedule | the item-based consumer writes the similarities, the user-based workers write their own (`DirectPut`, `user_based_model_computation.cpp:202`) and the consumer counts |
| **Evaluation** `recsys/evaluate` | running averages, counters, bit sets | five delegates with the three loops and a monitor | calls the recommender's `Predict*` from all workers |
| **Recommender base** `recsys/base` | rating lists and matrices, adjusters, a cache of top-N lists | train, predict, evaluate, convert | the life cycle: load, build matrices, shuffle, train, save, load, predict |
| **SVD training, prediction** `recsys/svd` | a model with renumbered users and items | shuffle before, inverse shuffle after training | train option, model, file |
| **Allocators** `common/memory` | free lists, pools | `Allocate`, `Deallocate` | |
| **Data structures, sorting** `algorithm/` | arrays, rings, heaps, chains | the usual; one quicksort with threads | |
| the rest | mathematics, files, configuration, cryptography, computer vision, sample programs, vendored libraries | | |

### 1.2 What is hard, and what must hold

- *Condition variables.* `ObjectBuffer` uses `notify_one` per object and per place and `notify_all` at the end. A wakeup may be spurious, and a woken thread may find that another has been faster.
  No object may be left in the queue with a consumer asleep and nobody on the way to it, nobody may sleep through the end, and the numbers `Pop` returns must be those `Push` gave although they are computed from the length of the queue.
- *The end of a pipeline.* Producers, workers and consumers leave one after the other; the last worker to leave one queue empties it, and `WorkerDone` quits two buffers under two different locks.
  No task may be lost or done twice, no `assert(rtn == LONGAN_SUCC)` may fail, `WaitFinish` must return and everything must have been consumed by then.
- *Unlocked scans.* The SVD producer reads the flags of the grid without the mutex while the consumer clears them.
  No two workers may train blocks of one row or one column.
- *Reports.* A Monitor task travels with the others and is handled while they are under way: what it reports as "iteration n" depends on the order in which workers finish.
- *Bundles.* Tasks are bundled up across iterations, and the cut is a test for equality.
- *Life cycles.* Models are saved, loaded, trained again; ratings are sorted in place, users and items renumbered and numbered back.
  A rating must never be lost, doubled or given to another user on the way, and a file that was cut short must not be read as a shorter one.
- *The same thing computed in several ways.* By one thread and by many, by vectors and by rows of arrays, by users and by items, by a static schedule and by a pipeline. They must agree.
- *Caches and delegates that are used again.* The cached lists of one evaluation are there in the next, which wants lists of another length; sums are members, reset by the thread that adds to them.
- *Boundaries of arrays.* Rings that wrap and grow, heaps that shrink, pools that end, ranges given to threads, the last user of a file.

`PROJECT.json` lists every hazard at its line with the properties that cover it, or why none does yet.

## 2. The modules

```
ObjectChannel   <== implements ==  ObjectBufferHistory -- extends --> ObjectBuffer
                                                                          ^ ^
                                                               two instances | B1, B2
TaskPipeline    <== implements ==  PipelinedScheduler ----------------------+
     ^  instance                                  ^ (implements)
     +-- SvdModelComputationMT
     +-- BundledComputationMT
     +-- Evaluation

AlgorithmCalls  -- extends --> QuickSortMT, Sorting --> Arrays;  GraphAlgorithms;  GeometryAndNumbers
Collections     <== implements ==  ContainerCalls -- extends --> Allocators, DataStructures
RecommenderCalls -- extends --> Evaluation, Preparation, NeighborModels  --> Ratings --> Streams
                              LearningCalls --> SvdModel, AutoEncoder, BpNetwork --> Datamodel, LinearAlgebra
```

Three of the modules are abstract: they say what a component promises.
`ObjectChannel` is a bounded first-in first-out channel; `TaskPipeline` is two bounded queues between three stages; `Collections` is a sequence, a stack, a bag with an order, and a set.
The detailed modules are shown to implement them, and the computations are modelled over `TaskPipeline` instead of over locks and condition variables.
This is what makes their state spaces small enough.

Seven modules hold theorems about the module they are named after (`...Proofs`), and `Counting` what several of them use; section 5 is about them.

A definition introduced by a comment `Mutant of ...` is not part of the specification: it is a faulty variant of the definition it stands before, of the kind a slip in the code would make.
`PROJECT.json` pairs each property with a variant that breaks it, which shows that the property can fail.

### 2.1 ObjectBuffer

One variable per member of the class, two wait sets for the condition variables, and for each thread the call it was interrupted in (`pushing`, `popping`).
A call is one critical section of `mMutex`, so it is one action; `wait()` ends the critical section, so a call that waits is one action that puts the caller to sleep (`PushBlocks`, `PopBlocks`) and another once it has been woken (`Push`, `Pop`).
The guard of the second is the condition of the `while` loop: a woken thread looks again, and may go to sleep again.
`notify_one` takes one arbitrary sleeper out of the wait set, `notify_all` empties it, `SpuriousWakeup` takes anyone out at any time.
The return codes are parameters of the actions, so that what the caller makes of them is the caller's business.

The queue is a sequence whose head is `mQueue.back()`.
`mMaxSize` is an integer: the code compares it with a `size_t`, so a negative one means "no bound" (`Full`).
A constant of the model, `MayClear`, says whether the clients ever call `Clear`; none in the library does, and a property depends on it.
The getters (`Size`, `NumAliveProducer`, ...) change nothing and are left out.

`ObjectBufferHistory` adds what the clients have seen: the objects accepted and the objects delivered with the ids returned.
It exists for the refinement: the abstract channel's content is computed from the queue and `mObjectId` (`ChannelOf`).

### 2.2 PipelinedScheduler

`B1` and `B2` are two instances of `ObjectBuffer`, with the threads, capacities and census the constructor passes.
Each thread has a place in the loop its client runs: all clients in the library have the same three loops (`while (true) { get; if nullptr break; ...; put }`), and they are taken from `recsys/neighbor/item_based_model_computation.cpp`.
`Start` makes the threads in order and each runs at once, before the others exist.
`WorkerDone` is two actions, because it takes two locks; `ProducerPutTask` and the other methods are one action of one buffer.
`AssertSucc` records whether an `assert(rtn == LONGAN_SUCC)` has failed; the build (`SConstruct`, `Debug=True`) keeps them on.
The monitor thread polls how much has been consumed and leaves when that is everything.

### 2.3 SvdModelComputationMT

The producer looks for a free block with the fewest iterations, blocks its row and column under the mutex, counts it, sends it; if the smallest count has grown it may send a Monitor task; if there is no free block it sleeps and scans again.
The scan is not under the mutex.
The consumer only ever unblocks, so a block free when the scan began is seen free and one freed during the scan may or may not be: `scanned` holds the blocks that were free at the beginning, `Schedule` chooses among what is free now, at least as good as everything in `scanned`.
`UnblockRow` and `UnblockColumn` are two steps because the scan may come in between.
A worker's training of a block has a beginning and an end, so that two may overlap; so has `ComputeLoss`, under its mutex.
`gridId` is a pair here, the code writes it as `i * NumItemBlock + j`; row 0 and column 0 are named, because a Monitor task, which sets no `gridId`, has 0.
The arithmetic is left out.

### 2.4 BundledComputationMT

The four bundled computations have the same three loops and differ in who stores a result and who handles a Monitor task; `option.program` says which it is.

| program | a result is stored by | a Monitor task is handled by | progress |
|---|---|---|---|
| `"BpNetwork"` | the consumer (`mSampleLosses[...] = ...`) | the consumer | |
| `"CfAutoEncoder"` | the worker (`SGDOnSample`) | the worker, under `mMonitorIterationMutex` | |
| `"ItemBased"` | the consumer (`DirectPut`) | there is none | the consumer counts for a monitor thread |
| `"UserBased"` | the worker (`DirectPut`) | there is none | the same; the consumer does nothing else |

None of the four gives the scheduler a buffer size, so both queues have `DEFAULT_BUFFER_SIZE` places, 128 (`pipelined_scheduler.h:71`).
The capacities are constants, `BufferSize1` and `BufferSize2`: the runs have 128, the theorems any.
The order of the samples is the shuffle's, so the model chooses freely.
A bundle is a sequence of tasks; of a loss the model remembers the iteration it is from, which the code does not (the network's tasks have no iteration, the auto-encoder's do).
A worker goes through its bundle one task per step.

### 2.5 The algorithms

`Sorting`, `GraphAlgorithms` and `GeometryAndNumbers` translate `algorithm/`: arrays are functions from 0, as in the code, loops are folds over the same ranges in the same order, recursions are recursive.
A loop that stops early is a fold that leaves its state alone, or a `CHOOSE` of the place it stops at.
What is random is a choice or a parameter: the pivot of `RandomizedSelect` (of the one without a comparator; the other does not compile, see section 4), a draw of a permutation.
`AlgorithmCalls` calls one of them at a time, with every input of a bounded set; the property about a call defines the answer afresh (a shortest distance is the least length of a simple path, a matching is compared with every other, an area with the cells covered).

`QuickSortMT` is the exception: a process with a state.
`calls` has one entry for each call of `MTQuickSort` under way, under its range, with where the call is.
A short range is sorted by insertion, one element at a step (`BeginShort`, `InsertNext`, `EndInsertion`).
A longer one is partitioned: the median of three becomes the key and is taken out, the hole it leaves goes from one end to the other, one way at a step (`BeginPartition`, `TakeFromRight`, `TakeFromLeft`), until both indices meet and the key is put there (`EndPartition`).
Then both parts are called, by two threads the call joins if the range is longer than `mMTThreshold`, or by itself one after the other (`CallSecond`); `MTReturn` is the end of either.
The array is one variable without a lock, and the steps of different calls come in any order.
One insertion, or one way of the hole, is a step of its own and no more, because nobody else reads or writes the range in between; that ranges of calls at work have no element in common is the property `ThreadsApart`, and what the elements do all the while is `SettledIsFinal`: the keys that are out of the array counted in (`Filled`), it is a rearrangement of what it was, and two elements that are not both in one range still to be sorted (`Unsorted`) are in order.

### 2.6 Containers, allocators, statistics

`DataStructures` has one operator per method over a record with the members of the class (`mData` with its places, `mFront`, `mRear`, `mCapacity`, ...); a place that holds no constructed element is `Raw`, so an element read twice or destroyed too early would show.
`Allocators` is a process: one caller allocates from one of the two allocators and gives back, in any order, what is in use; neither class has a lock.
Memory is regions, which stand for what `malloc` returns, one that was freed included; a block is a region and a place in it.
`malloc` may also return `nullptr` (`NoRegion`): `SmallMemoryAllocator` looks at it and returns `nullptr` itself (`small_memory_allocator.h:67`), `PreferredSizeAllocator` does not and keeps a pool of addresses counted from `nullptr` (`preferred_size_allocator.h:100-103`); the model does both.
`live` and `freedOthers` are history: the blocks in use, and the addresses freed as a block of another size.
`DataStructures` also has the running statistics of `common/util/running_statistic.h`; averages are sum and count.
`ContainerCalls` lets one caller use one object in any order; `Collections` is what it relies on, and `KeepPromises` says that the object does that.

### 2.7 The recommender

`Streams` is `common/lang`'s text and binary streams and the conversion of integers to bytes, little-endian, of their width; a file is a sequence of bytes, or of lines of numbers and words, a read past the end fails as the code's does.
`Ratings` is `recsys/base` with `recsys/pop` and `recsys/util`: records, lists, vectors, traits, adjustments, lists of best items.
`NeighborModels`, `SvdModel`, `AutoEncoder` and `BpNetwork` are the learners, `LinearAlgebra` the vector and matrix operations they use, `Datamodel` the sets of samples and their files, `Preparation` the programs that make rating lists of the published data sets.
`RecommenderCalls` and `LearningCalls` call them, one call at a time, with every input and every random choice of a bounded set; a call returns all that its variants compute.

`Evaluation` is a process: `BasicEvaluate` goes through the measures and list sizes in the code's order; a measure goes through its users with one thread, or with the producer, workers and consumer of `TaskPipeline`, in bundles, over one cache of lists.
A worker goes through its bundle one task per step; a list that is not in the cache takes two, one that finds it missing and computes it (`LookForList`) and one that stores it (`KeepList`): that is where workers would meet.
Here too the queues have the scheduler's 128 places, because no delegate passes a size, and the capacities are constants.
The cache is never emptied, a delegate's sums are not either until the consumer starts anew, and a monitor reads `processed` while the consumer writes it.

*Numbers.* Everything is computed over whole numbers, with the same formulas: sums, products and differences are exact, and what is divided in the code is kept as dividend and divisor, divided as integers on both sides of a property, or (distances, cosines) taken to hundredths.
The sigmoid and the random initialisation's scale are constants of the model, any functions of whole numbers: no property depends on what they are, and the derivative is the code's expression `s * (1 - s)` of its value.
What is found out this way is whether the right numbers are combined in the right way, never how they are rounded.

*Threads on shared weights.* `BpNetwork` has `BpNetworkComputationMT`'s treatment of one sample as a process (`training` in `LearningCalls`; `StartThreads`, `WorkerStep`, `JoinThreads`).
Nothing guards the network, so a step of a thread reads one number of it, or writes one: `Forward` reads the biases and weights of one layer after the other, `Backward` the weights again, column by column from the last layer back, and `AdjustNetwork` reads and writes `weight[k]` and `bias[i]` one at a time, in the order of the loops.
A thread can therefore compute with a network that another has half adjusted, and lose the adjustment of some numbers and not of others.
Only what a thread does with its own buffers, which are its own by the index of the thread, belongs to the step before it.
`weight[k]`, which occurs twice in its assignment, is read once, as in the build (`-O3`, `SConstruct:10`); a compiler that loads several numbers before it stores the first is not modelled.

*Restarts.* With `RandomInit` off, `SVDInitModel` begins with the saved model, by number, whether or not the ids have just been shuffled; `SvdLearns` computes what is to be learnt from the model begun with, and says that it is the saved one when the ids are not shuffled.

## 3. The runs

| run | instance | checks |
|---|---|---|
| `object_buffer` | 4 threads making any call, capacity 2, 2 producers and 1 consumer in the census, 2 objects, no further step once more than 3 have been put in, `Clear` allowed; threads symmetric | `TypeOK`, `ClosedIsEmpty`, `WithinMaxSize`, `NobodySleepsThroughTheEnd`, `PopWakeupsSuffice`, `ImplementsChannel` |
| `object_buffer_clear` | 3 threads, the same buffer | `BlockedOnlyWhenFull` is violated |
| `pipelined_scheduler` | 1 producer, 3 workers, 1 consumer, a monitor, queues of two places and of one, 3 tasks | `TypeOK`, `AssertsHold`, `EachTaskInOnePlace`, `JoinedMeansAllConsumed`, `NoLostWakeup`, `ImplementsTaskPipeline`, `Termination` |
| `svd_grid` | 2 workers, a 3 x 3 grid, up to 2 iterations, monitored or not; workers, and all rows and columns but the first, symmetric | `TypeOK`, `ExclusiveUnlessMonitored`, `TrainedOneIterationShort` |
| `svd_termination` | 1 worker, a 2 x 2 grid, up to 3 iterations, monitored or not | `Termination` |
| `svd_exclusive` | as `svd_grid`, monitored | `ExclusiveBlocks` is violated |
| `svd_report` | as `svd_grid`, monitored | `ReportedIterationIsDone` is violated |
| `bundles` | 2 workers, bundles of 2 tasks, queues of 128 places, the network, the auto-encoder and the two similarities, up to 3 samples and up to 3 iterations with at most 6 Compute tasks in all, no monitoring or every first or second iteration | `TypeOK`, `BundlesAreFull`, `EveryTaskDone`, `ReportsTheIteration`, `Termination` |
| `bundle_overflow` | the same | `BundleWithinSize` is violated |
| `algorithms` | arrays of up to 5 elements (6, 7 and 9 for the sort with threads, of which 1, 2 or 4), graphs of 3 and 4 vertices, up to 4 edges or all weights of 3, triangles on a 3 x 3 lattice, up to 3 rectangles, numbers up to 60 | `SortsSort`, `ArrangementsInOrder`, `PathsAreShortest`, `WalksAndMatches`, `FiguresAndNumbers`, `ThreadsApart`, `SettledIsFinal` |
| `containers` | 3 elements of which two collide, up to 5 in a container that starts with room for 1 or 2, up to 4 values in a statistic, up to 3 blocks in use of a pool of 2 | `PeeksAgree`, `StatisticsAgree`, `BlocksApart`, `KeepPromises` |
| `recommender` | 3 users and 3 items, 2 workers, bundles of 2 and queues of 128 places, lists of up to 6 ratings in any order, networks of up to 4 layers, two threads on networks of 4 and 7 numbers, data sets of 4 ratings in every shuffle | `ListsAgree`, `EvaluationsAgree`, `RatingsKept`, `SplitsPartition`, `PredictionsAgree`, `LearningAgrees`, `ThreadsLearn` |

What they show:

- *The monitor* (`object_buffer`). No sequence of calls of four threads leaves an object in the queue with a consumer asleep and nobody on the way to it (`PopWakeupsSuffice`), nobody sleeps once the buffer is closed, and every step of the buffer is a step of the bounded channel or changes nothing of it: first in first out, delivered at most once, with the number `Push` gave it (`ImplementsChannel`).
  The stronger statements about `Push` need that nobody calls `Clear`.
- *The scheduler* (`pipelined_scheduler`). With spurious wakeups anywhere: no assertion fails, every task is in exactly one place at any time, `WaitFinish` returns, and when it does everything has been consumed once.
  The producer can be two tasks ahead of the workers and both queues fill up; that things come out in order is in the abstract specifications' queues.
  `ImplementsTaskPipeline` is the licence to model the computations over `TaskPipeline`: among others, nobody is told "no more" while something is still on its way to him.
- *The grid* (`svd_grid`, `svd_termination`). The unlocked scan is harmless: without monitoring two workers are never in one row or column.
  Each block is trained `Iterations() - 1` times, not `Iterations()`: see section 4.
  The polling loop ends.
- *The bundles* (`bundles`). However the bundles are cut and whoever stores the results, every sample is computed once in each iteration and its result stored; without monitoring every bundle but the last is full; while one worker gets all the bundles the reports are exact, although the worker runs ahead of the network's consumer, by as many bundles as there are, and there is no barrier between iterations.
  With several workers reports mix iterations and a late bundle may even replace a newer loss by an older one; the code does not say otherwise, so nothing is claimed about it.
- *The algorithms* (`algorithms`). Every algorithm gives the right answer on every input of the bounds, with the exceptions that the properties name and section 4 lists. However the insertions and moves of the quicksort's threads interleave, and however deep threads make threads, none touches what another sorts, nothing is lost or doubled, and the array is sorted when the first call returns.
- *Containers* (`containers`). Whatever is called in whatever order, a queue is a queue across wraps and expansions, a heap gives its greatest, a set finds what is in it and nothing else; the statistics are those of what was added; no two blocks in use overlap, but for the three faults of the allocators, and none is lost when `malloc` fails.
- *The recommender* (`recommender`). One thread or several, a cache filled by workers at once or not, no two workers store the same list, a list that is kept is the beginning of its user's ranking (`ListsAgree`), the lists are of the best items and the sums those that the measures' definitions give (`EvaluationsAgree`). Ratings survive each conversion, file, matrix and adjustment (`RatingsKept`); preparation and splitting lose and invent nothing, whatever is drawn (`SplitsPartition`). Similarities and predictions depend on the ratings only, not on the schedule (`PredictionsAgree`). What is trained goes down the derivative, computed independently by differences of the loss's parts; training, prediction and files agree in each of their variants (`LearningAgrees`). Of two threads that train one network number by number (`ThreadsLearn`): what each gets as a loss and as slopes is that of the network it has seen, mixed as it may be; each number in the end has both adjustments, or one if both threads were at it at the same time; and if one was done before the other began, the network is that of training with one sample after the other.

Each of these properties is a conjunction of named or visible parts, one for each kind of call; a part is vacuous only for the other kinds.

### Bounds

- Four threads on a buffer: two can sleep while the other two race for what wakes one of them, and three can sleep on the same condition variable while a fourth wakes them. Capacity 2 tells "notify at each push" from "notify when the queue was empty", which is the classic mistake. `FewObjects` is a state constraint on the ids (no more steps from a state in which `mObjectId` exceeds `MaxObjectId`, 3), enough to fill the buffer, drain one and fill it again.
- Three workers, two places before them and one behind: the clients have 128 places (`DEFAULT_BUFFER_SIZE`, `pipelined_scheduler.h:71`), and the SVD one (`svd_model_computation.cpp:224`). Three tasks can never fill 128, so the bound is what makes full queues happen, with two in a queue where order matters and one where a put waits for a single get. That the scheduler implements the abstract pipeline, whose queues are in order, is proved for any capacities. Three workers are the fewest of which one can be asleep on the first queue, one on the second, and one in between; with three tasks each can have one.
- A 3 x 3 grid is the smallest the code accepts for two workers (`assert(mNumUserBlock > mNumThread)`, `svd_util.cpp:55`).
- Bundles of two with up to three samples: iterations end before, at, and after the end of a bundle, and bundles span iterations. Only how many samples there are matters, so the options range over sizes, not sets. The queues have the code's 128 places and are never full, so that nothing keeps a worker from running ahead; what full queues do is checked in `pipelined_scheduler`, and `EveryTaskDone`, `BundlesAreFull` and `ReportsTheIteration` are proved for any capacities.
- `svd_termination` has one worker and no symmetry: symmetry is not sound for liveness. `pipelined_scheduler` and `bundles` use none for the same reason.
- Arrays of five distinct elements have each comparison come out either way at each place; nine elements and a threshold of two make the quicksort's threads make threads; equal elements are in the shorter arrays.
- Graphs of three vertices with every weight, of four with fewer: a shortest path of three edges, a cycle, two components, parallel edges and loops.
- The allocators' `malloc` fails at any call, the first pool's included. Containers reach every capacity from 1 to 8, so that a ring wraps before and after it has grown; a hash set with two colliding keys has chains, and grows.
- Three users and three items with bundles of two: a full bundle and one that is not, for two workers. The list sizes include one longer than there are candidates, and go up and down from one evaluation to the next. One user has no test rating, one rating is 0.
- Rating lists come in every order of up to four records, with and without users and items that have none. Three draws make every shuffle of the four raw ratings.
- Networks have one to three layers of weights; two samples and two iterations, in every order of the samples. Two threads, a sample each, interleave number by number in every way, on a network of one unit in each of three layers and on one with two in the middle. Codes have up to 64 bits (two words), of 1, 31, 32 and 33 among others.

### Fairness

`FairSpec` asks weak fairness of each thread's next step: the operating system runs a thread that can run.
That is all the code relies on: a thread waiting on a condition variable cannot run, a woken one competes for a mutex that is held for a bounded time, and the loops have no other way to wait.
Nothing is assumed of `SpuriousWakeup` (nobody may rely on one), and strong fairness is nowhere needed, because who loses the race for an object goes back to sleep and the object is gone.
Safety runs use `Spec` without fairness.

Deadlock is checked in the runs of processes that wait for each other. The end of a computation is a state with a step that changes nothing (`Finished`), so a real deadlock is found.
It is not checked in `algorithms`, `containers` and `recommender`, where a call may be the last the bounds allow.

## 4. Disagreements found

1. **`Clear` wakes nobody** (`object_buffer.h:229`, run `object_buffer_clear`). The header promises that `Push` blocks "when buffer is full". `Clear` empties the queue and does not notify: a producer asleep in `Push` sleeps on in an empty buffer. No client calls `Clear` while others push.
2. **A Monitor task unblocks row 0 and column 0** (`svd_model_computation.cpp:307`, run `svd_exclusive`). The consumer does not look at a task's type; a Monitor task's `gridId` is 0. In monitored training two workers may then write the same feature vectors.
3. **"iteration n done" is logged before it is done** (`svd_model_computation.cpp:271`, run `svd_report`). The producer counts blocks when it schedules them.
4. **A full bundle with a Monitor task is never cut again** (`bp_network_computation.cpp:389`, run `bundle_overflow`; the auto-encoder has the same lines). The test is `size() == TASK_BUNDLE_SIZE`, and the Monitor task has just made the size one larger: the rest of the training is a single bundle, trained by a single worker. The unit test `ModelIntegerSignAndParityOK` trains this way (1024 samples, 8 threads, a Monitor task after the first iteration) and looks only at the accuracy.

Found while the code was translated, without a run of their own; where a property is named, it says what holds all the same.

5. **Equal elements count as an inversion** (`count_inversion.h:42`): the header (:14) and the unit test's own count (`count_inversion_unittest.cpp:34`) have `array[i] > array[j]` only. The test's arrays are distinct, and `SortsSort` says what is right of these.
6. **The union of rectangles can be too large** (`rect_union_area.h:42`): the rectangle that replaces one swallowed whole is not looked at. `FiguresAndNumbers` is an equality for two rectangles, a bound for three.
7. **`Point + Point` adds `lhs.x` to `rhs.y`** (`point.h:26`).
8. **`Queue::Rear` reads `mData[-1]`** when the ring has just been filled to its end (`queue.h:49`). `PeeksAgree` is about the other states.
9. **`ComputeMaxMatch` never writes the pairs** it is asked for (`bipartite_max_match.h:33`).
10. **A block of another size is freed and handed out again** (`preferred_size_allocator.h:82`), **a block larger than the pool runs over its end** (`small_memory_allocator.h:65`), **and blocks of a pool that `malloc` has refused are addresses counted from `nullptr`** (`preferred_size_allocator.h:100-103`), all but the first of which are not `nullptr`. `BlocksApart` names the three.
11. **The auto-encoder's validation data is its training data** (`cf_auto_encoder_train.cpp:40`), although the log names the other file.
12. **An SVD evaluation of nothing but novelty reads test data it has not loaded** (`svd_evaluate.cpp:45`).
13. **Training goes on with the features of others** (`svd_train.cpp:51`) if a saved model is loaded and the ids are shuffled: the file is in the order of the original ids, the data in that of the shuffle.
14. **The binary loss has the average inside the sigmoid** (`svd_model_computation.cpp:45`); the formula above it (:23) has none. `SvdLearns` makes no claim about a step with both.
15. **A matrix keeps its shape when one of the same size is assigned** (`matrix.h:133`).
16. **Dijkstra writes to an uninitialised index** in a graph that is not connected by edges below `max()` (`dijkstra.h:29`).

Also worth knowing, though nothing in the repository says otherwise: the parallel SVD trains every block `Iterations() - 1` times (`TrainedOneIterationShort`), the single-threaded one `Iterations()` times (`svd_model_computation.cpp:194`).
Bellman and Ford's algorithm overflows an `int` on a negative edge to a vertex not reached yet (`bellmanford.h:51`); Kuhn and Munkres's never ends if there are more vertices on the left; Prim's has Dijkstra's uninitialised index (`prim.h:31`); `RandomizedSelect` with a comparator calls a `select` that does not exist (`randomized_select.h:89`, `:91`), so only the one that compares with `operator<` is modelled.
A list padded with item 0 counts item 0 as many hits as it is repeated; the diversity of lists of one item is 0 divided by 0; the SVD's prediction options are uninitialised for a string they do not know; titles with commas break `movie.txt`.
The models have these as they are, or stay within the inputs on which the code is defined, and say which at the definition.

## 5. The proofs

The modules `...Proofs` hold them, `Counting` the lemmas about cardinalities that they share; they are checked by `tlapm` to the last leaf, from nothing but the named assumptions on the constants, which TLC also evaluates:

| assumption | says | because |
|---|---|---|
| `BufferAssumption` | the threads are finitely many, the capacity is a whole number, the census is a natural one | the constructor's types |
| `SchedulerAssumption` | at least one producer, worker and consumer, no thread in two roles, at most one monitor, both buffers have room for one | what the clients pass |
| `GridAssumption` | at least one worker, more rows and more columns than workers; row 0 and column 0 exist | `svd_util.cpp:52` (0 threads means as many as there are cores), `:55` |
| `BundleAssumption` | at least one worker, finitely many samples, `TASK_BUNDLE_SIZE` is not 0, the queues have a place at least, whatever their number; the null pointer is no bundle | the programs' options |
| `ThresholdAssumption`, `QuickSortAssumption` | a range sorted by partition has at least three elements; arrays start at 0 and are finite; there is at least one thread; `cmp(x, y) < 0` is a strict weak order on the elements, of which equal ones may be different | `quick_sort.h`'s `sThreshold`, and what every sort asks of its comparator |
| `AllocatorAssumption` | sizes of blocks and pools are natural numbers, those of blocks not 0; `nullptr` is in no region. `malloc` may fail at any call | `size_t` |
| `EvaluationAssumption` | finitely many workers and at least one, none of them the producer or the consumer; natural numbers of users and items; bundles of at least one task and queues of at least one place, whatever their number; of an option, that there is a list size if lists are asked for | the programs' options; `CurrentRankingListSize` is uninitialised otherwise |

| theorem | says, for every value of the constants |
|---|---|
| `ObjectBufferProofs!TypeCorrect` | `Spec => []TypeOK`: the counters of producers and consumers alive stay in `0..mNum...` whoever quits how often |
| `ObjectBufferProofs!ClosedStaysEmpty`, `SizeStaysBounded`, `NobodyIsForgotten` | a closed buffer is empty, the queue stays within `mMaxSize`, nobody sleeps through the end |
| `ObjectBufferProofs!PopLosesNoWakeup` | `[]PopWakeupsSuffice` |
| `ObjectBufferProofs!PushLosesNoWakeup` | if nobody calls `Clear`, the same for producers, and `BlockedOnlyWhenFull` |
| `ObjectBufferProofs!BufferImplementsChannel` | `HSpec => ImplementsChannel` |
| `PipelinedSchedulerProofs!TypeCorrect`, `NoAssertFails` | the types, and that no `assert(rtn == LONGAN_SUCC)` fails |
| `PipelinedSchedulerProofs!SchedulerLosesNoWakeup` | `[]NoLostWakeup`, on each of the four condition variables |
| `PipelinedSchedulerProofs!EachTaskStaysInOnePlace` | no task is lost or handed out twice |
| `PipelinedSchedulerProofs!NothingIsLeftUnconsumed` | when `WaitFinish` returns each task has been taken in once |
| `PipelinedSchedulerProofs!SchedulerIsPipeline` | `Spec => ImplementsTaskPipeline` |
| `SvdModelComputationProofs!TypeCorrect` | `Spec => []TypeOK` |
| `SvdModelComputationProofs!ExclusiveTraining` | `[]ExclusiveUnlessMonitored`: for any grid and any number of workers |
| `SvdModelComputationProofs!TrainedEnough` | `[]TrainedOneIterationShort`: each block `Iterations() - 1` times, monitored or not |
| `BundledComputationProofs!TypeCorrect`, `FullBundles` | the types; without Monitor tasks every bundle but the last is full |
| `BundledComputationProofs!EveryTaskIsDone` | `[]EveryTaskDone`: in each of the four programs, with queues of any length, each sample is computed once in each iteration and stored, by whoever stores it, and the progress is complete |
| `BundledComputationProofs!ReportsAreOfTheIteration` | `[]ReportsTheIteration`: with one worker the reports are exact, however many bundles are waiting in the queues |
| `QuickSortMTProofs!SortInvariant`, `CallsApart` | `MTSpec => []ThreadsApart`: for every array, threshold, number of threads and order |
| `QuickSortMTProofs!SortSettles` | `MTSpec => []SettledIsFinal`: elements are only rearranged, what is in no unsorted range is in order, so what is returned is the array sorted |
| `AllocatorProofs!AllocatorInvariant`, `BlocksStayApart` | `AllocSpec => []BlocksApart`: for every size and pool, whatever is called in whatever order, wherever `malloc` finds memory or fails: blocks in use are apart and in memory that was given, but for the three exceptions of finding 10 |
| `EvaluationProofs!EvaluationInvariant`, `ListsStayTogether` | `EvaluationSpec => []ListsAgree`: for all data, options, workers, sizes of bundles and lengths of queues |
| `EvaluationProofs!MonitorStaysBehind` | `[]MonitorBehind`, a part of `EvaluationsAgree`: the monitor is never ahead of the consumer's sums |

With these every invariant that the runs check of the buffer, the scheduler, the grid, the bundles, the sort with threads and the allocators is a theorem, the lists of an evaluation are, and so are both refinements between the buffer, the scheduler and their promises.
`MTSpec`, `AllocSpec` and `EvaluationSpec` are the specifications of one process; the runs `algorithms`, `containers` and `recommender` check them together with other calls, which leave their variables alone.

How they go:

- *The buffer's ends.* `Safe`, the conjunction of the three, is inductive together with `TypeOK`: a call that puts something in has found an open buffer with room (`SafeEnqueue`), one that takes something out only makes room (`SafeDequeue`), the others touch neither or close the buffer.
- *Lost wakeups.* `PopWakeupsSuffice` alone is not inductive: that a sleeper is in the middle of a `Pop` is needed too (`SleepersAreCalling`), because the woken are counted as "interrupted and not asleep". An object put in wakes a sleeper, which adds one to the woken, or there is none left. A woken thread that returns takes its object along, or the queue was empty; one that goes back to sleep found the queue empty, so none were needed. A thread that never slept and takes an object only helps. For `Push` the same argument runs over free places, and `Clear` is the step that breaks it.
- *Refinement to the channel.* `HInv` says that the queue holds the last objects accepted, in order (`QueueIsLastAccepted`). Then `ChannelOf(queue, objectId)` is the list of their numbers; appending to the queue appends a number, taking from it takes the first (`ChannelOfAppend`, `ChannelOfTail`), so each step is `Accept`, `Deliver`, `Close`, `Clear` or nothing.
- *The scheduler.* A call of a buffer can fail in many ways, and none must happen. `Control` ties the buffers to the places of the threads in their loops: the census of a buffer counts the threads that have not reached their quit (`CensusMatches`), who leaves has left nothing behind him (`StagesEndInOrder`), a thread has a task in hand exactly between a get and a put (`HandsMatchPlaces`) and an interrupted call is the one its thread is at (`CallsMatchPlaces`). From that each step of `Next` is one of a few plain ones (`NextIsStep`): the branches that return an error drop out, and what is left to show is short. `Control` is preserved by each, and contains `AssertsHold`. Both of `WorkerDone`'s steps are needed apart: between them the worker is counted by the second buffer and no longer by the first.
- *No lost wakeup in the scheduler.* Each condition variable is an instance of one count, `Suffices(n, asleep, waiting)`: while somebody sleeps, the waiting who are awake are at least as many as the objects, or places, they wait for. `Counting` proves once what a wakeup, a new object, a taken one and a spurious wakeup do to it. Unlike in the buffer alone, nobody can call `Clear` here, so it holds for the pushers too.
- *Exactly once, and the refinement.* `Places(task)` counts the places a task is in; each plain step moves a task from one place to another, or moves none (`OnePlaceStep`). In the end the queues are empty and the hands too, so every task has been taken in (`NothingLeftBehind`). The abstract pipeline's hands are the threads' and its `left` those at their exit; a put or a get that returns is the pipeline's, who goes to sleep, wakes or quits the first half changes nothing of it, and `StagesEndInOrder` is what lets a worker leave.
- *The grid.* The blocks on their way are in five kinds of places: with the producer (chosen, not yet put), in the two queues, in a worker's hand, in the consumer's. `GridInv` says that a queue holds at most one task (`OneEach`), that who is busy has a task (`Busy`), and, unmonitored, that the blocks in different places have different rows and columns and that the flags of each are set, except the row the consumer has just cleared (`OnTheirWay`). A free block then meets nobody (`OneStarts`), a move changes nothing (`OneMoves`), and the consumer only clears the flags of a block that nobody else has a row or column in common with. Without `~option.monitor` it is false: finding 2 is where the induction fails.
- *How often a block is trained.* No count passes `Iterations() - 1`, and the producer's loop is over only when the least of them has got there (`CountsInRange`); nobody leaves while something can still come to him (`LeftInOrder`). Neither asks for `~option.monitor`.
- *Bundles.* `Base` says what a bundle, a position in it and the places of the threads look like, and that nobody leaves too early. As for the scheduler, every step is first shown to move bundles in one of a few ways (`NextMoves`). The queues may be of any length, so the accounts are not of bundles but of tasks: `IsFlat(flat, queue)` says that `flat` is the queue's bundles one after the other, and a put appends to it, a get takes off its beginning (`FlatAppend`, `FlatTail`); the concatenation is described by its places and not by a recursion. `EachComputedOnce` is an account of each sample: the tasks of it that the producer has made are computed, in the unfinished bundle, in the queue, or before the position of a worker; a step takes one off one column and adds it to another. `ComputedIsStored` says where a result is that has been computed and not stored, `PairsAreCounted` is the account of the progress. When all have left every column but one is empty. The type invariant follows from the account and not before it: that `computed` stays within the number of iterations is a fact about the whole pipeline.
- *Reports.* With one worker, whatever is still to be stored forms one stream: what the consumer has in hand from his position on, what is in the queue before him, what the worker has, what is in the queue before that one, the unfinished bundle (for the auto-encoder, which stores at the worker, only the latter part), the queues' bundles one after the other as in the accounts. `OneWorkerInOrder` says of it that iterations do not decrease and that a Monitor task is the last of its own (`InOrder`), that nothing stored is newer than what is still to come (`LossesAreOlder`), and that every task newer than what is stored is in it (`NothingIsMissing`). A step drops the first task, appends one, or passes bundles on, which changes nothing. When the first of the stream is a Monitor task, a loss of an older iteration would have its successor behind it, which `InOrder` forbids.
- *The sort with threads.* `ThreadsApart` is about the calls at work, and says nothing of those that wait, from whose parts new ones come. `Nesting` does: two calls have ranges that lie apart, or one is within a part that the other has called and waits for, so that a part is free again only when whoever works on it has returned. `Progress` is the loop invariant of an insertion and of a partition: below one index nothing is greater than the key, above the other nothing is less. Each step moves elements within the range of its call only, so it is a `Shuffle` of that range and leaves what the others' loop invariants say alone (`Nesting` again). `Settled` and `Rearranged` are `SettledIsFinal` itself, stated of `Filled`, where a key under way is at its hole: what a partition separates was in one unsorted range before and is in two when it ends, and across the key everything is in order by `Progress`. That only a weak order is needed is part of the result: equal elements may change places. That a rearrangement is a permutation, with as many of each element, is by counting along the bijection (`ReorderingPermutes`).
- *The allocators.* Of the preferred size: what is in use and what is kept for later are blocks of a pool, at a multiple of the block's size (`PoolBlocks`), no block is kept twice or both kept and in use (`KeptOnce`), and a block of another size is alone in its region (`OthersAlone`). All three speak only of addresses in memory that `malloc` gave and that were never freed as a block of another size (`Clean`); the others are finding 10. A pool that `malloc` refuses adds addresses that are not `Clean` and changes nothing for the rest. Two multiples of the size that differ are a block apart (`Blockwise`), and the pool is a whole number of blocks (`BlocksFit`), so blocks are apart and end in the pool. Of the small one: blocks of a pool lie one after the other, and in the last pool below its position (`SmallInPool`, `SmallBeside`); a large one is alone in a region that is no pool (`LargeAlone`). If `malloc` fails, nothing of this changes: there is no new pool, and the position stays in the old one. No exception for `nullptr` is needed here.
- *The evaluation.* That no two workers store the same list is a fact about the bundles: a task is in one bundle only (`BundlesOf`, from a product of the bundle's size and number), and in one place at a time of those where it has still to be worked on: with the producer, in the queue, in one worker's hand (`OnceToWork`). `Filling` says that a list in the making is that of the task its worker is at, for lists of that step's measure; then `KeptLists` is kept by `KeepList`, whichever size was asked for, because a shorter list is the beginning of a longer one (`Beginning`). What the ranking is does not matter to this. For the monitor, `Progress` is an account: what is counted and not yet processed is in the bundle the consumer has in hand, up to his position, for the measures that count by bundle, and nothing for the others; that the rating comes first and once (`StepsOf`) is why its sums, which its delegate does not reset, start at nothing.

Only model-checked, and why:

- everything about liveness (`Termination` of the scheduler, the grid and the bundles): fairness and `ENABLED` are out of the prover's reach;
- the algorithms, containers, ratings and learners (`algorithms`, `containers`, most of `recommender`): what a recursion or a fold computes for every input takes an induction over data, and the modules with `RECURSIVE` operators cannot be used with the prover at all. The sort with threads escapes this because its loops are steps;
- `KeepPromises`, the refinement of `Collections`, and the rest of `EvaluationsAgree`, for the same reason: expansion of a ring, sums and the sorting of the candidates are loops;
- the four violated properties, of course: `BlockedOnlyWhenFull` is a theorem if nobody calls `Clear`, `ExclusiveBlocks` if nothing is monitored.

## 6. What is not modelled

- *Rounding.* Numbers are whole, see 2.7. Overflow is modelled where it can happen with the numbers at hand (powers modulo m, `kInfinity` distances, `RunningMinK`'s limits, integers in files), and only there.
- *Data races* are modelled where the outcome depends on interleaving (the grid's flags, the wait sets, the losses, the cache of lists, the network's weights, read and written one number at a step). The SVD's features and the auto-encoder's weights are trained without a lock too; the former only if two blocks of a row are trained at once, which the grid excludes (`ExclusiveUnlessMonitored`), the latter in the same lines as the network's. Plain counters that another thread polls are read as their current value. A torn read or write of a single number is not modelled.
- *OpenMP* loops are loops over their rows: an iteration writes its own row only.
- *Which steps a configuration file asks for*, its default values, the command lines of the `..._longan.cpp` programs, logging. `movielens_prepare.cpp` and its like read it; the model does every step.
- *Copying and moving* of containers, vectors and matrices (other than an assignment's shape, section 4), and their iterators.
- *Strings*: splitting, trimming, parsing and formatting of numbers; a field of a line is a number or a word. `BigDecimal`, `Complex`.
- *The order of equal elements* under `std::sort`, which is not stable: the models keep it, and no property depends on it.
- Cryptography, file-system helpers, computer vision, sample programs, vendored libraries: no state of the library's own logic.

`PROJECT.json` gives the status and reason for each component.

## 7. Plan

Done, in this order: `ObjectBuffer`, `ObjectChannel` and the refinement; `PipelinedScheduler` over two buffers, `TaskPipeline`; `SvdModelComputationMT`; `BundledComputationMT`; their proofs; the algorithms and `QuickSortMT`; containers and allocators; ratings, preparation, evaluation and the learners.

The theorems cover the processes: whatever has threads, or one caller who may do anything at any time, and keeps its state from one step to the next. What is left, the most important first:

| module | what it would take |
|---|---|
| `DataStructures` | `KeepPromises` for the queue and the stack: an invariant of the ring, and the expansion's loop as one function; the heaps and the hash set rest on loops whose result takes an induction |
| `SvdModel` | that the inverse of a shuffle is its inverse for every permutation: one lemma, once the loop over the ids is a function and no fold |
| `BpNetwork` | that a worker's own buffers are its own between the phases, as a theorem of the process that `LearningCalls` has; it is checked over every interleaving of two threads |
| `Evaluation` | `ListsAreBest`, given that `std::sort` sorts: the library's `SortSeq` is a choice whose existence takes an induction |
