----------------------------- MODULE AlgorithmCalls -----------------------------
(***************************************************************************)
(* The algorithms of algorithm/, called one at a time with any input of a  *)
(* bounded set.  "call" is the call that has just returned: what it was    *)
(* given and what it gave.  What an algorithm should have given is defined *)
(* here without reference to how it works.  The sort with threads,         *)
(* QuickSortMT, is called as well, and takes many steps to return.         *)
(***************************************************************************)
EXTENDS Sorting, QuickSortMT, GraphAlgorithms, GeometryAndNumbers

CONSTANTS
    SortInputs,         \* the arrays for the other sorts
    Orders,             \* strict weak orders for the sorts
    WeightMatrices,     \* [n, w]: graphs for Dijkstra's algorithm
    SymmetricMatrices,  \* [n, w]: graphs for Prim's
    EdgeLists,          \* [n, edges]: graphs for Bellman's and Ford's
    EdgeMultisets,      \* [n, edges]: graphs for orders and paths
    BipartiteGraphs,    \* [l, r, w]: weights of 0 are no edge
    Triangles,          \* triples of points
    RectLists,          \* sequences of rectangles
    NumberPairs,        \* pairs of naturals
    Moduli              \* moduli whose square is less than UintLimit

VARIABLE call

NoCall == [kind |-> "none"]
NoSort == array = <<>> /\ unsorted = <<>> /\ mMTThreshold = 0 /\ calls = <<>>
-----------------------------------------------------------------------------
SortArray ==
    \E input \in SortInputs, lt \in Orders :
        call' = [kind |-> "array", input |-> input, lt |-> lt,
                 sorted |-> {BubbleSort(input, lt), InsertionSort(input, lt), ShellSort(input, lt),
                             MergeSort(input, lt), HeapSort(input, lt), QuickSort(input, lt)},
                 inversions |-> CountInversion(input),
                 selected |-> [k \in DOMAIN input |-> RandomizedSelect(input, k)]]

\* CountingSort gets pairs of a number and a tag: the array's index.
ArrangeArray ==
    \E input \in SortInputs :
        LET tagged == [x \in DOMAIN input |-> <<input[x], x>>]
            limit == Max({0} \cup {input[x] : x \in DOMAIN input}) + 1
        IN call' = [kind |-> "arrangement", input |-> input,
                    counted |-> CountingSort(tagged, limit, [t \in Nat \X Nat |-> t[1]]),
                    next |-> NextPermutation(input),
                    combination |-> NextCombination(input, Size(input) + 2),
                    found |-> [key \in 0..limit |-> BSearch(key, HeapSort(input, SortOrder), SortOrder)]]

MeasurePaths ==
    \/ \E g \in WeightMatrices : \E source \in Vertices(g.n) :
           call' = [kind |-> "paths", n |-> g.n, w |-> g.w, source |-> source,
                    distances |-> Dijkstra(g.n, g.w, source)]
    \/ \E g \in SymmetricMatrices :
           call' = [kind |-> "tree", n |-> g.n, w |-> g.w, weight |-> PrimTotalWeight(g.n, g.w)]
    \/ \E g \in EdgeLists :
           call' = [kind |-> "edges", n |-> g.n, edges |-> g.edges,
                    result |-> BellmanFord(g.n, g.edges, 0)]

WalkEdges ==
    \E g \in EdgeMultisets : \E start, finish \in Vertices(g.n) :
        call' = [kind |-> "walk", n |-> g.n, edges |-> g.edges, start |-> start, finish |-> finish,
                 topo |-> TopoSort(g.n, AdjList(g.n, g.edges)),
                 euler |-> FindEulerPath(g.n, EdgeCounts(g.n, g.edges), start, finish)]

MatchVertices ==
    \E g \in BipartiteGraphs :
        call' = [kind |-> "match", g |-> g,
                 pairs |-> ComputeMaxMatch({p \in DOMAIN g.w : g.w[p] > 0}, g.l, g.r).result,
                 weight |-> KuhnMunkres(g.w, g.l, g.r)]

MeasureFigures ==
    \/ \E t \in Triangles :
           call' = [kind |-> "triangle", t |-> t, area |-> DoubleArea(t),
                    center |-> Circumcenter(t[1], t[2], t[3])]
    \/ \E rects \in RectLists :
           call' = [kind |-> "rects", rects |-> rects, area |-> ComputeUnionArea(rects)]

Calculate ==
    \/ \E p \in NumberPairs :
           call' = [kind |-> "numbers", a |-> p[1], b |-> p[2], gcd |-> Gcd(p[1], p[2]),
                    prime |-> IsPrime(p[1]), factors |-> PrimeFactorization(p[1])]
    \/ \E m \in Moduli : \E x \in 0..m - 1, n \in 1..UintLimit :
           call' = [kind |-> "power", m |-> m, x |-> x, n |-> n, power |-> FastPower(x, n, m)]

Init == (MTInit \/ NoSort) /\ call = NoCall

Call ==
    /\ NoSort /\ call = NoCall
    /\ \/ SortArray
       \/ ArrangeArray
       \/ MeasurePaths
       \/ WalkEdges
       \/ MatchVertices
       \/ MeasureFigures
       \/ Calculate
    /\ UNCHANGED mtvars

\* The caller does something else.
Return == call # NoCall /\ call' = NoCall /\ UNCHANGED mtvars

Next ==
    \/ MTNext /\ UNCHANGED call
    \/ Call
    \/ Return

Spec == Init /\ [][Next]_<<mtvars, call>>
-----------------------------------------------------------------------------
(* Arrays.                                                                 *)

\* The pairs i < j with array[i] > array[j].
Inversions(a) == {p \in (DOMAIN a) \X (DOMAIN a) : p[1] < p[2] /\ a[p[1]] > a[p[2]]}

\* Every sort gives the elements in order (the unit tests of algorithm/sort
\* compare with one another, on a few random arrays), a random choice of
\* pivots does not change what RandomizedSelect returns, and CountInversion
\* counts the inversions of an array whose elements are all different, as
\* those of the unit test are (count_inversion.h:42 counts equal ones too).
SortsSort ==
    call.kind = "array" =>
        /\ \A a \in call.sorted : Sorted(a, call.lt) /\ IsPermutation(call.input, a)
        /\ IsInjective(call.input) => call.inversions = Cardinality(Inversions(call.input))
        /\ \A k \in DOMAIN call.input : \A x \in call.selected[k] :
              LET smaller == Cardinality({i \in DOMAIN call.input : call.input[i] < x})
                  greater == Cardinality({i \in DOMAIN call.input : x < call.input[i]})
              IN smaller <= k /\ k < Size(call.input) - greater

Precedes(a, b) ==
    \E i \in DOMAIN a : a[i] < b[i] /\ \A x \in DOMAIN a : x < i => a[x] = b[x]

Increasing(a) == \A x, y \in DOMAIN a : x < y => a[x] < a[y]

IsNext(b, a, arrays) ==
    b \in arrays /\ Precedes(a, b) /\ \A c \in arrays : Precedes(a, c) => c = b \/ Precedes(b, c)

\* CountingSort is stable, NextPermutation and NextCombination leave nothing
\* out, and a key is found if and only if it is there.
ArrangementsInOrder ==
    call.kind = "arrangement" =>
        LET a == call.input
            n == Size(a)
            permutations == {b \in [DOMAIN a -> {a[x] : x \in DOMAIN a}] : IsPermutation(a, b)}
            combinations == {b \in [DOMAIN a -> 0..n + 1] : Increasing(b)}
            sorted == HeapSort(a, SortOrder)
        IN /\ \A x, y \in DOMAIN call.counted : x < y =>
                 \/ call.counted[x][1] < call.counted[y][1]
                 \/ call.counted[x][1] = call.counted[y][1] /\ call.counted[x][2] < call.counted[y][2]
           /\ IF call.next.found THEN IsNext(call.next.array, a, permutations)
              ELSE /\ \A b \in permutations : ~Precedes(a, b)
                   /\ \A b \in permutations : ~Precedes(b, call.next.array)
           /\ a \in combinations =>
                 IF call.combination.found THEN IsNext(call.combination.array, a, combinations)
                 ELSE \A b \in combinations : ~Precedes(a, b)
           /\ \A key \in DOMAIN call.found :
                 IF call.found[key] = -1 THEN \A x \in DOMAIN a : a[x] # key
                 ELSE sorted[call.found[key]] = key
-----------------------------------------------------------------------------
(* Graphs.                                                                 *)

\* The ways from u to v that visit no vertex twice.
SimplePaths(n, u, v) ==
    {<<u>> \o mid \o (IF u = v THEN <<>> ELSE <<v>>) :
        mid \in IF u = v THEN {<<>>} ELSE {<<>>} \cup UNION {SetToAllKPermutations(S) : S \in SUBSET (Vertices(n) \ {u, v})}}

Length(path, w) == FoldLeft(LAMBDA d, i : d + w[path[i], path[i + 1]], 0, [i \in 1..Len(path) - 1 |-> i])

ShortestDistance(n, w, u, v) == Min({Length(path, w) : path \in SimplePaths(n, u, v)})

Connects(n, tree) ==
    \A S \in SUBSET Vertices(n) :
        S # {} /\ S # Vertices(n) => \E p \in tree : (p[1] \in S) # (p[2] \in S)

\* The lightest edge of the list between two vertices.
EdgeWeights(n, edges) ==
    [p \in Vertices(n) \X Vertices(n) |->
        Min({MaxDistance} \cup {edges[i].weight : i \in {j \in DOMAIN edges : edges[j].u = p[1] /\ edges[j].v = p[2]}})]

HasPath(path, w) == \A i \in 1..Len(path) - 1 : w[path[i], path[i + 1]] # MaxDistance

\* Dijkstra's distances are the shortest, Prim's tree is a lightest one.  So
\* are Bellman's and Ford's distances, and a negative cycle is reported if
\* and only if one can be reached, as long as negative edges only lead back
\* to the source, as in bellmanford_unittest.cpp: over ints, a negative edge
\* to a vertex not reached yet overflows (bellmanford.h:51).
PathsAreShortest ==
    /\ call.kind = "paths" =>
          \A v \in Vertices(call.n) : call.distances[v] = ShortestDistance(call.n, call.w, call.source, v)
    /\ call.kind = "tree" =>
          LET pairs == {p \in Vertices(call.n) \X Vertices(call.n) : p[1] < p[2]}
              trees == {t \in SUBSET pairs : Cardinality(t) = call.n - 1 /\ Connects(call.n, t)}
          IN call.weight = Min({MapThenSumSet(LAMBDA p : call.w[p], t) : t \in trees})
    /\ call.kind = "edges" /\ (\A i \in DOMAIN call.edges : call.edges[i].weight >= 0 \/ call.edges[i].v = 0) =>
          LET w == EdgeWeights(call.n, call.edges)
              to(v) == {path \in SimplePaths(call.n, 0, v) : HasPath(path, w)}
              cycle == \E v \in Vertices(call.n) : \E path \in to(v) :
                           w[v, 0] # MaxDistance /\ Length(path, w) + w[v, 0] < 0
          IN /\ call.result.negativeCycle = cycle
             /\ ~cycle => \A v \in Vertices(call.n) :
                   call.result.distances[v] = Min({MaxDistance} \cup {Length(path, w) : path \in to(v)})

PathEdges(path) == [i \in 1..Len(path) - 1 |-> [u |-> path[i], v |-> path[i + 1]]]

\* A graph is sorted topologically if it has no cycle; a path through all
\* edges is found if there is one (with parallel edges and loops, of which
\* euler_path_unittest.cpp has none); a matching cannot be larger, or
\* heavier.
WalksAndMatches ==
    /\ call.kind = "walk" =>
          LET orders == {s \in SetToAllKPermutations(Vertices(call.n)) : Len(s) = call.n}
              position(s, v) == CHOOSE i \in DOMAIN s : s[i] = v
              respects(s) == \A i \in DOMAIN call.edges : position(s, call.edges[i].u) < position(s, call.edges[i].v)
              trails == {t \in {[i \in DOMAIN call.edges |-> call.edges[p[i]]] :
                                   p \in Permutations(DOMAIN call.edges)} :
                            /\ t # <<>> => t[1].u = call.start /\ t[Len(t)].v = call.finish
                            /\ t = <<>> => call.start = call.finish
                            /\ \A i \in 1..Len(t) - 1 : t[i].v = t[i + 1].u}
          IN /\ call.topo.isDAG = \E s \in orders : respects(s)
             /\ call.topo.isDAG => call.topo.sequence \in orders /\ respects(call.topo.sequence)
             /\ trails # {} => call.euler.found /\ PathEdges(call.euler.path) \in trails
    /\ call.kind = "match" =>
          LET g == call.g
              matchings == {f \in [Vertices(g.l) -> Vertices(g.r)] : IsInjective(f)}
          IN /\ call.pairs = Max({Cardinality({x \in Vertices(g.l) : g.w[x, f[x]] > 0}) : f \in matchings})
             /\ call.weight.result = Max({MapThenSumSet(LAMBDA x : g.w[x, f[x]], Vertices(g.l)) : f \in matchings})
-----------------------------------------------------------------------------
(* Figures and numbers.                                                    *)

Cells(r) == (r.x..r.x + r.width - 1) \X (r.y..r.y + r.height - 1)

RECURSIVE IntPower(_, _)
IntPower(x, n) == IF n = 0 THEN 1 ELSE x * IntPower(x, n - 1)

Square(x) == x * x

Divides(d, n) == \E k \in 0..n : k * d = n

\* Areas computed in two ways agree, a circumcenter is as far from all three
\* corners, the union of two rectangles is as large as the cells it covers,
\* and of more rectangles never smaller (it may be larger: what a rectangle
\* swallows is replaced by one that is then not looked at,
\* rect_union_area.h:38-44).  Numbers are the product of their prime
\* factors, powers modulo m do not overflow.
FiguresAndNumbers ==
    /\ call.kind = "triangle" =>
          LET t == call.t
              c == call.center
              \* (x - X)^2 + (y - Y)^2 without the part all corners share
              side(p, q) == DistanceSquared(p, q)
              far(p) == (p.x * p.x + p.y * p.y) * c.denX * c.denY - 2 * p.x * c.numX * c.denY - 2 * p.y * c.numY * c.denX
          IN /\ call.area = DoubleTriangleArea(t[1], t[2], t[3])
             \* Heron's formula
             /\ 4 * call.area * call.area = 4 * side(t[1], t[2]) * side(t[1], t[3])
                    - Square(side(t[1], t[2]) + side(t[1], t[3]) - side(t[2], t[3]))
             /\ call.area # 0 => far(t[1]) = far(t[2]) /\ far(t[2]) = far(t[3])
    /\ call.kind = "rects" =>
          LET cells == Cardinality(UNION {Cells(call.rects[i]) : i \in DOMAIN call.rects})
          IN call.area >= cells /\ (Len(call.rects) <= 2 => call.area = cells)
    /\ call.kind = "numbers" =>
          LET divisors == {d \in 1..Max({call.a, call.b}) : Divides(d, call.a) /\ Divides(d, call.b)}
              product == FoldLeft(LAMBDA x, f : x * IntPower(f.factor, f.power), 1, call.factors)
          IN /\ call.gcd = Max(divisors)
             /\ call.prime = (call.a > 1 /\ \A d \in 2..call.a - 1 : ~Divides(d, call.a))
             /\ product = call.a
             /\ \A i \in DOMAIN call.factors : IsPrime(call.factors[i].factor)
             /\ \A i, j \in DOMAIN call.factors : i < j => call.factors[i].factor < call.factors[j].factor
    /\ call.kind = "power" => call.power = IntPower(call.x, call.n) % call.m
=============================================================================
