---------------------------- MODULE GraphAlgorithms ----------------------------
(***************************************************************************)
(* The graphs and graph algorithms of algorithm/graph.                     *)
(*                                                                         *)
(* The vertices are 0..n-1.  A matrix of weights or of edge counts is a    *)
(* function of pairs, a list of edges a sequence of records, an adjacency  *)
(* list a function that gives each vertex the sequence of its successors.  *)
(***************************************************************************)
EXTENDS Integers, Sequences, SequencesExt, FiniteSetsExt, Functions

CONSTANT MaxDistance    \* std::numeric_limits<T>::max(): 2^(w-1) - 1

Vertices(n) == 0..n - 1
InOrder(n) == [k \in 1..n |-> k - 1]

\* An int as the hardware subtracts and adds it: -2^(w-1)..2^(w-1) - 1.
Wrap(x) == ((x + MaxDistance + 1) % (2 * (MaxDistance + 1))) - MaxDistance - 1
-----------------------------------------------------------------------------
(* Graphs as they are built.                                               *)

\* AddEdge on a matrix of weights that starts with initWeight everywhere.
WeightMatrix(n, initWeight, edges) ==
    FoldLeft(LAMBDA w, e : [w EXCEPT ![e.u, e.v] = e.weight],
             [p \in Vertices(n) \X Vertices(n) |-> initWeight], edges)

\* AddEdge counts parallel edges.
EdgeCounts(n, edges) ==
    FoldLeft(LAMBDA g, e : [g EXCEPT ![e.u, e.v] = @ + 1],
             [p \in Vertices(n) \X Vertices(n) |-> 0], edges)

DegreeOutOfVertex(n, g, u) == MapThenSumSet(LAMBDA v : g[u, v], Vertices(n))
DegreeInOfVertex(n, g, v) == MapThenSumSet(LAMBDA u : g[u, v], Vertices(n))

\* A list's head is the edge added last.
AdjList(n, edges) ==
    FoldLeft(LAMBDA l, e : [l EXCEPT ![e.u] = <<e.v>> \o @], [u \in Vertices(n) |-> <<>>], edges)
-----------------------------------------------------------------------------
(* Dijkstra and Prim: both settle the nearest vertex n-1 times, and differ *)
(* in what is then the distance of the others.  The nearest is the first   *)
(* one with the least distance; there is one as long as distances are      *)
(* below numeric_limits::max(), otherwise k is not initialised.            *)

Nearest(n, s) ==
    LET open == Vertices(n) \ s.states
        least == Min({s.distances[j] : j \in open})
    IN Min({j \in open : s.distances[j] = least})

\* Mutant of Settle: the distance to the vertex settled is forgotten.
SettleAsPrim(n, w, s, through(_, _)) ==
    LET k == Nearest(n, s)
    IN [states |-> s.states \cup {k},
        distances |-> [j \in Vertices(n) |->
            IF j \notin s.states \cup {k} THEN Min({s.distances[j], w[k, j]}) ELSE s.distances[j]]]

Settle(n, w, s, through(_, _)) ==
    LET k == Nearest(n, s)
    IN [states |-> s.states \cup {k},
        distances |-> [j \in Vertices(n) |->
            IF j \notin s.states \cup {k}
            THEN Min({s.distances[j], through(s.distances[k], w[k, j])})
            ELSE s.distances[j]]]

SettleAll(n, w, source, through(_, _)) ==
    FoldLeft(LAMBDA s, i : Settle(n, w, s, through),
             [states |-> {source},
              distances |-> [u \in Vertices(n) |-> IF u = source THEN 0 ELSE w[source, u]]],
             [i \in 1..n - 1 |-> i]).distances

Dijkstra(n, w, source) == SettleAll(n, w, source, LAMBDA d, weight : d + weight)

\* A settled vertex keeps the weight of the edge that connects it.
PrimTotalWeight(n, w) == SumFunction(SettleAll(n, w, 0, LAMBDA d, weight : weight))
-----------------------------------------------------------------------------
(* Bellman and Ford, over ints.  The comparison subtracts the weight from  *)
(* the distance: of an unreached vertex that is MaxDistance, and with a    *)
(* negative weight it overflows.                                           *)

\* Mutant of Relaxes: what is reached cannot be reached by a shorter way.
RelaxesOnce(d, e) == d[e.v] = MaxDistance /\ d[e.u] < Wrap(d[e.v] - e.weight)

Relaxes(d, e) == d[e.u] < Wrap(d[e.v] - e.weight)

Relax(d, e) == IF Relaxes(d, e) THEN [d EXCEPT ![e.v] = Wrap(d[e.u] + e.weight)] ELSE d

\* A round that relaxes nothing is the last.
RECURSIVE Rounds(_, _, _)
Rounds(d, edges, i) ==
    LET round == FoldLeft(Relax, d, edges)
    IN IF i = 0 \/ round = d THEN d ELSE Rounds(round, edges, i - 1)

BellmanFord(n, edges, source) ==
    LET d == Rounds([v \in Vertices(n) |-> IF v = source THEN 0 ELSE MaxDistance], edges, n - 1)
    IN [distances |-> FoldLeft(LAMBDA s, e : IF s # d THEN s ELSE Relax(s, e), d, edges),
        negativeCycle |-> \E i \in DOMAIN edges : Relaxes(d, edges[i])]
-----------------------------------------------------------------------------
(* Topological order by depth-first search; s.sequence is filled from its  *)
(* end.                                                                    *)

RECURSIVE DFSVisit(_, _, _)
DFSVisit(adj, u, s) ==
    LET visit == FoldLeft(LAMBDA t, v :
                     CASE ~t.isDAG \/ v \in t.black -> t
                       [] t.isDAG /\ v \in t.gray -> [t EXCEPT !.isDAG = FALSE]
                       [] OTHER -> DFSVisit(adj, v, t),
                   [s EXCEPT !.gray = @ \cup {u}], adj[u])
    IN IF ~visit.isDAG THEN visit
       ELSE [visit EXCEPT !.gray = @ \ {u}, !.black = @ \cup {u}, !.sequence = <<u>> \o @]

TopoSort(n, adj) ==
    FoldLeft(LAMBDA s, u : IF s.isDAG /\ u \notin s.black THEN DFSVisit(adj, u, s) ELSE s,
             [isDAG |-> TRUE, gray |-> {}, black |-> {}, sequence |-> <<>>], InOrder(n))
-----------------------------------------------------------------------------
(* Euler path: follow edges, removing them, and write a vertex down when   *)
(* it is left for good.  A frame looks at each successor once.             *)

RECURSIVE FollowEdges(_, _, _)
FollowEdges(n, u, s) ==
    LET all == FoldLeft(LAMBDA t, v : IF t.graph[u, v] > 0
                                      THEN FollowEdges(n, v, [t EXCEPT !.graph[u, v] = @ - 1])
                                      ELSE t, s, InOrder(n))
    IN [all EXCEPT !.path = <<u>> \o @]

\* Mutant of DegreesAllowPath: nothing is said of the two ends.
DegreesAllowCircuit(n, g, start, finish) ==
    \A i \in Vertices(n) : DegreeInOfVertex(n, g, i) = DegreeOutOfVertex(n, g, i)

DegreesAllowPath(n, g, start, finish) ==
    \A i \in Vertices(n) :
        LET in == DegreeInOfVertex(n, g, i)
            out == DegreeOutOfVertex(n, g, i)
        IN in = out \/ (i = start /\ out = in + 1) \/ (i = finish /\ in = out + 1)

FindEulerPath(n, g, start, finish) ==
    IF DegreesAllowPath(n, g, start, finish)
    THEN [found |-> TRUE, path |-> FollowEdges(n, start, [graph |-> g, path |-> <<>>]).path]
    ELSE [found |-> FALSE, path |-> <<>>]
-----------------------------------------------------------------------------
(* Maximum matching of a bipartite graph with l left and r right vertices. *)
(* A vertex that finds its partner taken asks the partner's partner to     *)
(* find another.                                                           *)

Unlinked == -1

RECURSIVE Augment(_, _, _, _)
Augment(graph, r, x, s) ==
    FoldLeft(LAMBDA t, y :
        IF t.found \/ y \in t.used \/ <<x, y>> \notin graph THEN t
        ELSE LET taken == [t EXCEPT !.used = @ \cup {y}]
                 asked == IF t.link[y] = Unlinked THEN [taken EXCEPT !.found = TRUE]
                                                 ELSE Augment(graph, r, t.link[y], taken)
             IN IF asked.found THEN [asked EXCEPT !.link[y] = x] ELSE asked,
        s, InOrder(r))

ComputeMaxMatch(graph, l, r) ==
    FoldLeft(LAMBDA s, x : LET t == Augment(graph, r, x, [link |-> s.link, used |-> {}, found |-> FALSE])
                           IN [link |-> t.link, result |-> s.result + (IF t.found THEN 1 ELSE 0)],
             [link |-> [y \in Vertices(r) |-> Unlinked], result |-> 0], InOrder(l))
-----------------------------------------------------------------------------
(* Kuhn and Munkres: the same search among the edges without slack between *)
(* potentials that are lowered until it succeeds.  Every left vertex gets  *)
(* a partner, so there must be enough right ones: with fewer the loop does *)
(* not end.                                                                *)

RECURSIVE FindTight(_, _, _, _)
FindTight(w, r, x, s) ==
    FoldLeft(LAMBDA t, y :
        LET delta == t.left[x] + t.right[y] - w[x, y]
            taken == [t EXCEPT !.visitedRight = @ \cup {y}]
            asked == IF t.link[y] = Unlinked THEN [taken EXCEPT !.found = TRUE]
                                            ELSE FindTight(w, r, t.link[y], taken)
        IN CASE t.found \/ y \in t.visitedRight -> t
             [] ~t.found /\ y \notin t.visitedRight /\ delta # 0 -> [t EXCEPT !.slack[y] = Min({@, delta})]
             [] OTHER -> IF asked.found THEN [asked EXCEPT !.link[y] = x] ELSE asked,
        [s EXCEPT !.visitedLeft = @ \cup {x}], InOrder(r))

\* d is the least slack of a right vertex that was not visited.
AdjustPotentials(l, r, s) ==
    LET d == Min({s.slack[y] : y \in Vertices(r) \ s.visitedRight})
    IN [s EXCEPT !.left = [x \in Vertices(l) |-> IF x \in s.visitedLeft THEN @[x] - d ELSE @[x]],
                 !.right = [y \in Vertices(r) |-> IF y \in s.visitedRight THEN @[y] + d ELSE @[y]],
                 !.slack = [y \in Vertices(r) |-> IF y \in s.visitedRight THEN @[y] ELSE @[y] - d]]

RECURSIVE UntilMatched(_, _, _, _, _)
UntilMatched(w, l, r, x, s) ==
    LET t == FindTight(w, r, x, [s EXCEPT !.visitedLeft = {}, !.visitedRight = {}, !.found = FALSE])
    IN IF t.found THEN t ELSE UntilMatched(w, l, r, x, AdjustPotentials(l, r, t))

KuhnMunkres(w, l, r) ==
    LET init == [link |-> [y \in Vertices(r) |-> Unlinked],
                 left |-> [x \in Vertices(l) |-> Max({w[x, y] : y \in Vertices(r)})],
                 right |-> [y \in Vertices(r) |-> 0],
                 slack |-> [y \in Vertices(r) |-> MaxDistance],
                 visitedLeft |-> {}, visitedRight |-> {}, found |-> FALSE]
        done == FoldLeft(LAMBDA s, x :
                    UntilMatched(w, l, r, x, [s EXCEPT !.slack = [y \in Vertices(r) |-> MaxDistance]]),
                    init, InOrder(l))
    IN [link |-> done.link,
        result |-> MapThenSumSet(LAMBDA y : IF done.link[y] = Unlinked THEN 0 ELSE w[done.link[y], y],
                                 Vertices(r))]
=============================================================================
