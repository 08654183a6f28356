------------------------------ MODULE MCAlgorithms ------------------------------
(* Small inputs for the algorithms of algorithm/.                          *)
EXTENDS AlgorithmCalls

ArraysOf(n, values) == [0..n - 1 -> values]

\* The empty array, and one to five elements with and without equal ones.
MCSortInputs == (UNION {ArraysOf(n, 0..2) : n \in 0..4}) \cup {a \in ArraysOf(5, 0..4) : IsInjective(a)}
\* Long enough that a thread's thread makes threads.
MCMTInputs == {a \in ArraysOf(6, 0..5) : IsInjective(a)} \cup ArraysOf(7, 0..1)
              \cup {[x \in 0..8 |-> (x * k + d) % 9] : k \in {1, 2, 4, 5, 7, 8}, d \in 0..8}
MCLess == {p \in (0..8) \X (0..8) : p[1] < p[2]}
MCOrders == {MCLess, {<<p[2], p[1]>> : p \in MCLess}}

NoEdge == 7
Matrix(n, weights) == {[n |-> n, w |-> [p \in Vertices(n) \X Vertices(n) |-> IF p[1] = p[2] THEN 0 ELSE f[p]]] :
                          f \in [{p \in Vertices(n) \X Vertices(n) : p[1] # p[2]} -> weights]}
MCWeightMatrices == Matrix(3, {1, 2, NoEdge})
                    \cup {[n |-> 4, w |-> WeightMatrix(4, NoEdge, <<[u |-> 0, v |-> 1, weight |-> a],
                                                                     [u |-> 1, v |-> 2, weight |-> b],
                                                                     [u |-> 2, v |-> 3, weight |-> c],
                                                                     [u |-> 0, v |-> 2, weight |-> d],
                                                                     [u |-> 1, v |-> 3, weight |-> e]>>)] :
                               a, b, c, d, e \in {1, 3}}
MCSymmetricMatrices ==
    LET pairs == {p \in (0..3) \X (0..3) : p[1] < p[2]}
    IN {[n |-> 4, w |-> [p \in (0..3) \X (0..3) |->
            IF p[1] = p[2] THEN 0 ELSE IF p[1] < p[2] THEN f[p] ELSE f[<<p[2], p[1]>>]]] :
          f \in [pairs -> {1, 2, NoEdge}]}

MCEdge == [u : 0..2, v : 0..2, weight : {-1, 1, 3}]
MCEdgeLists == {[n |-> 3, edges |-> s] : s \in UNION {[1..k -> MCEdge] : k \in 0..2}}
               \cup {[n |-> 3, edges |-> s] : s \in [1..3 -> [u : 0..2, v : 0..2, weight : {-1, 3}]]}

\* At most four edges, loops and parallel edges among them; the order in
\* which they are added matters to no property.
MCKinds == [(1..9) -> (0..2) \X (0..2)]
MCKind(i) == [u |-> (i - 1) \div 3, v |-> (i - 1) % 3]
MCEdgeMultisets ==
    {[n |-> 3, edges |-> [i \in DOMAIN s |-> MCKind(s[i])]] :
        s \in {t \in UNION {[1..k -> 1..9] : k \in 0..4} : \A i, j \in DOMAIN t : i < j => t[i] <= t[j]}}

MCBipartiteGraphs ==
    {[l |-> 3, r |-> 3, w |-> w] : w \in [(0..2) \X (0..2) -> {0, 2}]}
    \cup {[l |-> 2, r |-> 3, w |-> w] : w \in [(0..1) \X (0..2) -> {0, 1, 3}]}

MCPoints == {Point(x, y) : x, y \in 0..2}
MCTriangles == {<<p, q, r>> : p, q, r \in MCPoints}
MCRects == {Rect(x, y, width, height) : x, y \in 0..1, width, height \in 1..2}
MCRectLists == UNION {[1..k -> MCRects] : k \in 1..2} \cup {<<Rect(0, 0, 1, 1), r, s>> : r, s \in MCRects}

MCNumberPairs == ((1..12) \X (0..12)) \cup ((13..60) \X {1})
MCModuli == 2..4
=============================================================================
