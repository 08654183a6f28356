------------------------------ MODULE MCContainers ------------------------------
EXTENDS ContainerCalls

MCElements == 1..3
\* The top is the greatest: MaxBinaryHeap.  MinBinaryHeap has the reverse,
\* and is in the running statistics' maxK.
MCHeapOrder == {p \in MCElements \X MCElements : p[1] < p[2]}
\* Two of the keys collide.
MCHashOf == [e \in MCElements |-> IF e = 1 THEN 5 ELSE e]
MCBinOf == [v \in -1..2 |-> v % 2]
MCTypeMin == -4
MCRegions == {"r1", "r2", "r3"}
=============================================================================
