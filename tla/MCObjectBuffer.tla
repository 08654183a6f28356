--------------------------- MODULE MCObjectBuffer ---------------------------
(***************************************************************************)
(* Model checking ObjectBufferHistory: four threads that make every call,  *)
(* on a buffer of two places.                                              *)
(***************************************************************************)
EXTENDS ObjectBufferHistory, TLC

CONSTANT MaxObjectId    \* the number of objects ever put in

\* State constraint: objects are put in until there have been MaxObjectId.
FewObjects == objectId <= MaxObjectId

Threads == Permutations(Thread)
=============================================================================
